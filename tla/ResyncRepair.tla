---------------------------- MODULE ResyncRepair ----------------------------
(* More proofs about Resync: what a push does to the guest of a room of    *)
(* two.  Nothing of the host's comes between the frames of its push, and   *)
(* with two seats there is nobody else; so the guest applies them with its *)
(* simulation frozen, and leaves the hold with the state of the host.      *)
(* (With three seats this is not so: the run resync3_torn shows it.)       *)
(* All of this is about pushes that arrive whole: cut = {} until a write   *)
(* of one has failed.                                                      *)
EXTENDS ResyncProofs

Guests   == Seats \ {Host}
TwoSeats == \A a, b \in Guests : a = b

-----------------------------------------------------------------------------
(* The host                                                                *)

(* Guests send the host no part of a push.                                 *)
FromGuest(f) == f.type \in {"CRC", "RESYNC_REQ"} \/ (f.type = "INPUT" /\ f.seat # Host)

HostInv ==
  /\ \A c \in Seats : (pc[c] = "push" => c = Host) /\ (pc[c] = "parked" => dropped[c])
  /\ hold[Host] <=> pc[Host] = "push"
  /\ pc[Host] = "push" =>
       resume[Host].tick = tick[Host] + Margin /\ resume[Host].push = epoch[Host] + 1
  /\ ~Torn(Host)
  /\ epoch[Host] > 0 /\ ~dropped[Host] => game[Host] = Right(Host)
  /\ \A p \in 1 .. Len(down[Host]) : FromGuest(down[Host][p])

(* A state that is the image of one push, or has nothing of a push.        *)
LEMMA NotTorn ==
  ASSUME NEW c \in Seats, epoch[c] \in Nat,
         \/ \E n \in Nat : n <= epoch[c] /\ game[c] = Whole(Pushed(n))
         \/ game[c] = Whole(Own(c))
  PROVE  ~Torn(c)
<1>1. CASE game[c] = Whole(Own(c))
  <2>1. \A i \in Chunks : game[c][i][1] = "own"
    BY <1>1 DEF Whole, Own
  <2> QED BY <2>1 DEF Torn
<1>2. ASSUME NEW n \in Nat, n <= epoch[c], game[c] = Whole(Pushed(n)) PROVE ~Torn(c)
  <2>1. \A i \in Chunks : game[c][i][2] = n
    BY <1>2 DEF Whole, Pushed
  <2>2. ~(n > epoch[c])
    BY <1>2
  <2> QED BY <2>1, <2>2 DEF Torn
<1> QED BY <1>1, <1>2

LEMMA HostInit == Init => HostInv
<1> SUFFICES ASSUME Init PROVE HostInv
  OBVIOUS
<1> USE Params
<1>1. ~Torn(Host)
  <2>1. epoch[Host] = 0 /\ game[Host] = Whole(Pushed(0)) /\ epoch[Host] \in Nat
    BY DEF Init
  <2> QED BY <2>1, NotTorn
<1>2. \A c \in Seats : pc[c] = "entry" /\ ~hold[c] /\ epoch[c] = 0 /\ down[c] = <<>>
  BY DEF Init
<1> QED BY <1>1, <1>2 DEF HostInv

LEMMA FromGuestAppend ==
  ASSUME NEW q \in Seq(Frames), \A p \in 1 .. Len(q) : FromGuest(q[p]), NEW f \in Frames, FromGuest(f)
  PROVE  \A p \in 1 .. Len(Append(q, f)) : FromGuest(Append(q, f)[p])
<1> DEFINE a == Append(q, f)
<1>1. /\ a[Len(q) + 1] = f /\ \A p \in 1 .. Len(q) : a[p] = q[p]
      /\ \A p \in 1 .. Len(a) : p \in 1 .. Len(q) \/ p = Len(q) + 1
  BY AppendFacts
<1> HIDE DEF a
<1>2. \A p \in 1 .. Len(a) : FromGuest(a[p])
  BY <1>1
<1> QED BY <1>2 DEF a

(* What a guest sends keeps the host's queue free of pushes.               *)
LEMMA GuestSends ==
  ASSUME TypeInv, HostInv, NEW c \in Seats, NEW f \in Frames, c # Host => FromGuest(f),
         down' = Sent(c, f)
  PROVE  \A p \in 1 .. Len(down'[Host]) : FromGuest(down'[Host][p])
<1>1. \A p \in 1 .. Len(down[Host]) : FromGuest(down[Host][p])
  BY DEF HostInv
<1>2. down[Host] \in Seq(Frames) /\ Host \in Seats /\ Typed
  BY Params, Typings DEF TypeInv
<1>3. down'[Host] = down[Host] \/ (c # Host /\ down'[Host] = Append(down[Host], f))
  BY <1>2, SentFacts
<1> QED BY <1>1, <1>2, <1>3, FromGuestAppend

(* What the host reads is none of its own push.                            *)
LEMMA HostReads ==
  ASSUME TypeInv, HostInv, Recv(Host)
  PROVE  /\ OnInput(Host, Head(down[Host])) \/ OnCrc(Host, Head(down[Host]))
                                            \/ OnReq(Host, Head(down[Host]))
         /\ \A p \in 1 .. Len(down'[Host]) : FromGuest(down'[Host][p])
<1> DEFINE f == Head(down[Host])
<1>1. down[Host] \in Seq(Frames) /\ Host \in Seats /\ Typed
  BY Params, Typings DEF TypeInv
<1>2. /\ down[Host] # <<>> /\ f = down[Host][1] /\ down'[Host] = Tail(down[Host])
      /\ OnInput(Host, f) \/ OnCrc(Host, f) \/ OnReq(Host, f)
           \/ OnBegin(Host, f) \/ OnChunk(Host, f) \/ OnEnd(Host, f)
  BY <1>1, RecvFacts
<1>3. FromGuest(f) /\ \A p \in 1 .. Len(down'[Host]) : FromGuest(down'[Host][p])
  BY <1>1, <1>2, TailFacts DEF HostInv
<1> QED BY <1>2, <1>3 DEF FromGuest, OnBegin, OnChunk, OnEnd

(* What console p has of its own, its queue apart, stays as it is.         *)
Same(p) ==
  /\ pc'[p] = pc[p] /\ tick'[p] = tick[p] /\ wm'[p] = wm[p] /\ page'[p] = page[p]
  /\ dropped'[p] = dropped[p] /\ hold'[p] = hold[p] /\ resume'[p] = resume[p]
  /\ game'[p] = game[p] /\ epoch'[p] = epoch[p]

Step(c) ==
  \/ EnterPass(c) \/ Park(c) \/ Recv(c) \/ Capture(c) \/ RunTick(c)
  \/ PushWrite(c) \/ PushEnd(c) \/ GiveUp(c) \/ Stray(c)

LEMMA RebaseOthers ==
  ASSUME Typed, NEW c \in Seats, Rebase(c), NEW p \in Seats \ {c}
  PROVE  /\ tick'[p] = tick[p] /\ wm'[p] = wm[p] /\ page'[p] = page[p] /\ hold'[p] = hold[p]
         /\ resume'[p] = resume[p] /\ epoch'[p] = epoch[p]
BY DEF Typed, Rebase

(* A step of one console touches no other but for its queue.               *)
LEMMA OthersSame ==
  ASSUME Typed, NEW c \in Seats, Step(c), NEW p \in Seats \ {c}
  PROVE  Same(p)
<1>1. CASE EnterPass(c)
  BY <1>1 DEF EnterPass, Typed, Same, rsv, sim
<1>2. CASE Park(c)
  BY <1>2 DEF Park, Typed, Same, rsv, sim
<1>3. CASE Recv(c)
  <2> DEFINE f == Head(down[c])
  <2>1. pc'[p] = pc[p] /\ dropped' = dropped
    BY <1>3, RecvFacts
  <2>2. CASE OnInput(c, f)
    <3>1. UNCHANGED <<tick, rsv, sim>> /\ wm'[p] = wm[p] /\ page'[p] = page[p]
      <4>1. CASE f.tick > wm[c][f.seat]
        <5>1. /\ page' = [page EXCEPT ![c][f.seat] = page[c][f.seat] \cup {<<f.tick, f.epoch>>}]
              /\ wm' = [wm EXCEPT ![c][f.seat] = f.tick] /\ UNCHANGED <<tick, rsv, sim>>
          BY <2>2, <4>1 DEF OnInput
        <5> HIDE DEF f
        <5> QED BY <5>1 DEF Typed
      <4>2. CASE ~(f.tick > wm[c][f.seat])
        BY <2>2, <4>2 DEF OnInput
      <4> QED BY <4>1, <4>2
    <3> QED BY <2>1, <3>1 DEF Same, rsv, sim
  <2>3. CASE OnCrc(c, f) \/ OnReq(c, f)
    BY <2>1, <2>3 DEF OnCrc, OnReq, Same, sim
  <2>4. CASE OnBegin(c, f)
    BY <2>1, <2>4 DEF OnBegin, EnterHold, Same, sim, Typed
  <2>5. CASE OnChunk(c, f)
    <3>1. UNCHANGED <<tick, wm, page, rsv, epoch, strayed>> /\ game'[p] = game[p]
      BY <2>5 DEF OnChunk, Typed
    <3> QED BY <2>1, <3>1 DEF Same, rsv
  <2>6. CASE OnEnd(c, f)
    BY <2>1, <2>6, RebaseOthers DEF OnEnd, Same
  <2> QED BY <1>3, <2>2, <2>3, <2>4, <2>5, <2>6 DEF Recv
<1>4. CASE Capture(c)
  <2>1. page' = [page EXCEPT ![c][c] = page[c][c] \cup {<<tick[c] + D, epoch[c]>>}]
    BY <1>4 DEF Capture
  <2>2. page'[p] = page[p]
    BY <2>1 DEF Typed
  <2> QED BY <1>4, <2>2 DEF Capture, Typed, Same, rsv
<1>5. CASE RunTick(c)
  <2>1. game'[p] = game[p] /\ tick'[p] = tick[p] /\ UNCHANGED <<wm, page, dropped, epoch>>
    BY <1>5 DEF RunTick, Typed
  <2>2. pc'[p] = pc[p] /\ hold'[p] = hold[p] /\ resume'[p] = resume[p]
    <3>1. CASE StartPush(c)
      BY <3>1 DEF StartPush, EnterHold, Typed
    <3>2. ASSUME NEW r, KeepWaiting(c, r) PROVE pc'[p] = pc[p] /\ UNCHANGED <<hold, resume>>
      BY <3>2 DEF KeepWaiting, Typed
    <3> QED BY <1>5, <3>1, <3>2 DEF RunTick
  <2> QED BY <2>1, <2>2 DEF Same
<1>6. CASE PushWrite(c)
  BY <1>6 DEF PushWrite, Same, sim
<1>7. CASE PushEnd(c)
  BY <1>7, RebaseOthers DEF PushEnd, Same, Typed
<1>8. CASE GiveUp(c)
  BY <1>8 DEF GiveUp, Same, sim, Typed
<1>9. CASE Stray(c)
  <2>1. PICK i \in Chunks : game' = [game EXCEPT ![c][i] = Own(c)]
    BY <1>9 DEF Stray
  <2>2. game'[p] = game[p]
    BY <2>1 DEF Typed
  <2> QED BY <1>9, <2>2 DEF Stray, Same, rsv
<1> QED BY <1>1, <1>2, <1>3, <1>4, <1>5, <1>6, <1>7, <1>8, <1>9 DEF Step

(* A tick brings nothing of a push that is not in yet, and once an image   *)
(* is in, it leaves it alone.                                              *)
LEMMA TickKeeps ==
  ASSUME Typed, NEW c \in Seats, RunTick(c), ~Torn(c)
  PROVE  /\ ~Torn(c)'
         /\ ~dropped[c] /\ epoch[c] > 0 /\ game[c] = Right(c) => game'[c] = Right(c)
<1>1. PICK after \in Ran(c) : game' = [game EXCEPT ![c] = after]
  BY DEF RunTick
<1>2. game'[c] = after /\ epoch' = epoch
  BY <1>1 DEF RunTick, Typed
<1>3. ~dropped[c] /\ epoch[c] > 0 => ~Hole(c)
  BY Typings DEF Hole
<1>4. ~dropped[c] /\ epoch[c] > 0 /\ game[c] = Right(c) => game'[c] = Right(c)
  BY <1>2, <1>3 DEF Ran
<1>5. after \in {game[c], Whole(Own(c)), Right(c)}
  BY DEF Ran
<1>6. epoch'[c] \in Nat
  BY <1>2, Params DEF Typed
<1>7. ~Torn(c)'
  <2>1. CASE after = game[c]
    BY <1>2, <2>1 DEF Torn
  <2>2. CASE after = Whole(Own(c))
    <3>1. \A i \in Chunks : game'[c][i][1] = "own"
      BY <1>2, <2>2 DEF Whole, Own
    <3> QED BY <3>1 DEF Torn
  <2>3. CASE after = Right(c)
    <3>1. \A i \in Chunks : game'[c][i][2] = epoch'[c]
      BY <1>2, <2>3 DEF Right, Whole, Pushed
    <3> QED BY <1>6, <3>1 DEF Torn
  <2> QED BY <1>5, <2>1, <2>2, <2>3
<1> QED BY <1>4, <1>7

(* What goes wrong in a console is nobody's image.                         *)
LEMMA StrayTears ==
  ASSUME Typed, NEW c \in Seats, Stray(c), ~Torn(c)
  PROVE  ~Torn(c)'
<1>1. PICK k \in Chunks : game' = [game EXCEPT ![c][k] = Own(c)]
  BY DEF Stray
<1>2. ASSUME NEW i \in Chunks PROVE game'[c][i] = game[c][i] \/ game'[c][i] = Own(c)
  BY <1>1 DEF Typed, States
<1>3. \A i \in Chunks : game'[c][i] = game[c][i] \/ game'[c][i][1] = "own"
  BY <1>2 DEF Own
<1> QED BY <1>3 DEF Torn, Stray

LEMMA HostStep == TypeInv /\ HostInv /\ [Next]_vars => HostInv'
<1> SUFFICES ASSUME TypeInv, HostInv, [Next]_vars PROVE HostInv'
  OBVIOUS
<1> USE Params
<1>1. CASE UNCHANGED vars
  BY <1>1 DEF vars, rsv, sim, HostInv, Torn, Right
<1>2. ASSUME NEW c \in Seats, Step(c) PROVE HostInv'
  <2>1. Typed /\ Host \in Seats /\ \A p \in Seats \ {c} : Same(p)
    BY <1>2, OthersSame DEF TypeInv
  <2>2. /\ pc'[c] = "push" => c = Host
        /\ pc'[c] = "parked" => dropped'[c]
    <3>1. CASE RunTick(c)
      <4>1. CASE StartPush(c)
        BY <2>1, <4>1 DEF StartPush, Typed
      <4>2. ASSUME NEW r, KeepWaiting(c, r) PROVE pc'[c] = "entry"
        BY <2>1, <4>2 DEF KeepWaiting, Typed
      <4> QED BY <3>1, <4>1, <4>2 DEF RunTick
    <3>2. CASE Recv(c)
      BY <2>1, <3>2, RecvFacts DEF HostInv
    <3>3. CASE EnterPass(c) \/ Park(c) \/ Capture(c) \/ PushEnd(c)
      BY <2>1, <3>3 DEF EnterPass, Park, Capture, PushEnd, Typed
    <3>4. CASE PushWrite(c) \/ Stray(c)
      BY <2>1, <3>4 DEF HostInv, PushWrite, Stray
    <3>5. CASE GiveUp(c)
      BY <2>1, <3>5 DEF HostInv, GiveUp, Typed
    <3> QED BY <1>2, <3>1, <3>2, <3>3, <3>4, <3>5 DEF Step
  <2>3. \A p \in 1 .. Len(down'[Host]) : FromGuest(down'[Host][p])
    <3>1. CASE EnterPass(c) \/ GiveUp(c) \/ Stray(c)
      BY <3>1 DEF EnterPass, GiveUp, Stray, HostInv
    <3>2. CASE Park(c)
      BY <2>1, <3>2 DEF Park, HostInv, Typed
    <3>3. CASE Recv(c)
      <4>1. CASE c = Host
        BY <3>3, <4>1, HostReads
      <4>2. CASE c # Host
        <5>1. down'[Host] = down[Host] \/ down'[Host] = Append(down[Host], Req)
          BY <2>1, <3>3, <4>2, RecvFacts
        <5>2. down[Host] \in Seq(Frames) /\ Req \in Frames /\ FromGuest(Req)
          BY <2>1, Typings, MadeFrames DEF FromGuest, Req
        <5>3. \A p \in 1 .. Len(down[Host]) : FromGuest(down[Host][p])
          BY DEF HostInv
        <5> QED BY <5>1, <5>2, <5>3, FromGuestAppend
      <4> QED BY <4>1, <4>2
    <3>4. CASE Capture(c)
      <4> DEFINE f == Input(c, tick[c] + D, epoch[c])
      <4>1. tick[c] + D \in Nat /\ epoch[c] \in Nat
        BY <2>1, Typings
      <4>2. f \in Frames /\ f.type = "INPUT" /\ f.seat = c
        BY <4>1, MadeFrames DEF Input
      <4>3. down' = Sent(c, f) \/ down' = down
        BY <3>4 DEF Capture
      <4> HIDE DEF f
      <4> QED BY <4>2, <4>3, GuestSends DEF FromGuest, HostInv
    <3>5. CASE RunTick(c)
      <4>1. PICK f \in Frames : f.type = "CRC" /\ (down' = Sent(c, f) \/ down' = down)
        BY <2>1, <3>5, TickSends
      <4> QED BY <4>1, GuestSends DEF FromGuest, HostInv
    <3>6. CASE PushWrite(c) \/ PushEnd(c)
      <4>1. c = Host
        BY <3>6 DEF HostInv, PushWrite, PushEnd
      <4>2. down'[Host] = down[Host]
        BY <2>1, <3>6, <4>1 DEF PushWrite, PushEnd, Written, Sent
      <4> QED BY <4>2 DEF HostInv
    <3> QED BY <1>2, <3>1, <3>2, <3>3, <3>4, <3>5, <3>6 DEF Step
  <2>4. /\ hold'[Host] <=> pc'[Host] = "push"
        /\ pc'[Host] = "push" =>
             resume'[Host].tick = tick'[Host] + Margin /\ resume'[Host].push = epoch'[Host] + 1
        /\ ~Torn(Host)'
        /\ epoch'[Host] > 0 /\ ~dropped'[Host] => game'[Host] = Right(Host)'
    <3>1. CASE c # Host
      BY <2>1, <3>1 DEF HostInv, Same, Torn, Right
    <3>2. CASE c = Host
      <4>0. epoch[Host] \in 0 .. MaxPush /\ tick[Host] \in Nat
        BY <2>1, Typings
      <4>1. CASE EnterPass(Host) \/ Park(Host) \/ Capture(Host) \/ PushWrite(Host)
        <5>1. /\ UNCHANGED <<tick, rsv, game, epoch, dropped>>
              \/ UNCHANGED <<tick, game, epoch, hold, resume, dropped>>
          BY <4>1 DEF EnterPass, Park, Capture, PushWrite, sim
        <5>2. pc'[Host] = "push" <=> pc[Host] = "push"
          BY <2>1, <4>1 DEF EnterPass, Park, Capture, PushWrite, Typed
        <5> QED BY <5>1, <5>2 DEF HostInv, rsv, Torn, Right
      <4>2. CASE Recv(Host)
        <5>1. UNCHANGED <<tick, hold, resume, game, epoch>>
          BY <4>2, HostReads DEF OnInput, OnCrc, OnReq, rsv, sim
        <5>2. dropped' = dropped /\ pc[Host] # "push" /\ pc'[Host] # "push"
          BY <2>1, <4>2, RecvFacts, NoPumpInPush
        <5> QED BY <5>1, <5>2 DEF HostInv, Torn, Right
      <4>3. CASE RunTick(Host)
        <5>1. /\ dropped' = dropped /\ epoch' = epoch /\ tick'[Host] = tick[Host] + 1
              /\ pc[Host] # "push" /\ ~hold[Host]
          BY <2>1, <4>3 DEF RunTick, Typed, AtGate, HostInv
        <5>2. /\ ~Torn(Host)'
              /\ epoch'[Host] > 0 /\ ~dropped'[Host] => game'[Host] = Right(Host)'
          BY <2>1, <4>3, <5>1, TickKeeps DEF HostInv, Right
        <5>3. CASE StartPush(Host)
          <6> DEFINE r == [tick |-> ResumeTick(tick[Host] + 1), push |-> epoch[Host] + 1]
          <6>1. hold'[Host] = TRUE /\ resume'[Host] = r /\ pc'[Host] = "push"
            BY <2>1, <5>3 DEF StartPush, EnterHold, Typed
          <6>2. r.tick = (tick[Host] + 1) + Margin /\ r.push = epoch[Host] + 1
            BY DEF ResumeTick
          <6> HIDE DEF r
          <6> QED BY <5>1, <5>2, <6>1, <6>2
        <5>4. ASSUME NEW r, KeepWaiting(Host, r) PROVE pc'[Host] = "entry" /\ hold' = hold
          BY <2>1, <5>4 DEF KeepWaiting, Typed
        <5> QED BY <4>3, <5>1, <5>2, <5>3, <5>4 DEF RunTick
      <4>4. CASE PushEnd(Host)
        <5>1. /\ pc'[Host] = "entry" /\ ~hold'[Host] /\ dropped' = dropped
              /\ game'[Host] = Whole(Pushed(resume[Host].push)) /\ epoch'[Host] = resume[Host].push
          BY <2>1, <4>4 DEF PushEnd, Rebase, Typed
        <5>2. resume[Host].push \in Nat
          BY <2>1 DEF Typed, Resumes
        <5>3. \A i \in Chunks : game'[Host][i][2] = epoch'[Host]
          BY <5>1 DEF Whole, Pushed
        <5>4. ~Torn(Host)'
          BY <5>1, <5>2, <5>3 DEF Torn
        <5> QED BY <5>1, <5>4 DEF Right
      <4>5. CASE GiveUp(Host)
        <5>1. /\ UNCHANGED <<tick, epoch, game, pc>> /\ pc[Host] # "push" /\ dropped'[Host]
              /\ hold'[Host] = (IF pc[Host] = "entry" THEN FALSE ELSE hold[Host])
          BY <2>1, <4>5 DEF GiveUp, sim, AtGate, Typed
        <5> QED BY <5>1 DEF HostInv, Torn, Right
      <4>6. CASE Stray(Host)
        <5>1. UNCHANGED <<pc, tick, rsv, epoch, dropped>> /\ epoch[Host] = 0
          BY <2>1, <4>6 DEF Stray, Fault
        <5>2. ~Torn(Host)'
          BY <2>1, <4>6, StrayTears DEF HostInv
        <5> QED BY <5>1, <5>2 DEF HostInv, rsv
      <4> QED BY <1>2, <3>2, <4>1, <4>2, <4>3, <4>4, <4>5, <4>6 DEF Step
    <3> QED BY <3>1, <3>2
  <2>5. \A p \in Seats : (pc'[p] = "push" => p = Host) /\ (pc'[p] = "parked" => dropped'[p])
    BY <2>1, <2>2 DEF HostInv, Same
  <2> QED BY <2>3, <2>4, <2>5 DEF HostInv
<1> QED BY <1>1, <1>2 DEF Next, Step

LEMMA HostAlways == Spec => []HostInv
BY TypeAlways, HostInit, HostStep, PTL DEF Spec

-----------------------------------------------------------------------------
(* The push                                                                *)

(* What the host writes next, and with it the line of frames towards c.    *)
None == [type |-> "NONE"]
NextWrite ==
  IF pc[Host] # "push" THEN None
  ELSE IF pos = 0 THEN Begin(resume[Host])
  ELSE IF pos <= K THEN Chunk(pos, resume[Host].push) ELSE End
Line(c) == Append(down[c], NextWrite)

Items    == Frames \cup {None}
Plain(f) == f.type \notin {"BEGIN", "CHUNK", "END"}

(* A push is BEGIN, the chunks in order, END, with nothing in between.     *)
Follows(a, b) ==
  /\ b.type = "CHUNK" => \/ b.i = 1 /\ a.type = "BEGIN" /\ a.resume.push = b.push
                         \/ b.i > 1 /\ a.type = "CHUNK" /\ a.i = b.i - 1 /\ a.push = b.push
  /\ b.type = "END" => a.type = "CHUNK" /\ a.i = K
  /\ b.type \notin {"CHUNK", "END"} => a.type \notin {"BEGIN", "CHUNK"}

InOrder(q) == \A p \in 1 .. Len(q) : p + 1 \in 1 .. Len(q) => Follows(q[p], q[p + 1])

(* Some chunks are in, and the END is still to come.                       *)
Midway(h) == h.type = "END" \/ (h.type = "CHUNK" /\ h.i > 1)

(* The state of guest c, given the head of its line: held exactly inside a *)
(* push, with the chunks before the head applied, and frozen as long as    *)
(* its game state is a mixture.                                            *)
Applied(c, h) ==
  /\ hold[c] <=> h.type \in {"CHUNK", "END"}
  /\ h.type = "CHUNK" => /\ resume[c].push = h.push
                         /\ \A j \in Chunks : j < h.i => game[c][j] = Pushed(h.push)
  /\ h.type = "END" => game[c] = Whole(Pushed(resume[c].push))
  /\ Midway(h) => pc[c] # "top" /\ (AtGate(c) => wm[c][Host] < tick[c])
  /\ ~Midway(h) => ~Torn(c)
  /\ ~hold[c] /\ epoch[c] > 0 => game[c] = Right(c)

PushInv ==
  cut = {} => \A c \in Guests : ~dropped[c] => InOrder(Line(c)) /\ Applied(c, Line(c)[1])

LEMMA ItemFacts ==
  ASSUME NEW f \in Items
  PROVE  /\ f.type \in {"INPUT", "RESYNC_REQ", "END", "BEGIN", "CHUNK", "CRC", "NONE"}
         /\ f.type = "CHUNK" => f.i \in Chunks /\ f.i \in Nat /\ f.i >= 1 /\ f.push \in Nat
         /\ f.type = "BEGIN" => f.resume \in Resumes /\ f.resume.push \in Nat
         /\ f.type # "NONE" => f \in Frames
<1>1. CASE f = None
  BY <1>1 DEF None
<1>2. CASE f \in Frames
  BY <1>2, FrameFacts DEF Chunks, Resumes
<1> QED BY <1>1, <1>2 DEF Items

LEMMA LineTyped ==
  ASSUME TypeInv, NEW c \in Seats
  PROVE  /\ NextWrite \in Items /\ down[c] \in Seq(Items) /\ Line(c) \in Seq(Items)
         /\ Line(c) # <<>> /\ Line(c)[1] \in Items
<1> USE Params
<1>1. resume[Host] \in Resumes /\ resume[Host].push \in Nat /\ pos \in 0 .. K + 1
  BY DEF TypeInv, Typed, Counted, Resumes
<1>2. NextWrite \in Items
  <2>1. pos # 0 /\ pos <= K => pos \in Chunks
    BY <1>1 DEF Chunks
  <2> QED BY <1>1, <2>1, MadeFrames DEF NextWrite, Items
<1>3. down[c] \in Seq(Frames)
  BY Typings DEF TypeInv
<1>4. down[c] \in Seq(Items)
  <2>1. Frames \subseteq Items
    BY DEF Items
  <2> QED BY <1>3, <2>1
<1>5. Append(down[c], NextWrite) \in Seq(Items) /\ Append(down[c], NextWrite) # <<>>
  BY <1>2, <1>4, AppendFacts
<1>6. Append(down[c], NextWrite)[1] \in Items
  BY <1>5, TailFacts
<1> QED BY <1>2, <1>4, <1>5, <1>6 DEF Line

(* The same in the next state.                                             *)
LinesTyped == NextWrite \in Items /\ \A c \in Seats : Line(c)[1] \in Items

LEMMA LineTypedNext == (TypeInv => LinesTyped)'
<1>1. TypeInv => LinesTyped
  BY LineTyped, Params DEF LinesTyped
<1> QED BY <1>1, PTL

LEMMA HeadOfLine ==
  ASSUME NEW q \in Seq(Items), NEW x \in Items
  PROVE  /\ q = <<>> => Append(q, x)[1] = x
         /\ q # <<>> => Append(q, x)[1] = q[1]
<1>1. q = <<>> => Len(q) = 0
  OBVIOUS
<1>2. q # <<>> => 1 \in 1 .. Len(q)
  BY TailFacts
<1> QED BY <1>1, <1>2, AppendFacts

LEMMA OrderGrows ==
  ASSUME NEW q \in Seq(Items), NEW x \in Items, NEW y \in Items,
         InOrder(Append(q, x)), Follows(x, y)
  PROVE  InOrder(Append(Append(q, x), y))
<1> DEFINE a == Append(q, x)
           b == Append(a, y)
<1>1. a \in Seq(Items) /\ Len(a) = Len(q) + 1 /\ a[Len(a)] = x /\ Len(q) \in Nat
  BY AppendFacts
<1>2. /\ Len(b) = Len(a) + 1 /\ b[Len(a) + 1] = y /\ Len(a) \in Nat
      /\ \A p \in 1 .. Len(a) : b[p] = a[p]
  BY <1>1, AppendFacts
<1> HIDE DEF a, b
<1>3. ASSUME NEW p \in 1 .. Len(b), p + 1 \in 1 .. Len(b) PROVE Follows(b[p], b[p + 1])
  <2>1. CASE p = Len(a)
    <3>1. p \in 1 .. Len(a)
      BY <1>1, <2>1
    <3> QED BY <1>1, <1>2, <2>1, <3>1
  <2>2. CASE p # Len(a)
    <3>1. p \in 1 .. Len(a) /\ p + 1 \in 1 .. Len(a)
      BY <1>2, <1>3, <2>2
    <3>2. b[p] = a[p] /\ b[p + 1] = a[p + 1]
      BY <1>2, <3>1
    <3> QED BY <3>1, <3>2 DEF InOrder, a
  <2> QED BY <2>1, <2>2
<1> QED BY <1>3 DEF InOrder, a, b

LEMMA OrderSwap ==
  ASSUME NEW q \in Seq(Items), NEW x \in Items, NEW y \in Items, InOrder(Append(q, x)),
         \A a \in Items : Follows(a, x) => Follows(a, y)
  PROVE  InOrder(Append(q, y))
<1> DEFINE a == Append(q, x)
           b == Append(q, y)
           l == Len(q) + 1
<1>1. /\ Len(a) = l /\ a[l] = x /\ Len(b) = l /\ b[l] = y /\ Len(q) \in Nat
      /\ \A p \in 1 .. Len(q) : a[p] = q[p] /\ b[p] = q[p] /\ q[p] \in Items
  BY AppendFacts
<1> HIDE DEF a, b
<1>2. ASSUME NEW p \in 1 .. Len(b), p + 1 \in 1 .. Len(b) PROVE Follows(b[p], b[p + 1])
  <2>1. p \in 1 .. Len(q) /\ p \in 1 .. Len(a) /\ p + 1 \in 1 .. Len(a)
    BY <1>1, <1>2
  <2>2. Follows(a[p], a[p + 1]) /\ a[p] = q[p] /\ b[p] = q[p] /\ q[p] \in Items
    BY <1>1, <2>1 DEF InOrder, a
  <2>3. CASE p = Len(q)
    BY <1>1, <2>2, <2>3
  <2>4. CASE p # Len(q)
    <3>1. p + 1 \in 1 .. Len(q)
      BY <1>1, <2>1, <2>4
    <3> QED BY <1>1, <2>2, <3>1
  <2> QED BY <2>3, <2>4
<1> QED BY <1>2 DEF InOrder, b

LEMMA OrderTail ==
  ASSUME NEW q \in Seq(Items), NEW x \in Items, q # <<>>, InOrder(Append(q, x))
  PROVE  /\ InOrder(Append(Tail(q), x))
         /\ Follows(q[1], Append(Tail(q), x)[1])
<1> DEFINE a == Append(q, x)
           t == Tail(q)
           b == Append(t, x)
<1>1. /\ Len(q) \in Nat /\ Len(q) >= 1 /\ t \in Seq(Items) /\ Len(t) = Len(q) - 1
      /\ \A p \in 1 .. Len(t) : t[p] = q[p + 1] /\ p + 1 \in 1 .. Len(q)
  BY TailFacts
<1>2. /\ Len(a) = Len(q) + 1 /\ a[Len(q) + 1] = x
      /\ \A p \in 1 .. Len(q) : a[p] = q[p]
  BY AppendFacts
<1> HIDE DEF t
<1>3. /\ Len(b) = Len(t) + 1 /\ b[Len(t) + 1] = x
      /\ \A p \in 1 .. Len(t) : b[p] = t[p]
      /\ \A p \in 1 .. Len(b) : p \in 1 .. Len(t) \/ p = Len(t) + 1
  BY <1>1, AppendFacts
<1> HIDE DEF a, b
<1>4. ASSUME NEW p \in 1 .. Len(b) PROVE b[p] = a[p + 1] /\ p + 1 \in 1 .. Len(a)
  <2>1. CASE p \in 1 .. Len(t)
    BY <1>1, <1>2, <1>3, <2>1
  <2>2. CASE p = Len(t) + 1
    <3>1. p + 1 = Len(q) + 1
      BY <1>1, <2>2
    <3> QED BY <1>1, <1>2, <1>3, <2>2, <3>1
  <2> QED BY <1>3, <2>1, <2>2
<1>5. ASSUME NEW p \in 1 .. Len(b), p + 1 \in 1 .. Len(b) PROVE Follows(b[p], b[p + 1])
  <2>1. b[p] = a[p + 1] /\ b[p + 1] = a[(p + 1) + 1]
    BY <1>4, <1>5
  <2>2. p + 1 \in 1 .. Len(a) /\ (p + 1) + 1 \in 1 .. Len(a)
    BY <1>4, <1>5
  <2> QED BY <2>1, <2>2 DEF InOrder, a
<1>6. Follows(q[1], b[1])
  <2>1. 1 \in 1 .. Len(b) /\ 1 \in 1 .. Len(a) /\ 1 + 1 \in 1 .. Len(a) /\ 1 \in 1 .. Len(q)
    BY <1>1, <1>2, <1>3
  <2>2. b[1] = a[1 + 1] /\ a[1] = q[1]
    BY <1>2, <1>4, <2>1
  <2> QED BY <2>1, <2>2 DEF InOrder, a
<1> QED BY <1>5, <1>6 DEF InOrder, b, t

-----------------------------------------------------------------------------
(* How the line towards a guest changes.                                   *)

(* Nobody but the host moves NextWrite.                                    *)
LEMMA NextKept ==
  ASSUME TypeInv, HostInv, NEW c \in Guests, Step(c)
  PROVE  NextWrite' = NextWrite
<1> USE Params
<1>1. Same(Host)
  BY OthersSame DEF TypeInv, Guests
<1>2. pos' = pos
  <2>1. CASE RunTick(c)
    BY <2>1 DEF RunTick, StartPush, KeepWaiting, Guests
  <2>2. CASE PushWrite(c) \/ PushEnd(c)
    BY <2>2 DEF PushWrite, PushEnd, HostInv, Guests
  <2>3. CASE Recv(c)
    BY <2>3 DEF Recv, OnInput, OnCrc, OnReq, OnBegin, OnChunk, OnEnd, rsv
  <2>4. CASE EnterPass(c) \/ Park(c) \/ Capture(c) \/ GiveUp(c) \/ Stray(c)
    BY <2>4 DEF EnterPass, Park, Capture, GiveUp, Stray, rsv
  <2> QED BY <2>1, <2>2, <2>3, <2>4 DEF Step
<1> QED BY <1>1, <1>2 DEF NextWrite, Same

(* The host's queues: who is there gets what it sends.                     *)
LEMMA HostSends ==
  ASSUME TypeInv, HostInv, NEW c \in Guests, ~dropped[c], NEW f \in Frames, down' = Sent(Host, f)
  PROVE  down'[c] = Append(down[c], f)
<1>1. Host \in Seats /\ c \in Seats /\ c # Host /\ pc[c] # "parked"
  BY Params DEF HostInv, Guests
<1> QED BY <1>1, SentFacts DEF TypeInv

(* A step of the host leaves the line towards a guest as it is, adds to it *)
(* the next write of the push, or, between pushes, something else or the   *)
(* prospect of a BEGIN.                                                    *)
LineKept(c)  == down'[c] = down[c] /\ NextWrite' = NextWrite
LineWritten(c) ==
  /\ down'[c] = Append(down[c], NextWrite) /\ NextWrite \in Frames
  /\ Follows(NextWrite, NextWrite')
LinePlain(c) ==
  /\ NextWrite = None /\ NextWrite'.type \notin {"CHUNK", "END"}
  /\ \/ down'[c] = down[c]
     \/ \E f \in Frames : Plain(f) /\ down'[c] = Append(down[c], f)

LEMMA HostLine ==
  ASSUME TypeInv, HostInv, Step(Host), cut' = {}, NEW c \in Guests, ~dropped[c]
  PROVE  LineKept(c) \/ LineWritten(c) \/ LinePlain(c)
<1> USE Params
<1>0. Typed /\ c \in Seats /\ c # Host /\ Host \in Seats /\ pc \in [Seats -> Phases]
  BY DEF TypeInv, Typed, Guests
<1>1. CASE EnterPass(Host) \/ Park(Host) \/ GiveUp(Host) \/ Stray(Host)
  <2>1. pc[Host] # "push" /\ pc'[Host] # "push"
    BY <1>0, <1>1 DEF EnterPass, Park, GiveUp, Stray, AtGate
  <2>2. down'[c] = down[c]
    BY <1>0, <1>1 DEF EnterPass, Park, GiveUp, Stray, Typed
  <2> QED BY <2>1, <2>2 DEF LineKept, NextWrite
<1>2. CASE Recv(Host)
  <2>1. pc[Host] # "push" /\ pc'[Host] # "push" /\ down'[c] = down[c]
    BY <1>0, <1>2, RecvFacts, NoPumpInPush
  <2> QED BY <2>1 DEF LineKept, NextWrite
<1>3. CASE Capture(Host)
  <2> DEFINE f == Input(Host, tick[Host] + D, epoch[Host])
  <2>1. tick[Host] + D \in Nat /\ epoch[Host] \in Nat
    BY <1>0, Typings
  <2>2. f \in Frames /\ Plain(f)
    BY <2>1, MadeFrames DEF Plain, Input
  <2>3. (down' = Sent(Host, f) \/ down' = down) /\ pc[Host] # "push" /\ pc'[Host] # "push"
    BY <1>0, <1>3 DEF Capture
  <2>4. NextWrite = None /\ NextWrite' = None
    BY <2>3 DEF NextWrite
  <2> HIDE DEF f
  <2>5. down'[c] = down[c] \/ down'[c] = Append(down[c], f)
    BY <2>2, <2>3, HostSends
  <2> QED BY <2>2, <2>4, <2>5 DEF LinePlain, None
<1>4. CASE RunTick(Host)
  <2> PICK f \in Frames : f.type = "CRC" /\ (down' = Sent(Host, f) \/ down' = down)
    BY <1>0, <1>4, TickSends
  <2>1. f \in Frames /\ Plain(f)
    BY DEF Plain
  <2>2. down' = Sent(Host, f) \/ down' = down
    OBVIOUS
  <2>3. NextWrite = None
    BY <1>4 DEF RunTick, AtGate, NextWrite
  <2>4. NextWrite'.type \notin {"CHUNK", "END"}
    <3>1. CASE StartPush(Host)
      BY <1>0, <3>1 DEF StartPush, NextWrite, Begin
    <3>2. ASSUME NEW r, KeepWaiting(Host, r) PROVE pc'[Host] = "entry"
      BY <1>0, <3>2 DEF KeepWaiting
    <3> QED BY <1>4, <3>1, <3>2 DEF RunTick, NextWrite, None
  <2>5. down'[c] = down[c] \/ down'[c] = Append(down[c], f)
    BY <2>1, <2>2, HostSends
  <2> QED BY <2>1, <2>3, <2>4, <2>5 DEF LinePlain
<1>5. CASE PushWrite(Host)
  <2>1. /\ pc[Host] = "push" /\ pc'[Host] = "push" /\ pos <= K /\ pos' = pos + 1
        /\ resume' = resume /\ down' = Sent(Host, NextWrite)
    BY <1>5 DEF PushWrite, Written, NextWrite
  <2>2. pos \in 0 .. K + 1 /\ resume[Host] \in Resumes /\ resume[Host].push \in Nat
    BY DEF TypeInv, Typed, Counted, Resumes
  <2>3. NextWrite \in Frames
    <3>1. pos # 0 => pos \in Chunks
      BY <2>1, <2>2 DEF Chunks
    <3> QED BY <2>1, <2>2, <3>1, MadeFrames DEF NextWrite
  <2>4. Follows(NextWrite, NextWrite')
    <3>1. CASE pos = 0
      <4>1. NextWrite = Begin(resume[Host]) /\ NextWrite' = Chunk(1, resume[Host].push)
        BY <2>1, <3>1 DEF NextWrite
      <4> QED BY <4>1 DEF Follows, Begin, Chunk
    <3>2. CASE pos # 0 /\ pos < K
      <4>1. NextWrite = Chunk(pos, resume[Host].push) /\ NextWrite' = Chunk(pos + 1, resume[Host].push)
        BY <2>1, <2>2, <3>2 DEF NextWrite
      <4> QED BY <2>2, <3>2, <4>1 DEF Follows, Chunk
    <3>3. CASE pos = K
      <4>1. NextWrite = Chunk(pos, resume[Host].push) /\ NextWrite' = End
        BY <2>1, <2>2, <3>3 DEF NextWrite
      <4> QED BY <3>3, <4>1 DEF Follows, Chunk, End
    <3> QED BY <2>1, <2>2, <3>1, <3>2, <3>3
  <2>5. down'[c] = Append(down[c], NextWrite)
    BY <2>1, <2>3, HostSends
  <2> QED BY <2>3, <2>4, <2>5 DEF LineWritten
<1>6. CASE PushEnd(Host)
  <2>1. NextWrite = End /\ down' = Sent(Host, End)
    BY <1>6 DEF PushEnd, Written, NextWrite
  <2>2. NextWrite' = None
    BY <1>0, <1>6 DEF PushEnd, NextWrite
  <2>3. End \in Frames /\ Follows(End, None)
    BY MadeFrames DEF Follows, End, None
  <2>4. down'[c] = Append(down[c], End)
    BY <2>1, <2>3, HostSends
  <2> QED BY <2>1, <2>2, <2>3, <2>4 DEF LineWritten
<1> QED BY <1>1, <1>2, <1>3, <1>4, <1>5, <1>6 DEF Step

LEMMA AppliedKept ==
  ASSUME NEW c \in Guests, Same(c), NEW h \in Items, Applied(c, h), NEW k \in Items,
         k = h \/ (h.type \notin {"CHUNK", "END"} /\ k.type \notin {"CHUNK", "END"})
  PROVE  Applied(c, k)'
<1>1. CASE k = h
  BY <1>1 DEF Applied, Same, Midway, AtGate, Torn, Right
<1>2. CASE h.type \notin {"CHUNK", "END"} /\ k.type \notin {"CHUNK", "END"}
  BY <1>2 DEF Applied, Same, Midway, Torn, Right
<1> QED BY <1>1, <1>2

LEMMA PushHost ==
  ASSUME TypeInv, TypeInv', HostInv, Step(Host), cut' = {}, NEW c \in Guests, ~dropped[c],
         InOrder(Line(c)), Applied(c, Line(c)[1])
  PROVE  InOrder(Line(c))' /\ Applied(c, Line(c)[1])'
<1> DEFINE q == down[c]
           x == NextWrite
           y == NextWrite'
<1>1. /\ Typed /\ c \in Seats /\ c # Host /\ Host \in Seats
      /\ q \in Seq(Items) /\ x \in Items /\ Line(c) = Append(q, x) /\ Line(c)[1] \in Items
  BY Params, LineTyped DEF Guests, TypeInv, Line
<1>2. y \in Items /\ Line(c)' = Append(down'[c], y)
  BY <1>1, LineTypedNext DEF Line, LinesTyped
<1>3. Same(c)
  BY <1>1, OthersSame
<1> HIDE DEF x, y
<1>4. CASE LineKept(c)
  <2>1. Line(c)' = Line(c)
    BY <1>1, <1>2, <1>4 DEF LineKept, x, y
  <2>2. Applied(c, Line(c)[1])'
    BY <1>1, <1>3, <2>1, AppliedKept
  <2> QED BY <2>1, <2>2
<1>5. CASE LineWritten(c)
  <2>1. Line(c)' = Append(Append(q, x), y) /\ Follows(x, y)
    BY <1>2, <1>5 DEF LineWritten, x, y
  <2>2. InOrder(Line(c))'
    BY <1>1, <1>2, <2>1, OrderGrows
  <2>3. Append(q, x) \in Seq(Items) /\ Append(q, x) # <<>>
    BY <1>1, LineTyped
  <2>4. Line(c)'[1] = Line(c)[1]
    BY <1>1, <1>2, <2>1, <2>3, HeadOfLine
  <2>5. Applied(c, Line(c)[1])'
    BY <1>1, <1>3, <2>4, AppliedKept
  <2> QED BY <2>2, <2>5
<1>6. CASE LinePlain(c)
  <2>1. x = None /\ y.type \notin {"CHUNK", "END"}
    BY <1>6 DEF LinePlain, x, y
  <2>2. \A a, b \in Items : b.type \notin {"CHUNK", "END"} => (Follows(a, None) => Follows(a, b))
    BY DEF Follows, None
  <2>3. CASE down'[c] = q
    <3>1. InOrder(Append(q, y))
      BY <1>1, <1>2, <2>1, <2>2, OrderSwap
    <3>2. Append(q, y)[1] = Append(q, x)[1] \/ (Append(q, y)[1] = y /\ Append(q, x)[1] = x)
      BY <1>1, <1>2, HeadOfLine
    <3>3. Line(c)'[1] = Line(c)[1] \/ (Line(c)'[1] = y /\ Line(c)[1] = None)
      BY <1>1, <1>2, <2>1, <2>3, <3>2
    <3>4. Applied(c, Line(c)[1])'
      BY <1>1, <1>2, <1>3, <2>1, <3>3, AppliedKept DEF None
    <3> QED BY <1>2, <2>3, <3>1, <3>4
  <2>4. ASSUME NEW f \in Frames, Plain(f), down'[c] = Append(q, f)
        PROVE  InOrder(Line(c))' /\ Applied(c, Line(c)[1])'
    <3>1. f \in Items /\ f.type \notin {"CHUNK", "END"} /\ Follows(f, y)
      BY <2>1, <2>4 DEF Items, Plain, Follows
    <3>2. InOrder(Append(q, f))
      BY <1>1, <2>1, <2>2, <3>1, OrderSwap
    <3>3. InOrder(Append(Append(q, f), y))
      BY <1>1, <1>2, <3>1, <3>2, OrderGrows
    <3>4. Append(q, f) \in Seq(Items) /\ Append(q, f) # <<>>
      BY <1>1, <3>1, AppendFacts
    <3>5. Append(Append(q, f), y)[1] = Append(q, f)[1]
      BY <1>2, <3>4, HeadOfLine
    <3>6. Append(q, f)[1] = Append(q, x)[1] \/ (Append(q, f)[1] = f /\ Append(q, x)[1] = x)
      BY <1>1, <3>1, HeadOfLine
    <3>7. Line(c)'[1] = Line(c)[1] \/ (Line(c)'[1] = f /\ Line(c)[1] = None)
      BY <1>1, <1>2, <2>1, <2>4, <3>5, <3>6
    <3>8. Applied(c, Line(c)[1])'
      BY <1>1, <1>3, <3>1, <3>7, AppliedKept DEF None
    <3> QED BY <1>2, <2>4, <3>3, <3>8
  <2> QED BY <1>6, <2>3, <2>4 DEF LinePlain
<1> QED BY <1>4, <1>5, <1>6, HostLine

(* What a guest reads: the head of its line goes, and what the head did.   *)
LEMMA PushRead ==
  ASSUME TypeInv, TypeInv', HostInv, TwoSeats, K > 1, NEW c \in Guests, Recv(c), ~dropped[c],
         InOrder(Line(c)), Applied(c, Line(c)[1])
  PROVE  InOrder(Line(c))' /\ Applied(c, Line(c)[1])'
<1> USE Params
<1> DEFINE f == Head(down[c])
           k == Line(c)'[1]
<1>0. Typed /\ c \in Seats /\ c # Host /\ Seats \ {c} = {Host} /\ f \in Items
  BY RecvFacts DEF TypeInv, Guests, TwoSeats, Items
<1>1. /\ down[c] # <<>> /\ f \in Frames /\ f = down[c][1] /\ Pumping(c) /\ OwnPump(c, f)
      /\ pc'[c] = (IF AtGate(c) THEN "pump" ELSE pc[c]) /\ down'[c] = Tail(down[c])
      /\ OnInput(c, f) \/ OnCrc(c, f) \/ OnReq(c, f) \/ OnBegin(c, f) \/ OnChunk(c, f) \/ OnEnd(c, f)
  BY <1>0, RecvFacts
<1>2. NextWrite' = NextWrite
  BY <1>0, NextKept DEF Step
<1>3. down[c] \in Seq(Items) /\ NextWrite \in Items /\ k \in Items
  BY <1>0, LineTyped, LineTypedNext DEF LinesTyped
<1>4. Line(c)[1] = f
  BY <1>1, <1>3, HeadOfLine DEF Line
<1>5. Line(c)' = Append(Tail(down[c]), NextWrite)
  BY <1>1, <1>2 DEF Line
<1>6. InOrder(Line(c))' /\ Follows(f, k)
  BY <1>1, <1>3, <1>5, OrderTail DEF Line
<1>7. Applied(c, f)
  BY <1>4
<1> HIDE DEF f, k
<1>8. pc'[c] # "top" <=> pc[c] # "top"
  BY <1>1 DEF AtGate
<1>9. AtGate(c)' => AtGate(c)
  BY <1>1 DEF AtGate
<1>10. CASE f.type \in {"INPUT", "CRC", "RESYNC_REQ"}
  <2>1. /\ hold'[c] = hold[c] /\ game'[c] = game[c] /\ epoch'[c] = epoch[c]
    BY <1>1, <1>10 DEF OnInput, OnCrc, OnReq, OnBegin, OnChunk, OnEnd, rsv, sim
  <2>2. k.type \notin {"CHUNK", "END"}
    BY <1>6, <1>10 DEF Follows
  <2> QED BY <1>6, <1>7, <1>10, <2>1, <2>2 DEF Applied, Midway, Torn, Right, k
<1>11. CASE f.type = "BEGIN"
  <2>1. OnBegin(c, f)
    BY <1>1, <1>11 DEF OnInput, OnCrc, OnReq, OnChunk, OnEnd
  <2>2. /\ hold'[c] = TRUE /\ resume'[c] = f.resume /\ game'[c] = game[c] /\ epoch'[c] = epoch[c]
    BY <1>0, <2>1 DEF OnBegin, EnterHold, sim, Typed
  <2>3. k.type = "CHUNK" /\ k.i = 1 /\ f.resume.push = k.push
    BY <1>3, <1>6, <1>11, ItemFacts DEF Follows
  <2>4. \A j \in Chunks : ~(j < k.i)
    BY <2>3 DEF Chunks
  <2>5. ~Midway(k) /\ ~Torn(c)'
    BY <1>7, <1>11, <2>2, <2>3 DEF Midway, Applied, Torn
  <2> QED BY <1>6, <2>2, <2>3, <2>4, <2>5 DEF Applied, k
<1>12. CASE f.type = "CHUNK"
  <2>1. OnChunk(c, f) /\ hold[c] /\ resume[c].push = f.push
        /\ \A j \in Chunks : j < f.i => game[c][j] = Pushed(f.push)
    BY <1>1, <1>7, <1>12 DEF OnInput, OnCrc, OnReq, OnBegin, OnEnd, Applied
  <2>2. f.i \in Chunks /\ f.i \in 1 .. K /\ f.push \in Nat
    BY <1>0, <1>12, ItemFacts DEF Chunks
  <2>3. /\ hold'[c] /\ resume'[c] = resume[c] /\ wm'[c] = wm[c] /\ tick'[c] = tick[c]
        /\ game'[c] = [game[c] EXCEPT ![f.i] = Pushed(f.push)]
    BY <1>0, <2>1 DEF OnChunk, rsv, Typed
  <2>4. game[c] \in [Chunks -> Stems]
    BY <1>0 DEF Typed, States
  <2>5. \A j \in Chunks : game'[c][j] = IF j = f.i THEN Pushed(f.push) ELSE game[c][j]
    BY <2>3, <2>4
  <2>6. pc[c] # "top" /\ (AtGate(c) => wm[c][Host] < tick[c])
    <3>1. CASE f.i > 1
      BY <1>7, <1>12, <3>1 DEF Applied, Midway
    <3>2. CASE f.i = 1
      <4>1. f.i < K
        BY <3>2
      <4>2. (AtGate(c) => ~GateOpen(c)) /\ pc[c] # "top"
        BY <1>1, <1>12, <2>1, <4>1 DEF OwnPump
      <4>3. wm[c][Host] \in Int /\ tick[c] \in Nat
        BY <1>0, Typings
      <4> QED BY <1>0, <4>2, <4>3 DEF GateOpen
    <3> QED BY <2>2, <3>1, <3>2
  <2>7. pc'[c] # "top" /\ (AtGate(c)' => wm'[c][Host] < tick'[c])
    BY <1>8, <1>9, <2>3, <2>6
  <2>8. CASE k.type = "CHUNK"
    <3>1. k.i > 1 /\ f.i = k.i - 1 /\ f.push = k.push /\ k.i \in Nat
      BY <1>3, <1>6, <1>12, <2>8, ItemFacts DEF Follows
    <3>2. \A j \in Chunks : j < k.i => j < f.i \/ j = f.i
      BY <2>2, <3>1 DEF Chunks
    <3>3. \A j \in Chunks : j < k.i => game'[c][j] = Pushed(k.push)
      BY <2>1, <2>5, <3>1, <3>2
    <3> QED BY <1>6, <2>1, <2>3, <2>7, <2>8, <3>1, <3>3 DEF Applied, Midway, k
  <2>9. CASE k.type = "END"
    <3>1. f.i = K
      BY <1>6, <2>9 DEF Follows
    <3>2. \A j \in Chunks : j < f.i \/ j = f.i
      BY <2>2, <3>1 DEF Chunks
    <3>3. \A j \in Chunks : game'[c][j] = Pushed(f.push)
      BY <2>1, <2>5, <3>2
    <3>4. game'[c] = Whole(Pushed(resume'[c].push))
      BY <2>1, <2>3, <2>4, <3>3 DEF Whole
    <3> QED BY <1>6, <2>3, <2>7, <2>9, <3>4 DEF Applied, Midway, k
  <2> QED BY <1>6, <1>12, <2>8, <2>9 DEF Follows
<1>13. CASE f.type = "END"
  <2>1. OnEnd(c, f) /\ hold[c] /\ game[c] = Whole(Pushed(resume[c].push))
    BY <1>1, <1>7, <1>13 DEF OnInput, OnCrc, OnReq, OnBegin, OnChunk, Applied
  <2>2. ~hold'[c] /\ epoch'[c] = resume[c].push /\ game'[c] = game[c]
    BY <1>0, <2>1 DEF OnEnd, Rebase, Typed
  <2>3. k.type \notin {"CHUNK", "END"}
    BY <1>6, <1>13 DEF Follows
  <2>4. ~Torn(c)'
    <3>1. epoch'[c] \in Nat
      BY <1>0, <2>2 DEF Typed, Resumes
    <3>2. \A i \in Chunks : game'[c][i][2] = epoch'[c]
      BY <2>1, <2>2 DEF Whole, Pushed
    <3> QED BY <3>1, <3>2 DEF Torn
  <2> QED BY <1>6, <2>1, <2>2, <2>3, <2>4 DEF Applied, Midway, Right, k
<1> QED BY <1>1, <1>10, <1>11, <1>12, <1>13, FrameFacts

(* A tick of the guest is run outside a push, or before its first chunk:   *)
(* the frames that would open the gate come behind the END.                *)
LEMMA TickNotTorn ==
  ASSUME Typed, TwoSeats, NEW c \in Guests, NEW h, Applied(c, h), RunTick(c), ~dropped[c]
  PROVE  ~Midway(h) /\ ~Torn(c)
<1>1. Host \in Seats \ {c} /\ AtGate(c) /\ GateOpen(c)
  BY Params DEF Guests, RunTick
<1>2. wm[c][Host] >= tick[c] /\ wm[c][Host] \in Int /\ tick[c] \in Nat
  BY <1>1, Typings DEF GateOpen, Guests
<1>3. ~(wm[c][Host] < tick[c])
  BY <1>2
<1> QED BY <1>1, <1>3 DEF Applied

LEMMA PushGuest ==
  ASSUME TypeInv, TypeInv', HostInv, TwoSeats, NEW c \in Guests, Step(c), ~Recv(c),
         ~dropped[c], ~dropped'[c], InOrder(Line(c)), Applied(c, Line(c)[1])
  PROVE  InOrder(Line(c))' /\ Applied(c, Line(c)[1])'
<1> DEFINE h == Line(c)[1]
<1>1. Typed /\ c \in Seats /\ c # Host /\ Applied(c, h)
  BY DEF TypeInv, Guests
<1>2. NextWrite' = NextWrite
  BY NextKept
<1>3. ~Park(c) /\ ~GiveUp(c) /\ ~PushWrite(c) /\ ~PushEnd(c)
  BY <1>1 DEF Park, GiveUp, PushWrite, PushEnd, HostInv, Typed
<1>4. \A f : Sent(c, f)[c] = down[c]
  BY <1>1 DEF Sent
<1>5. down'[c] = down[c]
  BY <1>3, <1>4 DEF Step, EnterPass, Capture, RunTick, Stray
<1>6. Line(c)' = Line(c) /\ h' = h
  BY <1>2, <1>5 DEF Line
<1> SUFFICES Applied(c, h)'
  BY <1>6
<1> HIDE DEF h
<1>7. CASE EnterPass(c) \/ Capture(c)
  <2>1. /\ game'[c] = game[c] /\ epoch'[c] = epoch[c] /\ hold'[c] = hold[c]
        /\ resume'[c] = resume[c]
    BY <1>7 DEF EnterPass, Capture, rsv, sim
  <2>2. ~Midway(h)
    BY <1>1, <1>7 DEF EnterPass, Capture, Applied, Midway
  <2> QED BY <1>1, <1>6, <2>1, <2>2 DEF Applied, Midway, Torn, Right
<1>8. CASE RunTick(c)
  <2>1. ~Midway(h) /\ ~Torn(c)
    BY <1>1, <1>8, TickNotTorn
  <2>2. hold'[c] = hold[c] /\ resume'[c] = resume[c] /\ epoch'[c] = epoch[c]
    BY <1>1, <1>8 DEF RunTick, StartPush, KeepWaiting
  <2>3. ~Torn(c)' /\ (epoch[c] > 0 /\ game[c] = Right(c) => game'[c] = Right(c))
    BY <1>1, <1>8, <2>1, TickKeeps
  <2>4. h.type # "END" /\ (h.type = "CHUNK" => ~(h.i > 1) /\ h.i \in Chunks)
    BY <1>1, <2>1, LineTyped, ItemFacts DEF Midway, h
  <2>5. h.type = "CHUNK" => \A j \in Chunks : ~(j < h.i)
    BY <2>4 DEF Chunks
  <2> QED BY <1>1, <1>6, <2>1, <2>2, <2>3, <2>4, <2>5 DEF Applied, Right
<1>9. CASE Stray(c)
  <2>1. ~hold[c] /\ epoch[c] = 0 /\ UNCHANGED <<hold, epoch>>
    BY <1>1, <1>9 DEF Stray, Fault, rsv
  <2>2. ~Torn(c)'
    BY <1>1, <1>9, <2>1, StrayTears DEF Applied, Midway
  <2> QED BY <1>1, <1>6, <2>1, <2>2 DEF Applied, Midway
<1> QED BY <1>3, <1>7, <1>8, <1>9 DEF Step

LEMMA PushInit == Init => PushInv
<1> SUFFICES ASSUME Init, NEW c \in Guests PROVE InOrder(Line(c)) /\ Applied(c, Line(c)[1])
  BY DEF PushInv
<1>0. c \in Seats /\ Host \in Seats
  BY Params DEF Guests
<1>1. NextWrite = None /\ down[c] = <<>>
  BY <1>0 DEF Init, NextWrite
<1>2. Line(c) = <<None>>
  BY <1>1 DEF Line
<1>3. InOrder(Line(c)) /\ Line(c)[1] = None
  BY <1>2 DEF InOrder
<1>4. ~hold[c] /\ epoch[c] = 0 /\ game[c] = Whole(Pushed(0))
  BY <1>0 DEF Init
<1>5. ~Torn(c)
  BY <1>0, <1>4, NotTorn
<1> QED BY <1>3, <1>4, <1>5 DEF Applied, Midway, None

LEMMA DroppedStays == TypeInv /\ [Next]_vars => \A c \in Seats : dropped[c] => dropped'[c]
<1> SUFFICES ASSUME TypeInv, [Next]_vars, NEW p \in Seats, dropped[p] PROVE dropped'[p]
  OBVIOUS
<1>1. CASE UNCHANGED vars
  BY <1>1 DEF vars
<1>2. ASSUME NEW c \in Seats, GiveUp(c) PROVE dropped'[p]
  BY <1>2 DEF GiveUp, TypeInv, Typed
<1>3. ASSUME NEW c \in Seats, Step(c), ~GiveUp(c) PROVE dropped' = dropped
  BY <1>3 DEF Step, EnterPass, Park, Recv, Capture, RunTick, PushWrite, PushEnd, Stray
<1> QED BY <1>1, <1>2, <1>3 DEF Next, Step

LEMMA PushStep ==
  TwoSeats /\ K > 1 /\ TypeInv /\ TypeInv' /\ CutInv /\ HostInv /\ PushInv /\ [Next]_vars => PushInv'
<1> SUFFICES ASSUME TwoSeats, K > 1, TypeInv, TypeInv', CutInv, HostInv, PushInv, [Next]_vars,
                    cut' = {}, NEW c \in Guests, ~dropped'[c]
             PROVE  InOrder(Line(c))' /\ Applied(c, Line(c)[1])'
  BY DEF PushInv
<1>1. ~dropped[c] /\ InOrder(Line(c)) /\ Applied(c, Line(c)[1])
  BY DroppedStays, CutStep DEF PushInv, Guests
<1>2. CASE UNCHANGED vars
  BY <1>1, <1>2 DEF vars, rsv, sim, Line, NextWrite, Applied, AtGate, Torn, Right
<1>3. ASSUME NEW p \in Seats, Step(p) PROVE InOrder(Line(c))' /\ Applied(c, Line(c)[1])'
  <2>1. p = Host \/ p = c
    BY DEF TwoSeats, Guests
  <2> QED BY <1>1, <1>3, <2>1, PushHost, PushRead, PushGuest
<1> QED BY <1>2, <1>3 DEF Next, Step

-----------------------------------------------------------------------------
(* In a room of two, with an image of more than one chunk, a console out   *)
(* of its hold has exactly the state the host pushed ("both sides resume   *)
(* from identical state", netcode/resync.asm:20), as long as no write of a *)
(* push fails.                                                             *)
THEOREM BothSidesIdentical == ASSUME TwoSeats, K > 1 PROVE Spec => [](cut = {} => Repaired)
<1>1. HostInv /\ PushInv => (cut = {} => Repaired)
  BY Params DEF HostInv, PushInv, Applied, Repaired, Guests
<1>2. TypeInv /\ TypeInv' /\ CutInv /\ HostInv /\ PushInv /\ [Next]_vars => PushInv'
  BY PushStep
<1>3. Spec => []PushInv
  BY <1>2, TypeAlways, CutAlways, HostAlways, PushInit, PTL DEF Spec
<1> QED BY <1>1, <1>3, HostAlways, PTL

(* In a room of two no tick runs on a game state that is partly the pushed *)
(* image and partly the guest's own ("The sim is frozen during HOLD",      *)
(* netcode/resync.asm:18).                                                 *)
THEOREM FrozenInHold == ASSUME TwoSeats, K > 1 PROVE Spec => NoTornTick
<1>1. TypeInv /\ HostInv /\ PushInv /\ [Next]_vars =>
        [\A c \in Seats : RunTick(c) /\ ~dropped[c] /\ cut = {} => ~Torn(c)]_vars
  BY TickNotTorn DEF TypeInv, HostInv, PushInv, Guests
<1>2. TypeInv /\ TypeInv' /\ CutInv /\ HostInv /\ PushInv /\ [Next]_vars => PushInv'
  BY PushStep
<1>3. Spec => []PushInv
  BY <1>2, TypeAlways, CutAlways, HostAlways, PushInit, PTL DEF Spec
<1> QED BY <1>1, <1>3, TypeAlways, HostAlways, PTL DEF Spec, NoTornTick
=============================================================================
