--------------------------- MODULE LockstepSafety ---------------------------
(***************************************************************************)
(* The replay of a match is right at every delay that fits: Lockstep keeps *)
(* its inductive invariant IInv, and with it InputAgreement and            *)
(* BoundedSkew, however many INPUT writes fail.                            *)
(*                                                                         *)
(* The invariant follows a frame from its capture to its slot: the order   *)
(* of the ticks in the queues (UpInv, DownInv), the watermark they go on    *)
(* from (WmInv), the page behind the watermark (RingInv), and the skew     *)
(* that keeps the page from lapping itself (SkewInv).  On it rests, at the *)
(* end, that Lockstep implements SharedTimeline as long as no INPUT is      *)
(* lost.  The types come first: they hold for every number of seats, every *)
(* delay and every width of the byte.                                      *)
(***************************************************************************)
EXTENDS Lockstep, TLAPS

(* What most steps need of the constants.                                  *)
LEMMA Widths == BYTE \in Nat /\ BYTE >= 4 /\ D \in Nat
BY ByteAssumption, DelayAssumption

-----------------------------------------------------------------------------
(* Arithmetic of the ring index and of the 16-bit comparisons.             *)

(* The comparisons have room for twice the ring.                           *)
LEMMA WordRoom ==
  /\ WORD \in Nat /\ WORD >= 4 * BYTE
  /\ WORD \div 2 \in Nat /\ WORD \div 2 >= 2 * BYTE /\ WORD >= 2 * (WORD \div 2)
<1>1. BYTE * BYTE \in Nat /\ BYTE * BYTE >= 4 * BYTE
  BY Widths
<1>2. ASSUME NEW w \in Nat, w >= 4 * BYTE
      PROVE  w \div 2 \in Nat /\ w \div 2 >= 2 * BYTE /\ w >= 2 * (w \div 2)
  BY <1>2, Widths
<1> QED BY <1>1, <1>2, Widths DEF WORD

LEMMA SlotRange == ASSUME NEW t \in Int PROVE Slot(t) \in 0 .. BYTE - 1
BY Widths DEF Slot

(* Two ticks less than a page apart never share a slot.                    *)
LEMMA SlotDistinct ==
  ASSUME NEW a \in Int, NEW b \in Int, a < b, b < a + BYTE
  PROVE  Slot(a) # Slot(b)
<1> DEFINE m == a \div BYTE
           n == b \div BYTE
<1>1. m \in Int /\ a = BYTE * m + Slot(a)
  BY Widths DEF Slot
<1>2. n \in Int /\ b = BYTE * n + Slot(b)
  BY Widths DEF Slot
<1> HIDE DEF m, n
<1>3. SUFFICES ASSUME Slot(a) = Slot(b) PROVE FALSE
  OBVIOUS
<1>4. Slot(a) \in Int /\ Slot(b) \in Int
  BY SlotRange, Widths
<1>5. ASSUME NEW x \in Int, x >= 1
      PROVE  BYTE * x >= BYTE
  BY <1>5, Widths
<1>6. ASSUME NEW x \in Int, x <= 0
      PROVE  BYTE * x <= 0
  BY <1>6, Widths
<1>7. /\ n - m \in Int /\ b - a = BYTE * n - BYTE * m
      /\ BYTE * (n - m) = BYTE * n - BYTE * m
      /\ BYTE * n \in Int /\ BYTE * m \in Int
  BY <1>1, <1>2, <1>3, <1>4, Widths
<1>8. n - m >= 1 \/ n - m <= 0
  BY <1>7
<1>9. CASE n - m >= 1
  <2>1. BYTE * (n - m) >= BYTE
    BY <1>5, <1>7, <1>9
  <2> QED BY <2>1, <1>7, Widths
<1>10. CASE n - m <= 0
  <2>1. BYTE * (n - m) <= 0
    BY <1>6, <1>7, <1>10
  <2> QED BY <2>1, <1>7, Widths
<1> QED BY <1>8, <1>9, <1>10

(* A watermark one short of the tick keeps the gate shut.                  *)
LEMMA OneShortIsBehind == ASSUME NEW t \in Int PROVE Behind(t - 1, t)
<1>1. WORD \in Nat /\ WORD >= 16 /\ WORD >= 2 * (WORD \div 2) /\ WORD \div 2 \in Nat
  BY WordRoom, Widths
<1>2. (-1) % WORD = WORD - 1
  BY <1>1
<1>3. (t - 1) - t = -1
  OBVIOUS
<1>4. WORD - 1 >= WORD \div 2
  BY <1>1
<1> QED BY <1>2, <1>3, <1>4 DEF Behind

(* The tick after a watermark is newer than it.                            *)
LEMMA NextIsNewer == ASSUME NEW w \in Int PROVE Newer(w + 1, w)
<1>1. WORD \in Nat /\ WORD >= 16 /\ WORD \div 2 >= 8 /\ WORD \div 2 \in Nat
  BY WordRoom, Widths
<1>2. 1 % WORD = 1
  BY <1>1
<1> QED BY <1>1, <1>2 DEF Newer

-----------------------------------------------------------------------------
(* Type correctness.                                                       *)

LEMMA FrameTypes ==
  ASSUME NEW s \in Seats, NEW t \in Nat
  PROVE  InputFrame(s, t) \in Frame /\ LeftFrame(s) \in Frame
BY DEF InputFrame, LeftFrame, Frame

LEMMA TypeInit == Init => TypeOK
<1> SUFFICES ASSUME Init PROVE TypeOK
  OBVIOUS
<1>1. (D - 1) % BYTE \in Nat
  BY Widths
<1>2. ring \in [Seats -> [Seats -> [0 .. BYTE - 1 -> Int]]]
  BY DEF Init, IdleRings, Idle
<1>3. wm \in [Seats -> [Seats -> Nat]]
  BY <1>1 DEF Init
<1> QED BY <1>2, <1>3 DEF Init, TypeOK, Idle

(* Giving the match up keeps the types.                                    *)
LEMMA TypeGoIdle ==
  ASSUME TypeOK, NEW c \in Seats, GoIdle(c)
  PROVE  /\ wm' \in [Seats -> [Seats -> Nat]]
         /\ ring' \in [Seats -> [Seats -> [0 .. BYTE - 1 -> Int]]]
         /\ dropped' \in [Seats -> BOOLEAN]
<1>1. WORD \div 4 \in Nat
  BY WordRoom
<1>2. tick[c] \in Nat
  BY DEF TypeOK
<1>4. tick[c] + WORD \div 4 \in Nat
  BY <1>1, <1>2
<1>3. IdleRings \in [Seats -> [0 .. BYTE - 1 -> Int]]
  BY DEF IdleRings, Idle
<1> QED BY <1>3, <1>4 DEF GoIdle, TypeOK

LEMMA TypeRecv ==
  ASSUME TypeOK, NEW c \in Seats, Recv(c)
  PROVE  TypeOK'
<1> DEFINE f == Head(down[c])
<1>0. /\ ring \in [Seats -> [Seats -> [0 .. BYTE - 1 -> Int]]]
      /\ wm \in [Seats -> [Seats -> Nat]]
      /\ down \in [Seats -> Seq(Frame)]
      /\ pc \in [Seats -> {"entry", "top", "gate", "pump", "parked"}]
  BY DEF TypeOK
<1>1. /\ down[c] \in Seq(Frame) /\ down[c] # <<>>
      /\ f \in Frame /\ Tail(down[c]) \in Seq(Frame)
  BY <1>0 DEF Recv
<1>2. /\ pc' \in [Seats -> {"entry", "top", "gate", "pump", "parked"}]
      /\ down' \in [Seats -> Seq(Frame)]
      /\ UNCHANGED <<tick, used, up, room, lost>>
  BY <1>0, <1>1 DEF Recv
<1>3. CASE OnInput(c, f)
  <2>1. f.seat \in Seats /\ f.tick \in Nat
    BY <1>1, <1>3 DEF OnInput, Frame
  <2>2. Slot(f.tick) \in 0 .. BYTE - 1
    BY <2>1, SlotRange
  <2>3. ring' \in [Seats -> [Seats -> [0 .. BYTE - 1 -> Int]]]
    <3>1. [ring[c][f.seat] EXCEPT ![Slot(f.tick)] = f.tick] \in [0 .. BYTE - 1 -> Int]
      <4>1. ring[c][f.seat] \in [0 .. BYTE - 1 -> Int] /\ f.tick \in Int
        BY <1>0, <2>1
      <4> HIDE DEF f
      <4> QED BY <2>2, <4>1
    <3>2. CASE UNCHANGED ring
      BY <1>0, <3>2
    <3>3. CASE ring' = [ring EXCEPT ![c][f.seat][Slot(f.tick)] = f.tick]
      BY <1>0, <2>1, <3>1, <3>3
    <3> QED BY <1>3, <3>2, <3>3 DEF OnInput
  <2>4. wm' \in [Seats -> [Seats -> Nat]]
    <3>1. CASE UNCHANGED wm
      BY <1>0, <3>1
    <3>2. CASE wm' = [wm EXCEPT ![c][f.seat] = f.tick]
      BY <1>0, <2>1, <3>2
    <3> QED BY <1>3, <3>1, <3>2 DEF OnInput
  <2>5. dropped' = dropped
    BY <1>3 DEF OnInput
  <2> QED BY <1>2, <2>3, <2>4, <2>5 DEF TypeOK
<1>4. CASE OnLeft(c, f)
  BY <1>2, <1>4, TypeGoIdle DEF OnLeft, TypeOK
<1> QED BY <1>3, <1>4 DEF Recv

LEMMA TypeCapture ==
  ASSUME TypeOK, NEW c \in Seats, Capture(c) \/ CaptureLost(c)
  PROVE  TypeOK'
<1> DEFINE t == tick[c] + D
<1>0. /\ ring \in [Seats -> [Seats -> [0 .. BYTE - 1 -> Int]]]
      /\ tick \in [Seats -> Nat]
  BY DEF TypeOK
<1>t. tick[c] \in Nat
  BY DEF TypeOK
<1>1. t \in Nat /\ Slot(t) \in 0 .. BYTE - 1
  BY <1>t, SlotRange, Widths
<1>2. ring' \in [Seats -> [Seats -> [0 .. BYTE - 1 -> Int]]]
  <2>1. [ring[c][c] EXCEPT ![Slot(t)] = t] \in [0 .. BYTE - 1 -> Int]
    BY <1>0, <1>1
  <2>2. ring' = [ring EXCEPT ![c][c][Slot(t)] = t]
    BY DEF Capture, CaptureLost
  <2> HIDE DEF t
  <2> QED BY <1>0, <2>1, <2>2
<1>3. up' \in [Seats -> Seq(Frame)]
  <2>1. Append(up[c], InputFrame(c, t)) \in Seq(Frame)
    BY <1>1, FrameTypes DEF TypeOK
  <2> QED BY <2>1 DEF Capture, CaptureLost, TypeOK
<1>4. lost' \subseteq Seats \X Nat
  BY <1>1 DEF Capture, CaptureLost, TypeOK
<1> QED BY <1>2, <1>3, <1>4 DEF Capture, CaptureLost, TypeOK

LEMMA TypeRunTick ==
  ASSUME TypeOK, NEW c \in Seats, RunTick(c)
  PROVE  TypeOK'
<1>0. /\ ring \in [Seats -> [Seats -> [0 .. BYTE - 1 -> Int]]]
      /\ tick \in [Seats -> Nat]
      /\ used \in [Seats -> [Seats -> [now : Int, before : Int]]]
  BY DEF TypeOK
<1>t. tick[c] \in Nat
  BY DEF TypeOK
<1>1. Slot(tick[c]) \in 0 .. BYTE - 1 /\ Slot(tick[c] - 1) \in 0 .. BYTE - 1
  BY <1>t, SlotRange, Widths
<1>2. ASSUME NEW s \in Seats
      PROVE  [now |-> ring[c][s][Slot(tick[c])], before |-> ring[c][s][Slot(tick[c] - 1)]]
               \in [now : Int, before : Int]
  <2>1. ring[c][s] \in [0 .. BYTE - 1 -> Int]
    BY <1>0
  <2>2. ring[c][s][Slot(tick[c])] \in Int /\ ring[c][s][Slot(tick[c] - 1)] \in Int
    BY <1>1, <2>1
  <2> QED BY <2>2
<1>3. used' \in [Seats -> [Seats -> [now : Int, before : Int]]]
  BY <1>0, <1>2 DEF RunTick
<1>4. tick' \in [Seats -> Nat]
  BY <1>0 DEF RunTick
<1> QED BY <1>3, <1>4 DEF RunTick, TypeOK

LEMMA TypeForward ==
  ASSUME TypeOK, NEW c \in Seats, Forward(c)
  PROVE  TypeOK'
<1>1. /\ up[c] \in Seq(Frame) /\ up[c] # <<>>
      /\ Head(up[c]) \in Frame /\ Tail(up[c]) \in Seq(Frame)
  BY DEF Forward, TypeOK
<1>2. ASSUME NEW m \in Seats
      PROVE  Append(down[m], Head(up[c])) \in Seq(Frame)
  BY <1>1 DEF TypeOK
<1>3. down' \in [Seats -> Seq(Frame)]
  BY <1>2 DEF Forward, TypeOK
<1>4. up' \in [Seats -> Seq(Frame)]
  BY <1>1 DEF Forward, TypeOK
<1> QED BY <1>3, <1>4 DEF Forward, TypeOK, console

LEMMA TypeRelayDrop ==
  ASSUME TypeOK, NEW c \in Seats, RelayDrop(c)
  PROVE  TypeOK'
<1>1. LeftFrame(c) \in Frame
  BY FrameTypes
<1>2. ASSUME NEW m \in Seats
      PROVE  Append(down[m], LeftFrame(c)) \in Seq(Frame)
  BY <1>1 DEF TypeOK
<1>3. down' \in [Seats -> Seq(Frame)]
  BY <1>2 DEF RelayDrop, TypeOK
<1>4. up' \in [Seats -> Seq(Frame)]
  BY DEF RelayDrop, TypeOK
<1> QED BY <1>3, <1>4 DEF RelayDrop, TypeOK, console

LEMMA TypeNext == TypeOK /\ [Next]_vars => TypeOK'
<1> SUFFICES ASSUME TypeOK, [Next]_vars PROVE TypeOK'
  OBVIOUS
<1>1. CASE UNCHANGED vars
  BY <1>1 DEF TypeOK, vars
<1>2. ASSUME NEW c \in Seats, EnterPass(c) \/ Park(c) PROVE TypeOK'
  BY <1>2 DEF TypeOK, EnterPass, Park
<1>3. ASSUME NEW c \in Seats, Timeout(c) PROVE TypeOK'
  BY <1>3, TypeGoIdle DEF TypeOK, Timeout
<1>4. ASSUME NEW c \in Seats, Discard(c) PROVE TypeOK'
  <2>1. Tail(up[c]) \in Seq(Frame)
    BY <1>4 DEF TypeOK, Discard
  <2> QED BY <1>4, <2>1 DEF TypeOK, Discard, console
<1> QED
  BY <1>1, <1>2, <1>3, <1>4, TypeRecv, TypeCapture, TypeRunTick, TypeForward,
     TypeRelayDrop DEF Next

(* The state of the engine has the declared types, at every delay.         *)
THEOREM TypeCorrect == Spec => []TypeOK
BY TypeInit, TypeNext, PTL DEF Spec

-----------------------------------------------------------------------------
(* The replay, at a delay that fits.                                       *)

(* What the rest needs of the delay.                                       *)
LEMMA DelayWidths ==
  ASSUME DelayFits
  PROVE  /\ D \in Nat /\ D >= 1
         /\ BYTE \in Nat /\ 2 * D + 2 < BYTE
BY Widths DEF DelayFits

-----------------------------------------------------------------------------
(* A queue of frames loses its head and gains a last element.              *)

LEMMA TailFacts ==
  ASSUME NEW S, NEW q \in Seq(S), q # <<>>
  PROVE  /\ Len(q) \in Nat /\ Len(q) >= 1
         /\ q[1] \in S /\ Head(q) = q[1]
         /\ Tail(q) \in Seq(S) /\ Len(Tail(q)) = Len(q) - 1
         /\ \A p \in 1 .. Len(Tail(q)) : Tail(q)[p] = q[p + 1] /\ p + 1 \in 1 .. Len(q)
OBVIOUS

LEMMA AppendFacts ==
  ASSUME NEW S, NEW q \in Seq(S), NEW x \in S
  PROVE  /\ Len(q) \in Nat /\ Append(q, x) \in Seq(S)
         /\ Len(Append(q, x)) = Len(q) + 1
         /\ Append(q, x)[Len(q) + 1] = x
         /\ \A p \in 1 .. Len(q) : Append(q, x)[p] = q[p]
         /\ \A p \in 1 .. Len(Append(q, x)) : p \in 1 .. Len(q) \/ p = Len(q) + 1
OBVIOUS

-----------------------------------------------------------------------------
(* How far each seat has come.                                             *)

LEMMA Progress ==
  ASSUME TypeOK, NEW s \in Seats
  PROVE  /\ tick[s] \in Nat /\ Sent(s) \in Int
         /\ Sent(s) = tick[s] + D - (IF AtGate(s) THEN 0 ELSE 1)
         /\ Sent(s) <= tick[s] + D /\ Sent(s) >= tick[s] + D - 1
<1>1. tick[s] \in Nat
  BY DEF TypeOK
<1>2. Sent(s) = tick[s] + D - (IF AtGate(s) THEN 0 ELSE 1)
  BY DEF Sent
<1> QED BY <1>1, <1>2, Widths

(* Nothing but a capture moves what was captured.                          *)
LEMMA SentEnterPass ==
  ASSUME TypeOK, NEW c \in Seats, EnterPass(c) \/ Park(c) \/ Recv(c) \/ Timeout(c)
  PROVE  \A s \in Seats : Sent(s)' = Sent(s)
<1>1. \A s \in Seats : AtGate(s)' = AtGate(s)
  <2>0. pc \in [Seats -> {"entry", "top", "gate", "pump", "parked"}]
    BY DEF TypeOK
  <2>1. CASE EnterPass(c) \/ Park(c)
    <3>1. pc[c] = "entry" /\ \E x \in {"top", "parked"} : pc' = [pc EXCEPT ![c] = x]
      BY <2>1 DEF EnterPass, Park
    <3> QED BY <2>0, <3>1 DEF AtGate
  <2>2. CASE Recv(c)
    <3>1. /\ pc[c] \in {"top", "gate", "pump"}
          /\ pc' = [pc EXCEPT ![c] = IF pc[c] = "top" THEN "top" ELSE "pump"]
      BY <2>2 DEF Recv
    <3> QED BY <2>0, <3>1 DEF AtGate
  <2>3. CASE Timeout(c)
    BY <2>3 DEF AtGate, Timeout
  <2> QED BY <2>1, <2>2, <2>3
<1>2. tick' = tick
  BY DEF EnterPass, Park, Recv, Timeout
<1> QED BY <1>1, <1>2 DEF Sent

LEMMA SentRunTick ==
  ASSUME TypeOK, NEW c \in Seats, RunTick(c)
  PROVE  \A s \in Seats : Sent(s)' = Sent(s)
<1> SUFFICES ASSUME NEW s \in Seats PROVE Sent(s)' = Sent(s)
  OBVIOUS
<1>1. tick[s] \in Nat /\ tick[c] \in Nat
  BY DEF TypeOK
<1>2. CASE s = c
  <2>1. AtGate(c) /\ ~AtGate(c)'
    BY DEF RunTick, AtGate, TypeOK
  <2>2. tick'[c] = tick[c] + 1
    BY DEF RunTick, TypeOK
  <2> QED BY <1>1, <1>2, <2>1, <2>2, Widths DEF Sent
<1>3. CASE s # c
  <2>1. AtGate(s)' = AtGate(s) /\ tick'[s] = tick[s]
    BY <1>3 DEF RunTick, AtGate, TypeOK
  <2> QED BY <2>1 DEF Sent
<1> QED BY <1>2, <1>3

LEMMA SentCapture ==
  ASSUME TypeOK, NEW c \in Seats, Capture(c) \/ CaptureLost(c)
  PROVE  /\ Sent(c)' = Sent(c) + 1 /\ Sent(c)' = tick[c] + D
         /\ \A s \in Seats \ {c} : Sent(s)' = Sent(s)
<1>1. ~AtGate(c) /\ AtGate(c)'
  BY DEF Capture, CaptureLost, AtGate, TypeOK
<1>2. tick' = tick /\ tick[c] \in Nat
  BY DEF Capture, CaptureLost, TypeOK
<1>3. Sent(c) = tick[c] + D - 1 /\ Sent(c)' = tick[c] + D
  BY <1>1, <1>2, Widths DEF Sent
<1>4. ASSUME NEW s \in Seats \ {c} PROVE Sent(s)' = Sent(s)
  <2>1. AtGate(s)' = AtGate(s)
    BY DEF Capture, CaptureLost, AtGate, TypeOK
  <2> QED BY <2>1, <1>2 DEF Sent
<1> QED BY <1>2, <1>3, <1>4, Widths

LEMMA SentRelay ==
  ASSUME NEW c \in Seats, Forward(c) \/ Discard(c) \/ RelayDrop(c)
  PROVE  \A s \in Seats : Sent(s)' = Sent(s)
BY DEF Forward, Discard, RelayDrop, console, Sent, AtGate

(* A capture is never taken back.                                          *)
LEMMA SentGrows ==
  ASSUME TypeOK, Next, NEW s \in Seats
  PROVE  Sent(s) \in Int /\ Sent(s)' \in Int /\ Sent(s)' >= Sent(s)
<1>1. Sent(s) \in Int
  BY Progress
<1>2. Sent(s)' = Sent(s) \/ Sent(s)' = Sent(s) + 1
  BY SentEnterPass, SentRunTick, SentCapture, SentRelay DEF Next
<1> QED BY <1>1, <1>2

LEMMA LostGrows ==
  ASSUME Next
  PROVE  lost \subseteq lost'
BY DEF Next, EnterPass, Park, Recv, Capture, CaptureLost, RunTick, Timeout, Forward,
       Discard, RelayDrop

-----------------------------------------------------------------------------
(* UpInv: the queue to the relay.                                          *)

LEMMA FrameFields ==
  ASSUME NEW f \in Frame, f.type = "INPUT"
  PROVE  f.seat \in Seats /\ f.tick \in Nat /\ f = InputFrame(f.seat, f.tick)
BY DEF Frame, InputFrame

LEMMA InputFields ==
  ASSUME NEW s, NEW t
  PROVE  InputFrame(s, t).type = "INPUT" /\ InputFrame(s, t).seat = s
         /\ InputFrame(s, t).tick = t
BY DEF InputFrame

LEMMA InOrderTail ==
  ASSUME NEW q \in Seq(Frame), q # <<>>, InOrder(q)
  PROVE  InOrder(Tail(q))
<1> SUFFICES ASSUME NEW p \in 1 .. Len(Tail(q)), NEW r \in 1 .. p - 1,
                    Tail(q)[p].type = "INPUT", Tail(q)[r].type = "INPUT",
                    Tail(q)[p].seat = Tail(q)[r].seat
             PROVE  Tail(q)[r].tick < Tail(q)[p].tick
  BY DEF InOrder
<1>1. Tail(q)[p] = q[p + 1] /\ p + 1 \in 1 .. Len(q)
  BY TailFacts
<1>2. Len(Tail(q)) \in Nat /\ r \in 1 .. Len(Tail(q)) /\ r + 1 \in 1 .. (p + 1) - 1
  BY TailFacts
<1>3. Tail(q)[r] = q[r + 1]
  BY <1>2, TailFacts
<1> QED BY <1>1, <1>2, <1>3 DEF InOrder

LEMMA InOrderAppend ==
  ASSUME NEW q \in Seq(Frame), NEW x \in Frame, InOrder(q),
         x.type = "INPUT" => \A r \in 1 .. Len(q) :
           q[r].type = "INPUT" /\ q[r].seat = x.seat => q[r].tick < x.tick
  PROVE  InOrder(Append(q, x))
<1> DEFINE y == Append(q, x)
<1> SUFFICES ASSUME NEW p \in 1 .. Len(y), NEW r \in 1 .. p - 1,
                    y[p].type = "INPUT", y[r].type = "INPUT", y[p].seat = y[r].seat
             PROVE  y[r].tick < y[p].tick
  BY DEF InOrder
<1>1. Len(q) \in Nat /\ Len(y) = Len(q) + 1
  BY AppendFacts
<1>2. r \in 1 .. Len(q) /\ y[r] = q[r]
  BY <1>1, AppendFacts
<1>3. CASE p \in 1 .. Len(q)
  <2>1. y[p] = q[p]
    BY <1>3, AppendFacts
  <2> QED BY <1>2, <1>3, <2>1 DEF InOrder
<1>4. CASE p = Len(q) + 1
  <2>1. y[p] = x
    BY <1>4, AppendFacts
  <2> QED BY <1>2, <2>1
<1> QED BY <1>1, <1>3, <1>4

(* Every frame of a queue is its head or in its tail.                      *)
LEMMA HeadOrTail ==
  ASSUME NEW q \in Seq(Frame), q # <<>>, NEW p \in 1 .. Len(q)
  PROVE  q[p] = Head(q) \/ \E r \in 1 .. Len(Tail(q)) : Tail(q)[r] = q[p]
<1>1. CASE p = 1
  BY <1>1, TailFacts
<1>2. CASE p # 1
  <2>1. PICK r \in 1 .. Len(Tail(q)) : r = p - 1
    BY <1>2, TailFacts
  <2>2. Tail(q)[r] = q[r + 1] /\ r + 1 = p
    BY <2>1, TailFacts
  <2> QED BY <2>2
<1> QED BY <1>1, <1>2

(* The head of an ordered queue comes before the rest of its seat.         *)
LEMMA HeadFirst ==
  ASSUME NEW q \in Seq(Frame), q # <<>>, InOrder(q), Head(q).type = "INPUT",
         NEW r \in 1 .. Len(Tail(q)), Tail(q)[r].type = "INPUT",
         Tail(q)[r].seat = Head(q).seat
  PROVE  Head(q).tick < Tail(q)[r].tick
<1>1. /\ Tail(q)[r] = q[r + 1] /\ r + 1 \in 1 .. Len(q) /\ Head(q) = q[1]
      /\ Len(Tail(q)) \in Nat
  BY TailFacts
<1>2. 1 \in 1 .. (r + 1) - 1
  BY <1>1
<1> QED BY <1>1, <1>2 DEF InOrder

LEMMA UpFrames ==
  ASSUME TypeOK, UpInv, NEW s \in Seats, NEW p \in 1 .. Len(up[s])
  PROVE  /\ up[s][p].type = "INPUT" /\ up[s][p].seat = s /\ up[s][p].tick \in Nat
         /\ up[s][p].tick <= Sent(s) /\ up[s][p] = InputFrame(s, up[s][p].tick)
<1>1. up[s][p] = InputFrame(s, up[s][p].tick) /\ up[s][p].tick <= Sent(s)
  BY DEF UpInv
<1>2. up[s][p].type = "INPUT" /\ up[s][p].seat = s
  BY <1>1, InputFields
<1>3. up[s] \in Seq(Frame)
  BY DEF TypeOK
<1>4. up[s][p] \in Frame
  BY <1>3
<1> QED BY <1>1, <1>2, <1>4, FrameFields

LEMMA UpCapture ==
  ASSUME TypeOK, NEW c \in Seats, Capture(c)
  PROVE  /\ tick[c] + D \in Nat /\ InputFrame(c, tick[c] + D) \in Frame
         /\ up[c] \in Seq(Frame)
         /\ up'[c] = Append(up[c], InputFrame(c, tick[c] + D))
         /\ \A s \in Seats \ {c} : up'[s] = up[s]
<1>1. tick[c] \in Nat
  BY DEF TypeOK
<1>2. tick[c] + D \in Nat
  BY <1>1, Widths
<1>3. InputFrame(c, tick[c] + D) \in Frame
  BY <1>2, FrameTypes
<1> QED BY <1>2, <1>3 DEF Capture, TypeOK

LEMMA UpTail ==
  ASSUME TypeOK, NEW c \in Seats, Forward(c) \/ Discard(c)
  PROVE  /\ up[c] \in Seq(Frame) /\ up[c] # <<>> /\ up'[c] = Tail(up[c])
         /\ \A s \in Seats \ {c} : up'[s] = up[s]
BY DEF Forward, Discard, TypeOK

LEMMA UpDrop ==
  ASSUME TypeOK, NEW c \in Seats, RelayDrop(c)
  PROVE  up'[c] = <<>> /\ \A s \in Seats \ {c} : up'[s] = up[s]
BY DEF RelayDrop, TypeOK

(* Whatever a step does to the queue of s: it is left alone, gains the     *)
(* next capture, loses its head or is thrown away.                         *)
LEMMA UpCases ==
  ASSUME TypeOK, Next, NEW s \in Seats
  PROVE  \/ up'[s] = up[s]
         \/ Capture(s)
         \/ Forward(s) \/ Discard(s)
         \/ up'[s] = <<>>
<1>1. PICK x \in Seats :
         \/ EnterPass(x) \/ Park(x) \/ Recv(x) \/ Capture(x) \/ CaptureLost(x)
         \/ RunTick(x) \/ Timeout(x) \/ Forward(x) \/ Discard(x) \/ RelayDrop(x)
  BY DEF Next
<1>2. CASE EnterPass(x) \/ Park(x) \/ Recv(x) \/ CaptureLost(x) \/ RunTick(x) \/ Timeout(x)
  BY <1>2 DEF EnterPass, Park, Recv, CaptureLost, RunTick, Timeout
<1>3. CASE Capture(x)
  BY <1>3, UpCapture
<1>4. CASE Forward(x) \/ Discard(x)
  BY <1>4, UpTail
<1>5. CASE RelayDrop(x)
  BY <1>5, UpDrop
<1> QED BY <1>1, <1>2, <1>3, <1>4, <1>5

(* What came before everything in a queue to the relay still does.         *)
LEMMA StillBefore ==
  ASSUME TypeOK, Next, NEW s \in Seats, NEW k \in Int, k <= Sent(s), Before(k, up[s])
  PROVE  Before(k, up[s])'
<1>1. CASE up'[s] = up[s]
  BY <1>1 DEF Before
<1>2. CASE Capture(s)
  <2> DEFINE t == tick[s] + D
  <2>1. /\ t \in Nat /\ InputFrame(s, t) \in Frame /\ up[s] \in Seq(Frame)
        /\ up'[s] = Append(up[s], InputFrame(s, t))
    BY <1>2, UpCapture
  <2>2. Sent(s) + 1 = t /\ Sent(s) \in Int
    BY <1>2, SentCapture, Progress
  <2>3. k < t
    BY <2>2
  <2> HIDE DEF t
  <2> SUFFICES ASSUME NEW p \in 1 .. Len(up'[s]) PROVE k < up'[s][p].tick
    BY DEF Before
  <2>4. CASE p \in 1 .. Len(up[s])
    <3>1. up'[s][p] = up[s][p]
      BY <2>1, <2>4, AppendFacts
    <3> QED BY <2>4, <3>1 DEF Before
  <2>5. CASE p = Len(up[s]) + 1
    <3>1. up'[s][p] = InputFrame(s, t)
      BY <2>1, <2>5, AppendFacts
    <3> QED BY <2>3, <3>1, InputFields
  <2> QED BY <2>1, <2>4, <2>5, AppendFacts
<1>3. CASE Forward(s) \/ Discard(s)
  <2>1. up[s] \in Seq(Frame) /\ up[s] # <<>> /\ up'[s] = Tail(up[s])
    BY <1>3, UpTail
  <2>2. \A p \in 1 .. Len(up'[s]) : up'[s][p] = up[s][p + 1] /\ p + 1 \in 1 .. Len(up[s])
    BY <2>1, TailFacts
  <2> QED BY <2>2 DEF Before
<1>4. CASE up'[s] = <<>>
  BY <1>4 DEF Before
<1> QED BY <1>1, <1>2, <1>3, <1>4, UpCases

LEMMA UpNext ==
  ASSUME TypeOK, UpInv, Next
  PROVE  UpInv'
<1> SUFFICES ASSUME NEW s \in Seats
             PROVE  /\ \A p \in 1 .. Len(up'[s]) :
                         up'[s][p] = InputFrame(s, up'[s][p].tick)
                           /\ up'[s][p].tick <= Sent(s)'
                    /\ InOrder(up'[s])
  BY DEF UpInv, InOrder, InputFrame
<1>1. up[s] \in Seq(Frame) /\ InOrder(up[s])
  BY DEF TypeOK, UpInv
<1>2. ASSUME NEW p \in 1 .. Len(up[s])
      PROVE  up[s][p] = InputFrame(s, up[s][p].tick) /\ up[s][p].tick <= Sent(s)'
  <2>1. /\ up[s][p].tick \in Nat /\ up[s][p].tick <= Sent(s)
        /\ up[s][p] = InputFrame(s, up[s][p].tick)
    BY UpFrames
  <2>2. Sent(s) \in Int /\ Sent(s)' \in Int /\ Sent(s)' >= Sent(s)
    BY SentGrows
  <2> QED BY <2>1, <2>2
<1>3. CASE up'[s] = up[s]
  BY <1>1, <1>2, <1>3
<1>4. CASE Capture(s)
  <2> DEFINE t == tick[s] + D
             x == InputFrame(s, t)
  <2>1. t \in Nat /\ x \in Frame /\ up'[s] = Append(up[s], x)
    BY <1>4, UpCapture
  <2>2. x.type = "INPUT" /\ x.seat = s /\ x.tick = t
    BY InputFields
  <2>3. Sent(s)' = t /\ Sent(s) + 1 = t /\ Sent(s) \in Int
    BY <1>4, SentCapture, Progress
  <2>4. ASSUME NEW r \in 1 .. Len(up[s]) PROVE up[s][r].tick < t
    <3>1. up[s][r].tick \in Nat /\ up[s][r].tick <= Sent(s)
      BY UpFrames
    <3> QED BY <2>3, <3>1
  <2>5. x = InputFrame(s, x.tick) /\ x.tick <= Sent(s)'
    BY <2>1, <2>2, <2>3
  <2> HIDE DEF x, t
  <2>6. InOrder(up'[s])
    BY <1>1, <2>1, <2>2, <2>4, InOrderAppend
  <2>7. ASSUME NEW p \in 1 .. Len(up'[s])
        PROVE  up'[s][p] = InputFrame(s, up'[s][p].tick) /\ up'[s][p].tick <= Sent(s)'
    <3>1. CASE p \in 1 .. Len(up[s])
      <4>1. up'[s][p] = up[s][p]
        BY <1>1, <2>1, <3>1, AppendFacts
      <4> QED BY <1>2, <3>1, <4>1
    <3>2. CASE p = Len(up[s]) + 1
      <4>1. up'[s][p] = x
        BY <1>1, <2>1, <3>2, AppendFacts
      <4> QED BY <2>5, <4>1
    <3> QED BY <1>1, <2>1, <3>1, <3>2, AppendFacts
  <2> QED BY <2>6, <2>7
<1>5. CASE Forward(s) \/ Discard(s)
  <2>1. up[s] # <<>> /\ up'[s] = Tail(up[s])
    BY <1>5, UpTail
  <2>2. \A p \in 1 .. Len(up'[s]) : up'[s][p] = up[s][p + 1] /\ p + 1 \in 1 .. Len(up[s])
    BY <1>1, <2>1, TailFacts
  <2>3. InOrder(up'[s])
    BY <1>1, <2>1, InOrderTail
  <2> QED BY <1>2, <2>2, <2>3
<1>6. CASE up'[s] = <<>>
  BY <1>6 DEF InOrder
<1> QED BY <1>3, <1>4, <1>5, <1>6, UpCases

(* What the relay takes next was captured before the rest.                 *)
LEMMA HeadOfUp ==
  ASSUME TypeOK, UpInv, NEW c \in Seats, up[c] # <<>>
  PROVE  \E k \in Nat :
           /\ Head(up[c]) = InputFrame(c, k) /\ Head(up[c]) \in Frame
           /\ k <= Sent(c) /\ Before(k, Tail(up[c]))
           /\ \A n : Before(n, up[c]) => n < k
           /\ \A j : Ahead(c, j) =>
                \/ j = k
                \/ \E r \in 1 .. Len(Tail(up[c])) : Tail(up[c])[r] = InputFrame(c, j)
<1> DEFINE q == up[c]
           k == Head(q).tick
<1>1. q \in Seq(Frame) /\ InOrder(q)
  BY DEF TypeOK, UpInv
<1>2. 1 \in 1 .. Len(q) /\ Head(q) = q[1] /\ Head(q) \in Frame
  BY <1>1, TailFacts
<1>3. /\ k \in Nat /\ Head(q) = InputFrame(c, k) /\ k <= Sent(c)
      /\ Head(q).type = "INPUT" /\ Head(q).seat = c
  BY <1>2, UpFrames
<1>4. Before(k, Tail(q))
  <2> SUFFICES ASSUME NEW r \in 1 .. Len(Tail(q)) PROVE k < Tail(q)[r].tick
    BY DEF Before
  <2>1. Tail(q)[r] = q[r + 1] /\ r + 1 \in 1 .. Len(q)
    BY <1>1, TailFacts
  <2>2. Tail(q)[r].type = "INPUT" /\ Tail(q)[r].seat = c
    BY <2>1, UpFrames
  <2> QED BY <1>1, <1>3, <2>2, HeadFirst
<1>5. ASSUME NEW n, Before(n, q) PROVE n < k
  BY <1>2, <1>5 DEF Before
<1>6. ASSUME NEW j, Ahead(c, j)
      PROVE  \/ j = k
             \/ \E r \in 1 .. Len(Tail(q)) : Tail(q)[r] = InputFrame(c, j)
  <2>1. PICK p \in 1 .. Len(q) : q[p] = InputFrame(c, j)
    BY <1>6 DEF Ahead
  <2>2. CASE q[p] = Head(q)
    <3>1. InputFrame(c, j).tick = j
      BY InputFields
    <3> QED BY <2>1, <2>2, <3>1
  <2>3. CASE q[p] # Head(q)
    BY <1>1, <2>1, <2>3, HeadOrTail
  <2> QED BY <2>2, <2>3
<1> QED BY <1>2, <1>3, <1>4, <1>5, <1>6

-----------------------------------------------------------------------------
(* DownInv: what waits on the way to a console.                            *)

LEMMA DownFrames ==
  ASSUME TypeOK, NEW c \in Seats, NEW p \in 1 .. Len(down[c])
  PROVE  /\ down[c] \in Seq(Frame) /\ down[c][p] \in Frame
         /\ down[c][p].type = "INPUT" =>
              /\ down[c][p].seat \in Seats /\ down[c][p].tick \in Nat
              /\ down[c][p] = InputFrame(down[c][p].seat, down[c][p].tick)
<1>1. down[c] \in Seq(Frame)
  BY DEF TypeOK
<1>2. down[c][p] \in Frame
  BY <1>1
<1> QED BY <1>1, <1>2, FrameFields

(* A frame on its way stays expected while the console's watermarks and    *)
(* the frames before it stay what they are.                                *)
LEMMA StillExpected ==
  ASSUME TypeOK, Next, NEW m \in Seats, NEW s \in Seats, NEW k \in Nat,
         Expected(m, s, k),
         ~dropped'[m] => ~dropped[m] /\ wm'[m] = wm[m],
         \A j \in Int : Coming(m, s, j) => Coming(m, s, j)'
  PROVE  Expected(m, s, k)'
<1>1. s # m /\ k <= Sent(s) /\ Before(k, up[s])
  BY DEF Expected
<1>2. k <= Sent(s)'
  <2>1. Sent(s) \in Int /\ Sent(s)' \in Int /\ Sent(s)' >= Sent(s)
    BY SentGrows
  <2> QED BY <1>1, <2>1
<1>3. Before(k, up[s])'
  BY <1>1, StillBefore
<1>4. ASSUME ~dropped'[m]
      PROVE  /\ wm'[m][s] < k
             /\ \A j \in wm'[m][s] + 1 .. k - 1 : Coming(m, s, j)' \/ <<s, j>> \in lost'
  <2>1. ~dropped[m] /\ wm'[m] = wm[m] /\ lost \subseteq lost'
    BY <1>4, LostGrows
  <2>2. /\ wm[m][s] < k
        /\ \A j \in wm[m][s] + 1 .. k - 1 : Coming(m, s, j) \/ <<s, j>> \in lost
    BY <2>1 DEF Expected
  <2>3. wm[m][s] \in Nat
    BY DEF TypeOK
  <2>4. ASSUME NEW j \in wm[m][s] + 1 .. k - 1
        PROVE  Coming(m, s, j)' \/ <<s, j>> \in lost'
    <3>1. j \in Int /\ (Coming(m, s, j) \/ <<s, j>> \in lost)
      BY <2>2, <2>3
    <3> QED BY <2>1, <3>1
  <2> QED BY <2>1, <2>2, <2>4
<1> QED BY <1>1, <1>2, <1>3, <1>4 DEF Expected

(* The queue of one console, frame by frame.                               *)
Arrives(c) ==
  /\ InOrder(down[c])
  /\ \A s \in Seats, k \in Nat : Coming(c, s, k) => Expected(c, s, k)

AllArrive == \A c \in Seats : Arrives(c)

LEMMA DownArrives == TypeOK => (DownInv <=> AllArrive)
<1> SUFFICES ASSUME TypeOK PROVE DownInv <=> AllArrive
  OBVIOUS
<1>1. ASSUME DownInv, NEW c \in Seats PROVE Arrives(c)
  <2> SUFFICES ASSUME NEW s \in Seats, NEW k \in Nat, Coming(c, s, k)
               PROVE  Expected(c, s, k)
    BY <1>1 DEF Arrives, DownInv
  <2>1. PICK p \in 1 .. Len(down[c]) : down[c][p] = InputFrame(s, k)
    BY DEF Coming
  <2>2. down[c][p].type = "INPUT" /\ down[c][p].seat = s /\ down[c][p].tick = k
    BY <2>1, InputFields
  <2> QED BY <1>1, <2>2 DEF DownInv
<1>2. ASSUME \A c \in Seats : Arrives(c), NEW c \in Seats, NEW p \in 1 .. Len(down[c]),
             down[c][p].type = "INPUT"
      PROVE  Expected(c, down[c][p].seat, down[c][p].tick)
  <2>1. /\ down[c][p].seat \in Seats /\ down[c][p].tick \in Nat
        /\ down[c][p] = InputFrame(down[c][p].seat, down[c][p].tick)
    BY <1>2, DownFrames
  <2>2. PICK s \in Seats, k \in Nat : s = down[c][p].seat /\ k = down[c][p].tick
    BY <2>1
  <2>3. Coming(c, s, k)
    BY <2>1, <2>2 DEF Coming
  <2>4. Expected(c, s, k)
    BY <1>2, <2>3 DEF Arrives
  <2> QED BY <2>2, <2>4
<1> QED BY <1>1, <1>2 DEF DownInv, Arrives, AllArrive

LEMMA DownArrivesNext ==
  ASSUME TypeOK', \A c \in Seats : Arrives(c)'
  PROVE  DownInv'
<1>1. AllArrive'
  BY DEF AllArrive
<1>2. TypeOK' => (DownInv' <=> AllArrive')
  BY DownArrives, PTL
<1> QED BY <1>1, <1>2

(* A queue that does not change, as its console does not.                  *)
LEMMA ArrivesKept ==
  ASSUME TypeOK, DownInv, Next, NEW m \in Seats, down'[m] = down[m],
         ~dropped'[m] => ~dropped[m] /\ wm'[m] = wm[m]
  PROVE  Arrives(m)'
<1>1. Arrives(m)
  BY DownArrives DEF AllArrive
<1>2. \A s, j : Coming(m, s, j)' <=> Coming(m, s, j)
  BY DEF Coming, InputFrame
<1>3. ASSUME NEW s \in Seats, NEW k \in Nat, Coming(m, s, k)'
      PROVE  Expected(m, s, k)'
  <2>1. Expected(m, s, k)
    BY <1>1, <1>2, <1>3 DEF Arrives
  <2> QED BY <1>2, <2>1, StillExpected
<1> QED BY <1>1, <1>3 DEF Arrives, InOrder

(* Steps that leave the queues to the consoles and the watermarks of those *)
(* still in the match alone.                                               *)
LEMMA DownKept ==
  ASSUME TypeOK, DownInv, Next, down' = down,
         \A m \in Seats : ~dropped'[m] => ~dropped[m] /\ wm'[m] = wm[m]
  PROVE  DownInv'
<1>1. \A m \in Seats : Arrives(m)'
  BY ArrivesKept
<1> QED BY <1>1, TypeNext, DownArrivesNext

(* A frame reaches the end of the queue of m.                              *)
LEMMA DownAppend ==
  ASSUME TypeOK, DownInv, Next, NEW m \in Seats, NEW x \in Frame,
         down'[m] = Append(down[m], x), dropped'[m] = dropped[m], wm'[m] = wm[m],
         \A s \in Seats, k \in Nat : x = InputFrame(s, k) =>
           /\ Expected(m, s, k)'
           /\ \A n \in Nat : Before(n, up[s]) => n < k
  PROVE  Arrives(m)'
<1> DEFINE q == down[m]
<1>1. q \in Seq(Frame) /\ InOrder(q) /\ Arrives(m)
  BY DownArrives DEF TypeOK, DownInv, AllArrive
<1>2. InOrder(down'[m])
  <2>1. ASSUME x.type = "INPUT", NEW r \in 1 .. Len(q), q[r].type = "INPUT",
               q[r].seat = x.seat
        PROVE  q[r].tick < x.tick
    <3>1. PICK s \in Seats, k \in Nat : s = x.seat /\ k = x.tick /\ x = InputFrame(s, k)
      BY <2>1, FrameFields
    <3>2. PICK n \in Nat : n = q[r].tick /\ q[r] = InputFrame(s, n)
      BY <2>1, <3>1, DownFrames
    <3>3. Coming(m, s, n)
      BY <3>2 DEF Coming
    <3>4. Before(n, up[s])
      BY <1>1, <3>3 DEF Arrives, Expected
    <3> QED BY <3>1, <3>2, <3>4
  <2> QED BY <1>1, <2>1, InOrderAppend
<1>3. ASSUME NEW s, NEW j, Coming(m, s, j)
      PROVE  Coming(m, s, j)'
  <2>1. PICK p \in 1 .. Len(q) : q[p] = InputFrame(s, j)
    BY <1>3 DEF Coming
  <2>2. p \in 1 .. Len(down'[m]) /\ down'[m][p] = InputFrame(s, j)
    BY <1>1, <2>1, AppendFacts
  <2>3. \E r \in 1 .. Len(down'[m]) : down'[m][r] = InputFrame(s, j)
    BY <2>2
  <2> QED BY <2>3 DEF Coming, InputFrame
<1>4. ASSUME NEW s \in Seats, NEW k \in Nat, Coming(m, s, k)'
      PROVE  Expected(m, s, k)'
  <2>1. PICK p \in 1 .. Len(down'[m]) : down'[m][p] = InputFrame(s, k)
    BY <1>4 DEF Coming, InputFrame
  <2>2. CASE p \in 1 .. Len(q)
    <3>1. q[p] = InputFrame(s, k)
      BY <1>1, <2>1, <2>2, AppendFacts
    <3>2. Coming(m, s, k)
      BY <2>2, <3>1 DEF Coming
    <3>3. Expected(m, s, k)
      BY <1>1, <3>2 DEF Arrives
    <3> QED BY <1>3, <3>3, StillExpected
  <2>3. CASE p = Len(q) + 1
    <3>1. x = InputFrame(s, k)
      BY <1>1, <2>1, <2>3, AppendFacts
    <3> QED BY <3>1
  <2> QED BY <1>1, <2>1, <2>2, <2>3, AppendFacts
<1> QED BY <1>2, <1>4 DEF Arrives, InOrder

LEMMA DownForward ==
  ASSUME TypeOK, UpInv, DownInv, WmInv, NEW c \in Seats, Forward(c)
  PROVE  DownInv'
<1> DEFINE x == Head(up[c])
<1>1. /\ c \in room /\ up[c] # <<>> /\ UNCHANGED <<wm, dropped, lost>>
      /\ down' = [m \in Seats |-> IF m \in room \ {c} THEN Append(down[m], x) ELSE down[m]]
      /\ up'[c] = Tail(up[c])
  BY UpTail DEF Forward, console
<1>2. PICK k \in Nat :
        /\ x = InputFrame(c, k) /\ x \in Frame /\ k <= Sent(c) /\ Before(k, Tail(up[c]))
        /\ \A n : Before(n, up[c]) => n < k
        /\ \A j : Ahead(c, j) =>
             \/ j = k
             \/ \E r \in 1 .. Len(Tail(up[c])) : Tail(up[c])[r] = InputFrame(c, j)
  BY <1>1, HeadOfUp
<1>n. Next
  BY DEF Next
<1> HIDE DEF x
<1>3. ASSUME NEW m \in Seats PROVE Arrives(m)'
  <2>1. wm'[m] = wm[m] /\ dropped'[m] = dropped[m]
    BY <1>1
  <2>2. CASE m \in room \ {c}
    <3>1. down'[m] = Append(down[m], x)
      BY <1>1, <2>2
    <3>2. ASSUME NEW j \in Int, Coming(m, c, j) PROVE Coming(m, c, j)'
      <4>1. PICK p \in 1 .. Len(down[m]) : down[m][p] = InputFrame(c, j)
        BY <3>2 DEF Coming
      <4>2. down[m] \in Seq(Frame)
        BY DEF TypeOK
      <4>3. p \in 1 .. Len(down'[m]) /\ down'[m][p] = InputFrame(c, j)
        BY <1>2, <3>1, <4>1, <4>2, AppendFacts
      <4>4. \E r \in 1 .. Len(down'[m]) : down'[m][r] = InputFrame(c, j)
        BY <4>3
      <4> QED BY <4>4 DEF Coming, InputFrame
    <3>3. Expected(m, c, k)'
      <4>1. c # m
        BY <2>2
      <4>2. k <= Sent(c)'
        BY <1>2, SentRelay
      <4>3. Before(k, up'[c])
        BY <1>1, <1>2
      <4>4. ASSUME ~dropped[m]
            PROVE  /\ wm[m][c] < k
                   /\ \A j \in wm[m][c] + 1 .. k - 1 : Coming(m, c, j)' \/ <<c, j>> \in lost
        <5>1. c \in Peers(m)
          BY <4>1 DEF Peers
        <5>2. /\ Before(wm[m][c], up[c])
              /\ \A j \in wm[m][c] + 1 .. Sent(c) : Accounted(m, c, j)
          BY <1>1, <2>2, <4>4, <5>1 DEF WmInv
        <5>3. wm[m][c] \in Nat /\ Sent(c) \in Int
          BY Progress DEF TypeOK
        <5>4. wm[m][c] < k
          BY <1>2, <5>2
        <5>5. ASSUME NEW j \in wm[m][c] + 1 .. k - 1
              PROVE  Coming(m, c, j)' \/ <<c, j>> \in lost
          <6>1. j \in Int /\ j < k /\ j \in wm[m][c] + 1 .. Sent(c)
            BY <1>2, <5>3
          <6>2. Accounted(m, c, j)
            BY <5>2, <6>1
          <6>3. ~Ahead(c, j)
            <7>1. SUFFICES ASSUME Ahead(c, j) PROVE FALSE
              OBVIOUS
            <7>2. PICK r \in 1 .. Len(Tail(up[c])) : Tail(up[c])[r] = InputFrame(c, j)
              BY <1>2, <6>1, <7>1
            <7>3. k < Tail(up[c])[r].tick
              BY <1>2 DEF Before
            <7>4. Tail(up[c])[r].tick = j
              BY <7>2, InputFields
            <7> QED BY <6>1, <7>3, <7>4
          <6> QED BY <3>2, <6>1, <6>2, <6>3 DEF Accounted
        <5> QED BY <5>4, <5>5
      <4> QED BY <1>1, <2>1, <4>1, <4>2, <4>3, <4>4 DEF Expected
    <3>4. ASSUME NEW s \in Seats, NEW n \in Nat, x = InputFrame(s, n)
          PROVE  /\ Expected(m, s, n)'
                 /\ \A i \in Nat : Before(i, up[s]) => i < n
      <4>1. InputFrame(s, n).seat = s /\ InputFrame(s, n).tick = n
            /\ InputFrame(c, k).seat = c /\ InputFrame(c, k).tick = k
        BY InputFields
      <4>2. s = c /\ n = k
        BY <1>2, <3>4, <4>1
      <4> QED BY <1>2, <3>3, <4>2
    <3> QED BY <1>n, <1>2, <2>1, <3>1, <3>4, DownAppend
  <2>3. CASE m \notin room \ {c}
    <3>1. down'[m] = down[m]
      BY <1>1, <2>3
    <3> QED BY <1>n, <2>1, <3>1, ArrivesKept
  <2> QED BY <2>2, <2>3
<1> QED BY <1>n, <1>3, TypeNext, DownArrivesNext

LEMMA DownDrop ==
  ASSUME TypeOK, DownInv, NEW c \in Seats, RelayDrop(c)
  PROVE  DownInv'
<1> DEFINE x == LeftFrame(c)
<1>1. /\ UNCHANGED <<wm, dropped>>
      /\ down' = [m \in Seats |-> IF m \in room \ {c} THEN Append(down[m], x) ELSE down[m]]
  BY DEF RelayDrop, console
<1>2. x \in Frame /\ x.type # "INPUT"
  BY DEF LeftFrame, Frame
<1>n. Next
  BY DEF Next
<1> HIDE DEF x
<1>3. ASSUME NEW m \in Seats PROVE Arrives(m)'
  <2>1. wm'[m] = wm[m] /\ dropped'[m] = dropped[m]
    BY <1>1
  <2>2. CASE m \in room \ {c}
    <3>1. down'[m] = Append(down[m], x)
      BY <1>1, <2>2
    <3>2. \A s \in Seats, k \in Nat : x # InputFrame(s, k)
      BY <1>2, InputFields
    <3> QED BY <1>n, <1>2, <2>1, <3>1, <3>2, DownAppend
  <2>3. CASE m \notin room \ {c}
    <3>1. down'[m] = down[m]
      BY <1>1, <2>3
    <3> QED BY <1>n, <2>1, <3>1, ArrivesKept
  <2> QED BY <2>2, <2>3
<1> QED BY <1>n, <1>3, TypeNext, DownArrivesNext

-----------------------------------------------------------------------------
(* What a console does with the head of its queue.  While it stays in the  *)
(* match the frame is a later tick of its seat than the watermark, only    *)
(* lost ticks lie in between, and it is stored.                            *)

(* A watermark lies too close to what is captured for the 16-bit           *)
(* comparison to be mistaken.                                              *)
LEMMA StoredIsNewer ==
  ASSUME DelayFits, TypeOK, WmInv, SkewInv, NEW c \in Seats, ~dropped[c],
         NEW s \in Peers(c), NEW k \in Nat, wm[c][s] < k, k <= Sent(s)
  PROVE  Newer(k, wm[c][s])
<1>1. s \in Seats
  BY DEF Peers
<1>2. wm[c][s] \in Nat /\ tick[c] \in Nat /\ Sent(s) \in Int
  BY <1>1, Progress DEF TypeOK
<1>3. tick[c] <= wm[c][s] + 1 /\ Sent(s) <= tick[c] + 2 * D + 1
  BY <1>1 DEF WmInv, SkewInv
<1>4. PICK n \in Nat : n = k - wm[c][s] /\ n >= 1
  BY <1>2
<1>5. n <= 2 * D + 2
  BY <1>2, <1>3, <1>4, DelayWidths
<1>6. n < BYTE
  BY <1>5, DelayWidths
<1>7. WORD \in Nat /\ WORD \div 2 \in Nat /\ WORD \div 2 >= 2 * BYTE /\ WORD >= 4 * BYTE
  BY WordRoom
<1>8. n < WORD /\ n <= (WORD \div 2) - 1
  BY <1>6, <1>7, DelayWidths
<1>9. n % WORD = n
  BY <1>7, <1>8
<1> QED BY <1>4, <1>7, <1>8, <1>9 DEF Newer

LEMMA RecvStores ==
  ASSUME DelayFits, TypeOK, DownInv, WmInv, SkewInv, NEW c \in Seats, Recv(c), ~dropped'[c]
  PROVE  \E s \in Peers(c), k \in Nat :
           /\ ~dropped[c]
           /\ Head(down[c]) = InputFrame(s, k) /\ wm[c][s] < k /\ k <= Sent(s)
           /\ Before(k, up[s])
           /\ \A j \in wm[c][s] + 1 .. k - 1 : <<s, j>> \in lost
           /\ wm' = [wm EXCEPT ![c][s] = k]
           /\ ring' = [ring EXCEPT ![c][s][Slot(k)] = k]
<1> DEFINE f == Head(down[c])
<1>1. /\ down[c] \in Seq(Frame) /\ down[c] # <<>> /\ InOrder(down[c])
      /\ wm \in [Seats -> [Seats -> Nat]] /\ dropped \in [Seats -> BOOLEAN]
  BY DEF Recv, TypeOK, DownInv
<1>2. f = down[c][1] /\ f \in Frame /\ 1 \in 1 .. Len(down[c])
  BY <1>1, TailFacts
<1>3. OnInput(c, f)
  <2>1. ASSUME OnLeft(c, f) PROVE FALSE
    <3>1. dropped'[c]
      BY <1>1, <2>1 DEF OnLeft, GoIdle
    <3> QED BY <3>1
  <2> QED BY <2>1 DEF Recv
<1>4. f.type = "INPUT" /\ dropped' = dropped
  BY <1>3 DEF OnInput
<1>5. f.seat \in Seats /\ f.tick \in Nat /\ f = InputFrame(f.seat, f.tick)
  BY <1>2, <1>4, FrameFields
<1>6. PICK s \in Seats, k \in Nat : s = f.seat /\ k = f.tick
  BY <1>5
<1>7. Expected(c, s, k)
  BY <1>2, <1>4, <1>6 DEF DownInv
<1>8. /\ s # c /\ k <= Sent(s) /\ Before(k, up[s]) /\ wm[c][s] < k
      /\ \A j \in wm[c][s] + 1 .. k - 1 : Coming(c, s, j) \/ <<s, j>> \in lost
  BY <1>4, <1>7 DEF Expected
<1>9. s \in Peers(c)
  BY <1>8 DEF Peers
<1>10. Newer(k, wm[c][s])
  BY <1>4, <1>8, <1>9, StoredIsNewer
<1>11. /\ wm' = [wm EXCEPT ![c][s] = k]
       /\ ring' = [ring EXCEPT ![c][s][Slot(k)] = k]
  BY <1>3, <1>6, <1>8, <1>10 DEF OnInput
<1>12. ASSUME NEW j \in wm[c][s] + 1 .. k - 1 PROVE <<s, j>> \in lost
  <2>0. wm[c][s] \in Nat
    BY <1>1
  <2>1. SUFFICES ASSUME Coming(c, s, j) PROVE FALSE
    BY <1>8
  <2>2. PICK p \in 1 .. Len(down[c]) : down[c][p] = InputFrame(s, j)
    BY <2>1 DEF Coming
  <2>3. down[c][p].type = "INPUT" /\ down[c][p].seat = s /\ down[c][p].tick = j
    BY <2>2, InputFields
  <2>4. p # 1
    BY <1>2, <1>6, <2>0, <2>3
  <2>5. f.tick < down[c][p].tick
    <3>1. 1 \in 1 .. p - 1
      BY <2>4
    <3> QED BY <1>1, <1>2, <1>4, <1>6, <2>3, <3>1 DEF InOrder
  <2> QED BY <1>6, <2>0, <2>3, <2>5
<1>13. f = InputFrame(s, k)
  BY <1>5, <1>6
<1> QED BY <1>4, <1>8, <1>9, <1>11, <1>12, <1>13

(* A frame received by c is nobody else's business.                        *)
LEMMA RecvOthers ==
  ASSUME TypeOK, NEW c \in Seats, Recv(c)
  PROVE  /\ \A m \in Seats : ~dropped'[m] => ~dropped[m]
         /\ \A m \in Seats \ {c} : /\ down'[m] = down[m] /\ dropped'[m] = dropped[m]
                                   /\ wm'[m] = wm[m] /\ ring'[m] = ring[m]
<1> DEFINE f == Head(down[c])
<1> HIDE DEF f
<1>1. down' = [down EXCEPT ![c] = Tail(@)] /\ (OnInput(c, f) \/ OnLeft(c, f))
  BY DEF Recv, f
<1>2. CASE OnInput(c, f)
  BY <1>1, <1>2 DEF OnInput, TypeOK
<1>3. CASE OnLeft(c, f)
  BY <1>1, <1>3 DEF OnLeft, GoIdle, TypeOK
<1> QED BY <1>1, <1>2, <1>3

(* What is behind the head stays on its way.                               *)
LEMMA StillComing ==
  ASSUME TypeOK, NEW c \in Seats, Recv(c), NEW s, NEW j, Coming(c, s, j),
         Head(down[c]) # InputFrame(s, j)
  PROVE  Coming(c, s, j)'
<1>1. down[c] \in Seq(Frame) /\ down[c] # <<>> /\ down'[c] = Tail(down[c])
  BY DEF Recv, TypeOK
<1>2. PICK p \in 1 .. Len(down[c]) : down[c][p] = InputFrame(s, j)
  BY DEF Coming
<1>3. \E r \in 1 .. Len(Tail(down[c])) : Tail(down[c])[r] = InputFrame(s, j)
  BY <1>1, <1>2, HeadOrTail
<1>4. \E r \in 1 .. Len(down'[c]) : down'[c][r] = InputFrame(s, j)
  BY <1>1, <1>3
<1> QED BY <1>4 DEF Coming, InputFrame

LEMMA DownRecv ==
  ASSUME DelayFits, TypeOK, DownInv, WmInv, SkewInv, NEW c \in Seats, Recv(c)
  PROVE  DownInv'
<1>1. /\ UNCHANGED <<up, lost>> /\ down[c] \in Seq(Frame) /\ down[c] # <<>>
      /\ down'[c] = Tail(down[c])
  BY DEF Recv, TypeOK
<1>n. Next
  BY DEF Next
<1>2. ASSUME NEW m \in Seats \ {c} PROVE Arrives(m)'
  BY <1>n, RecvOthers, ArrivesKept
<1>3. Arrives(c) /\ InOrder(down[c])
  BY DownArrives DEF Arrives, AllArrive
<1>4. InOrder(down'[c])
  BY <1>1, <1>3, InOrderTail
<1>5. ASSUME NEW s \in Seats, NEW n \in Nat, Coming(c, s, n)'
      PROVE  Expected(c, s, n)'
  <2>1. PICK r \in 1 .. Len(Tail(down[c])) : Tail(down[c])[r] = InputFrame(s, n)
    BY <1>1, <1>5 DEF Coming, InputFrame
  <2>2. Tail(down[c])[r] = down[c][r + 1] /\ r + 1 \in 1 .. Len(down[c])
    BY <1>1, TailFacts
  <2>3. Coming(c, s, n)
    BY <2>1, <2>2 DEF Coming
  <2>4. Expected(c, s, n)
    BY <1>3, <2>3 DEF Arrives
  <2>5. s # c /\ n <= Sent(s)' /\ Before(n, up'[s])
    BY <1>1, <2>4, SentEnterPass DEF Expected
  <2>6. ASSUME ~dropped'[c]
        PROVE  /\ wm'[c][s] < n
               /\ \A j \in wm'[c][s] + 1 .. n - 1 : Coming(c, s, j)' \/ <<s, j>> \in lost
    <3>1. PICK z \in Peers(c), k \in Nat :
             /\ ~dropped[c] /\ Head(down[c]) = InputFrame(z, k)
             /\ wm[c][z] < k /\ wm' = [wm EXCEPT ![c][z] = k]
      BY <2>6, RecvStores
    <3>2. /\ z \in Seats /\ wm \in [Seats -> [Seats -> Nat]]
          /\ wm[c][s] \in Nat /\ wm[c][z] \in Nat
      BY DEF Peers, TypeOK
    <3>3. /\ wm[c][s] < n
          /\ \A j \in wm[c][s] + 1 .. n - 1 : Coming(c, s, j) \/ <<s, j>> \in lost
      BY <2>4, <3>1 DEF Expected
    <3>4. CASE s # z
      <4>1. wm'[c][s] = wm[c][s]
        BY <3>1, <3>2, <3>4
      <4>2. ASSUME NEW j PROVE Head(down[c]) # InputFrame(s, j)
        BY <3>1, <3>4, InputFields
      <4> QED BY <3>3, <4>1, <4>2, StillComing
    <3>5. CASE s = z
      <4>1. wm'[c][s] = k
        BY <3>1, <3>2, <3>5
      <4>2. k < n
        <5>1. Head(down[c]).type = "INPUT" /\ Head(down[c]).seat = s /\ Head(down[c]).tick = k
          BY <3>1, <3>5, InputFields
        <5>2. /\ Tail(down[c])[r].type = "INPUT" /\ Tail(down[c])[r].seat = s
              /\ Tail(down[c])[r].tick = n
          BY <2>1, InputFields
        <5> QED BY <1>1, <1>3, <5>1, <5>2, HeadFirst
      <4>3. ASSUME NEW j \in k + 1 .. n - 1
            PROVE  Coming(c, s, j)' \/ <<s, j>> \in lost
        <5>1. j \in wm[c][s] + 1 .. n - 1 /\ j # k
          BY <3>1, <3>2, <3>5, <4>3
        <5>2. Head(down[c]) # InputFrame(s, j)
          <6>1. InputFrame(s, j).tick = j /\ InputFrame(z, k).tick = k
            BY InputFields
          <6> QED BY <3>1, <5>1, <6>1
        <5> QED BY <3>3, <5>1, <5>2, StillComing
      <4> QED BY <4>1, <4>2, <4>3
    <3> QED BY <3>4, <3>5
  <2> QED BY <1>1, <2>5, <2>6 DEF Expected
<1>6. Arrives(c)'
  BY <1>4, <1>5 DEF Arrives, InOrder
<1>7. \A m \in Seats : Arrives(m)'
  BY <1>2, <1>6
<1> QED BY <1>n, <1>7, TypeNext, DownArrivesNext

(* Every other step keeps the watermarks of the consoles in the match.     *)
LEMMA Survivors ==
  ASSUME TypeOK, NEW c \in Seats,
         \/ EnterPass(c) \/ Park(c) \/ Capture(c) \/ CaptureLost(c) \/ RunTick(c)
         \/ Timeout(c) \/ Forward(c) \/ Discard(c) \/ RelayDrop(c)
  PROVE  \A m \in Seats : ~dropped'[m] => ~dropped[m] /\ wm'[m] = wm[m]
<1>1. CASE Timeout(c)
  BY <1>1 DEF Timeout, GoIdle, TypeOK
<1>2. CASE ~Timeout(c)
  <2>1. wm' = wm /\ dropped' = dropped
    BY <1>2 DEF EnterPass, Park, Capture, CaptureLost, RunTick, Forward, Discard,
                RelayDrop, console
  <2> QED BY <2>1
<1> QED BY <1>1, <1>2

-----------------------------------------------------------------------------
(* WmInv: the watermarks.                                                  *)

(* Steps that move neither a watermark nor a console past one.             *)
LEMMA WmKept ==
  ASSUME TypeOK, TypeOK', WmInv, Next, room' \subseteq room,
         \A m \in Seats : ~dropped'[m] => ~dropped[m] /\ wm'[m] = wm[m],
         \A m \in Seats : ~dropped'[m] => \A s \in Peers(m) : tick'[m] <= wm[m][s] + 1,
         \A m, s \in room', k \in Int :
           s # m /\ k <= Sent(s)' /\ (Accounted(m, s, k) \/ Sent(s) < k) =>
             Accounted(m, s, k)'
  PROVE  WmInv'
<1> SUFFICES ASSUME NEW m \in Seats, ~dropped'[m], NEW s \in Peers(m)
             PROVE  /\ wm'[m][s] >= D - 1 /\ wm'[m][s] <= Sent(s)'
                    /\ tick'[m] <= wm'[m][s] + 1
                    /\ Before(wm'[m][s], up'[s])
                    /\ m \in room' /\ s \in room' =>
                         \A k \in wm'[m][s] + 1 .. Sent(s)' : Accounted(m, s, k)'
  BY DEF WmInv, Peers, Before, Accounted
<1>1. /\ ~dropped[m] /\ wm'[m] = wm[m] /\ s \in Seats /\ s # m
      /\ tick'[m] <= wm[m][s] + 1
  BY DEF Peers
<1>2. /\ wm[m][s] >= D - 1 /\ wm[m][s] <= Sent(s) /\ Before(wm[m][s], up[s])
      /\ m \in room /\ s \in room => \A k \in wm[m][s] + 1 .. Sent(s) : Accounted(m, s, k)
  BY <1>1 DEF WmInv
<1>3. /\ Sent(s) \in Int /\ Sent(s)' \in Int /\ Sent(s)' >= Sent(s)
      /\ wm[m][s] \in Int
  <2>1. wm[m][s] \in Nat
    BY <1>1 DEF TypeOK
  <2> QED BY <1>1, <2>1, SentGrows
<1>4. wm'[m][s] <= Sent(s)'
  BY <1>1, <1>2, <1>3
<1>5. Before(wm[m][s], up'[s])
  <2>1. Before(wm[m][s], up[s])'
    BY <1>1, <1>2, <1>3, StillBefore
  <2> QED BY <1>1, <2>1 DEF Before
<1>6. ASSUME m \in room', s \in room', NEW k \in wm[m][s] + 1 .. Sent(s)'
      PROVE  Accounted(m, s, k)'
  <2>1. k \in Int /\ k <= Sent(s)'
    BY <1>3
  <2>2. Sent(s) < k \/ k \in wm[m][s] + 1 .. Sent(s)
    BY <1>3
  <2>3. m \in room /\ s \in room
    BY <1>6
  <2>4. Sent(s) < k \/ Accounted(m, s, k)
    BY <1>2, <2>2, <2>3
  <2> QED BY <1>1, <1>6, <2>1, <2>4
<1> QED BY <1>1, <1>2, <1>4, <1>5, <1>6

LEMMA WmForward ==
  ASSUME TypeOK, UpInv, WmInv, NEW c \in Seats, Forward(c)
  PROVE  WmInv'
<1> DEFINE x == Head(up[c])
<1>1. /\ c \in room /\ up[c] # <<>> /\ UNCHANGED <<tick, wm, dropped, lost, room>>
      /\ down' = [m \in Seats |-> IF m \in room \ {c} THEN Append(down[m], x) ELSE down[m]]
      /\ up'[c] = Tail(up[c]) /\ \A s \in Seats \ {c} : up'[s] = up[s]
      /\ room \subseteq Seats
  BY UpTail DEF Forward, console, TypeOK
<1>2. PICK k \in Nat :
        /\ x = InputFrame(c, k) /\ x \in Frame
        /\ \A j : Ahead(c, j) =>
             \/ j = k
             \/ \E r \in 1 .. Len(Tail(up[c])) : Tail(up[c])[r] = InputFrame(c, j)
  BY <1>1, HeadOfUp
<1>n. Next
  BY DEF Next
<1>3. \A s \in Seats : Sent(s)' = Sent(s) /\ Sent(s) \in Int
  BY SentRelay, Progress
<1> HIDE DEF x
<1>4. ASSUME NEW m \in room', NEW s \in room', NEW j \in Int, s # m, j <= Sent(s)',
             Accounted(m, s, j) \/ Sent(s) < j
      PROVE  Accounted(m, s, j)'
  <2>1. m \in room /\ s \in room /\ m \in Seats /\ s \in Seats /\ Accounted(m, s, j)
    BY <1>1, <1>3, <1>4
  <2>2. down[m] \in Seq(Frame)
    BY <2>1 DEF TypeOK
  <2>3. ASSUME Coming(m, s, j) PROVE Coming(m, s, j)'
    <3>1. PICK p \in 1 .. Len(down[m]) : down[m][p] = InputFrame(s, j)
      BY <2>3 DEF Coming
    <3>2. down'[m] = down[m] \/ down'[m] = Append(down[m], x)
      BY <1>1, <2>1
    <3>3. p \in 1 .. Len(down'[m]) /\ down'[m][p] = InputFrame(s, j)
      <4>1. CASE down'[m] = down[m]
        BY <3>1, <4>1
      <4>2. CASE down'[m] = Append(down[m], x)
        BY <1>2, <2>2, <3>1, <4>2, AppendFacts
      <4> QED BY <3>2, <4>1, <4>2
    <3>4. \E r \in 1 .. Len(down'[m]) : down'[m][r] = InputFrame(s, j)
      BY <3>3
    <3> QED BY <3>4 DEF Coming, InputFrame
  <2>4. ASSUME Ahead(s, j) PROVE Ahead(s, j)' \/ Coming(m, s, j)'
    <3>1. CASE s # c
      <4>1. up'[s] = up[s]
        BY <1>1, <2>1, <3>1
      <4>2. \E r \in 1 .. Len(up'[s]) : up'[s][r] = InputFrame(s, j)
        BY <2>4, <4>1 DEF Ahead
      <4> QED BY <4>2 DEF Ahead, InputFrame
    <3>2. CASE s = c /\ j = k
      <4>1. down'[m] = Append(down[m], InputFrame(s, j))
        BY <1>1, <1>2, <1>4, <2>1, <3>2
      <4>2. InputFrame(s, j) \in Frame
        BY <1>2, <3>2
      <4>3. /\ Len(down[m]) + 1 \in 1 .. Len(down'[m])
            /\ down'[m][Len(down[m]) + 1] = InputFrame(s, j)
        BY <2>2, <4>1, <4>2, AppendFacts
      <4>4. \E r \in 1 .. Len(down'[m]) : down'[m][r] = InputFrame(s, j)
        BY <4>3
      <4> QED BY <4>4 DEF Coming, InputFrame
    <3>3. CASE s = c /\ j # k
      <4>1. \E r \in 1 .. Len(Tail(up[c])) : Tail(up[c])[r] = InputFrame(c, j)
        BY <1>2, <2>4, <3>3
      <4>2. \E r \in 1 .. Len(up'[s]) : up'[s][r] = InputFrame(s, j)
        BY <1>1, <3>3, <4>1
      <4> QED BY <4>2 DEF Ahead, InputFrame
    <3> QED BY <3>1, <3>2, <3>3
  <2> QED BY <1>1, <2>1, <2>3, <2>4 DEF Accounted
<1>5. \A m \in Seats : ~dropped'[m] => \A s \in Peers(m) : tick'[m] <= wm[m][s] + 1
  BY <1>1 DEF WmInv
<1> QED BY <1>n, <1>1, <1>4, <1>5, TypeNext, WmKept

LEMMA WmRecv ==
  ASSUME DelayFits, TypeOK, DownInv, WmInv, SkewInv, NEW c \in Seats, Recv(c)
  PROVE  WmInv'
<1>1. /\ UNCHANGED <<tick, up, room, lost>> /\ \A s \in Seats : Sent(s)' = Sent(s)
  BY SentEnterPass DEF Recv
<1>2. ASSUME NEW s, NEW j, Ahead(s, j) PROVE Ahead(s, j)'
  BY <1>1, <1>2 DEF Ahead, InputFrame
<1> SUFFICES ASSUME NEW m \in Seats, ~dropped'[m], NEW s \in Peers(m)
             PROVE  /\ wm'[m][s] >= D - 1 /\ wm'[m][s] <= Sent(s)
                    /\ tick[m] <= wm'[m][s] + 1
                    /\ Before(wm'[m][s], up[s])
                    /\ m \in room /\ s \in room =>
                         \A k \in wm'[m][s] + 1 .. Sent(s) : Accounted(m, s, k)'
  BY <1>1 DEF WmInv, Peers, Before, Accounted
<1>3. s \in Seats /\ s # m /\ ~dropped[m]
  BY RecvOthers DEF Peers
<1>4. /\ wm[m][s] >= D - 1 /\ wm[m][s] <= Sent(s) /\ tick[m] <= wm[m][s] + 1
      /\ Before(wm[m][s], up[s])
      /\ m \in room /\ s \in room => \A k \in wm[m][s] + 1 .. Sent(s) : Accounted(m, s, k)
  BY <1>3 DEF WmInv
<1>5. CASE m # c
  <2>1. wm'[m] = wm[m] /\ down'[m] = down[m]
    BY <1>5, RecvOthers
  <2>2. ASSUME NEW j, Accounted(m, s, j) PROVE Accounted(m, s, j)'
    <3>1. ASSUME Coming(m, s, j) PROVE Coming(m, s, j)'
      BY <2>1, <3>1 DEF Coming, InputFrame
    <3> QED BY <1>1, <1>2, <2>2, <3>1 DEF Accounted
  <2> QED BY <1>4, <2>1, <2>2
<1>6. CASE m = c
  <2>1. PICK z \in Peers(c), n \in Nat :
           /\ Head(down[c]) = InputFrame(z, n) /\ wm[c][z] < n /\ n <= Sent(z)
           /\ Before(n, up[z]) /\ wm' = [wm EXCEPT ![c][z] = n]
    BY <1>6, RecvStores
  <2>2. z \in Seats /\ wm \in [Seats -> [Seats -> Nat]] /\ wm[c][z] \in Nat /\ wm[c][s] \in Nat
    BY <1>3 DEF Peers, TypeOK
  <2>3. ASSUME NEW j, Accounted(c, s, j), Head(down[c]) # InputFrame(s, j)
        PROVE  Accounted(c, s, j)'
    BY <1>1, <1>2, <2>3, StillComing DEF Accounted
  <2>4. CASE s # z
    <3>1. wm'[c][s] = wm[c][s]
      BY <2>1, <2>2, <2>4
    <3>2. \A j : Head(down[c]) # InputFrame(s, j)
      BY <2>1, <2>4, InputFields
    <3> QED BY <1>4, <1>6, <2>3, <3>1, <3>2
  <2>5. CASE s = z
    <3>1. wm'[c][s] = n
      BY <2>1, <2>2, <2>5
    <3>2. ASSUME c \in room, s \in room, NEW j \in n + 1 .. Sent(s)
          PROVE  Accounted(c, s, j)'
      <4>0. Sent(s) \in Int
        BY <1>3, Progress
      <4>1. j \in wm[c][s] + 1 .. Sent(s) /\ j # n
        BY <2>1, <2>2, <2>5, <4>0
      <4>2. Head(down[c]) # InputFrame(s, j)
        <5>1. InputFrame(s, j).tick = j /\ InputFrame(z, n).tick = n
          BY InputFields
        <5> QED BY <2>1, <4>1, <5>1
      <4> QED BY <1>4, <1>6, <2>3, <3>2, <4>1, <4>2
    <3>3. n >= D - 1 /\ tick[c] <= n + 1
      <4>1. tick[c] \in Nat
        BY Progress
      <4> QED BY <1>4, <1>6, <2>1, <2>2, <2>5, <4>1, Widths
    <3> QED BY <1>6, <2>1, <2>5, <3>1, <3>2, <3>3
  <2> QED BY <2>4, <2>5
<1> QED BY <1>5, <1>6

(* What an open gate promises: the inputs of every seat for this tick, but *)
(* for those lost.                                                         *)
LEMMA OpenGate ==
  ASSUME TypeOK, WmInv, NEW c \in Seats, ~dropped[c], GateOpen(c), NEW s \in Peers(c)
  PROVE  wm[c][s] >= tick[c]
<1>1. s \in Seats
  BY DEF Peers
<1>2. wm[c][s] \in Nat /\ tick[c] \in Nat
  BY <1>1 DEF TypeOK
<1>3. tick[c] <= wm[c][s] + 1
  BY DEF WmInv
<1>4. ~Behind(wm[c][s], tick[c])
  BY DEF GateOpen
<1>5. wm[c][s] # tick[c] - 1
  BY <1>2, <1>4, OneShortIsBehind
<1> QED BY <1>2, <1>3, <1>5

(* The steps of the console and the room that are not about a frame.       *)
LEMMA WmRest ==
  ASSUME TypeOK, WmInv, NEW x \in Seats,
         \/ EnterPass(x) \/ Park(x) \/ Capture(x) \/ CaptureLost(x) \/ RunTick(x)
         \/ Timeout(x) \/ Discard(x) \/ RelayDrop(x)
  PROVE  WmInv'
<1>n. Next
  BY DEF Next
<1>1. ASSUME NEW c \in Seats, ~dropped'[c]
      PROVE  /\ ~dropped[c] /\ wm'[c] = wm[c]
             /\ \A s \in Peers(c) : tick'[c] <= wm[c][s] + 1
  <2>1. ~dropped[c] /\ wm'[c] = wm[c]
    BY <1>1, Survivors
  <2>2. ASSUME NEW s \in Peers(c) PROVE tick'[c] <= wm[c][s] + 1
    <3>1. tick[c] <= wm[c][s] + 1
      BY <2>1 DEF WmInv
    <3>2. CASE tick'[c] = tick[c]
      BY <3>1, <3>2
    <3>3. CASE tick'[c] # tick[c]
      <4>1. x = c /\ RunTick(c)
        BY <3>3 DEF EnterPass, Park, Capture, CaptureLost, RunTick, Timeout, Discard,
                    RelayDrop, console, TypeOK
      <4>2. GateOpen(c) /\ tick'[c] = tick[c] + 1
        BY <4>1 DEF RunTick, TypeOK
      <4>3. wm[c][s] >= tick[c]
        BY <2>1, <4>2, OpenGate
      <4>4. s \in Seats
        BY DEF Peers
      <4>5. wm[c][s] \in Nat /\ tick[c] \in Nat
        BY <4>4 DEF TypeOK
      <4> QED BY <4>2, <4>3, <4>5
    <3> QED BY <3>2, <3>3
  <2> QED BY <2>1, <2>2
<1>2. room' \subseteq room /\ lost \subseteq lost'
  BY LostGrows, <1>n DEF EnterPass, Park, Capture, CaptureLost, RunTick, Timeout, Discard,
                         RelayDrop
<1>3. ASSUME NEW m \in room', NEW s \in room', NEW j \in Int, s # m, j <= Sent(s)',
             Accounted(m, s, j) \/ Sent(s) < j
      PROVE  Accounted(m, s, j)'
  <2>0. ~RelayDrop(x) /\ m \in Seats /\ s \in Seats
    BY <1>2 DEF RelayDrop, TypeOK
  <2>1. down' = down
    BY <2>0 DEF EnterPass, Park, Capture, CaptureLost, RunTick, Timeout, Discard
  <2>2. Coming(m, s, j) => Coming(m, s, j)'
    BY <2>1 DEF Coming, InputFrame
  <2>3. Sent(s) \in Int /\ Sent(s)' \in Int
    BY <1>n, <2>0, SentGrows
  <2>4. ASSUME Ahead(s, j) PROVE Ahead(s, j)'
    <3>1. CASE up'[s] = up[s]
      BY <2>4, <3>1 DEF Ahead, InputFrame
    <3>2. CASE Capture(s)
      <4>1. PICK p \in 1 .. Len(up[s]) : up[s][p] = InputFrame(s, j)
        BY <2>4 DEF Ahead
      <4>2. p \in 1 .. Len(up'[s]) /\ up'[s][p] = InputFrame(s, j)
        BY <2>0, <3>2, <4>1, UpCapture, AppendFacts
      <4>3. \E r \in 1 .. Len(up'[s]) : up'[s][r] = InputFrame(s, j)
        BY <4>2
      <4> QED BY <4>3 DEF Ahead, InputFrame
    <3> QED BY <2>0, <3>1, <3>2
            DEF EnterPass, Park, Capture, CaptureLost, RunTick, Timeout, Discard, TypeOK
  <2>5. ASSUME Sent(s) < j PROVE Ahead(s, j)' \/ <<s, j>> \in lost'
    <3>1. Sent(s)' # Sent(s)
      BY <1>3, <2>3, <2>5
    <3>2. s = x /\ (Capture(x) \/ CaptureLost(x))
      BY <2>0, <3>1, SentEnterPass, SentRunTick, SentCapture, SentRelay
    <3>3. j = tick[s] + D
      BY <1>3, <2>3, <2>5, <3>2, SentCapture
    <3>4. CASE Capture(s)
      <4>1. /\ up[s] \in Seq(Frame) /\ InputFrame(s, j) \in Frame
            /\ up'[s] = Append(up[s], InputFrame(s, j))
        BY <2>0, <3>3, <3>4, UpCapture
      <4>2. Len(up[s]) + 1 \in 1 .. Len(up'[s]) /\ up'[s][Len(up[s]) + 1] = InputFrame(s, j)
        BY <4>1, AppendFacts
      <4>3. \E r \in 1 .. Len(up'[s]) : up'[s][r] = InputFrame(s, j)
        BY <4>2
      <4> QED BY <4>3 DEF Ahead, InputFrame
    <3>5. CASE CaptureLost(s)
      BY <3>3, <3>5 DEF CaptureLost
    <3> QED BY <3>2, <3>4, <3>5
  <2> QED BY <1>2, <1>3, <2>2, <2>4, <2>5 DEF Accounted
<1> QED BY <1>n, <1>1, <1>2, <1>3, TypeNext, WmKept

-----------------------------------------------------------------------------
(* RingInv: the page behind a watermark.                                   *)

(* Storing a later tick takes the slot of the tick a page before it; the   *)
(* lost ticks it steps over keep whatever their slots held.                *)
LEMMA HoldsNext ==
  ASSUME NEW c \in Seats, NEW s \in Seats, NEW page \in [0 .. BYTE - 1 -> Int],
         NEW last \in Int, NEW next \in Int, last < next, next >= D,
         \A j \in last + 1 .. next - 1 : s # c /\ <<s, j>> \in lost,
         Holds(page, c, s, last)
  PROVE  Holds([page EXCEPT ![Slot(next)] = next], c, s, next)
<1> DEFINE new == [page EXCEPT ![Slot(next)] = next]
<1> SUFFICES ASSUME NEW k \in next - BYTE + 1 .. next
             PROVE  Replayed(c, s, k, new[Slot(k)])
  BY DEF Holds
<1>1. k \in Int
  BY Widths
<1>2. Slot(k) \in 0 .. BYTE - 1 /\ Slot(next) \in 0 .. BYTE - 1
  BY <1>1, SlotRange
<1>3. CASE k = next
  <2>1. ~(next < D)
    BY Widths
  <2>2. new[Slot(k)] = next
    BY <1>2, <1>3
  <2> QED BY <1>3, <2>1, <2>2 DEF Replayed, Captured
<1>4. CASE k # next /\ k > last
  <2>1. k \in last + 1 .. next - 1
    BY <1>1, <1>4
  <2> QED BY <2>1 DEF Replayed
<1>5. CASE k # next /\ k <= last
  <2>1. k < next /\ next < k + BYTE /\ k \in last - BYTE + 1 .. last
    BY <1>1, <1>5, Widths
  <2>2. Slot(k) # Slot(next)
    BY <1>1, <2>1, SlotDistinct
  <2>3. new[Slot(k)] = page[Slot(k)]
    BY <1>2, <2>2
  <2> QED BY <2>1, <2>3 DEF Holds
<1> QED BY <1>1, <1>3, <1>4, <1>5

(* A page that does not change holds what it held: losses only add.        *)
LEMMA HoldsStill ==
  ASSUME Next, NEW c, NEW s, NEW page, NEW last, Holds(page, c, s, last)
  PROVE  \A k \in last - BYTE + 1 .. last :
           page[Slot(k)] = Captured(k) \/ (s # c /\ <<s, k>> \in lost')
BY LostGrows DEF Holds, Replayed

LEMMA RingIs ==
  ASSUME \A c \in Seats : ~dropped'[c] =>
           /\ \A k \in Sent(c)' - BYTE + 1 .. Sent(c)' :
                ring'[c][c][Slot(k)] = Captured(k)
           /\ \A s \in Peers(c) : \A k \in wm'[c][s] - BYTE + 1 .. wm'[c][s] :
                ring'[c][s][Slot(k)] = Captured(k) \/ (s # c /\ <<s, k>> \in lost')
  PROVE  RingInv'
BY DEF RingInv, Holds, Replayed, Captured, Slot, Peers

LEMMA RingKept ==
  ASSUME RingInv, Next, \A s \in Seats : Sent(s)' = Sent(s),
         \A c \in Seats : ~dropped'[c] => ~dropped[c] /\ ring'[c] = ring[c] /\ wm'[c] = wm[c]
  PROVE  RingInv'
<1>1. ASSUME NEW c \in Seats, ~dropped'[c]
      PROVE  /\ \A k \in Sent(c)' - BYTE + 1 .. Sent(c)' :
                  ring'[c][c][Slot(k)] = Captured(k)
             /\ \A s \in Peers(c) : \A k \in wm'[c][s] - BYTE + 1 .. wm'[c][s] :
                  ring'[c][s][Slot(k)] = Captured(k) \/ (s # c /\ <<s, k>> \in lost')
  <2>1. /\ ~dropped[c] /\ ring'[c] = ring[c] /\ wm'[c] = wm[c] /\ Sent(c)' = Sent(c)
    BY <1>1
  <2>2. /\ Holds(ring[c][c], c, c, Sent(c))
        /\ \A s \in Peers(c) : Holds(ring[c][s], c, s, wm[c][s])
    BY <2>1 DEF RingInv
  <2>3. \A k \in Sent(c) - BYTE + 1 .. Sent(c) : ring[c][c][Slot(k)] = Captured(k)
    BY <2>2 DEF Holds, Replayed
  <2>4. ASSUME NEW s \in Peers(c)
        PROVE  \A k \in wm[c][s] - BYTE + 1 .. wm[c][s] :
                  ring[c][s][Slot(k)] = Captured(k) \/ (s # c /\ <<s, k>> \in lost')
    BY <2>2, HoldsStill
  <2> QED BY <2>1, <2>3, <2>4
<1> QED BY <1>1, RingIs

LEMMA RingCapture ==
  ASSUME TypeOK, RingInv, NEW x \in Seats, Capture(x) \/ CaptureLost(x)
  PROVE  RingInv'
<1> DEFINE t == tick[x] + D
<1>1. /\ UNCHANGED <<wm, dropped>> /\ ring' = [ring EXCEPT ![x][x][Slot(t)] = t]
      /\ ring \in [Seats -> [Seats -> [0 .. BYTE - 1 -> Int]]]
  BY DEF Capture, CaptureLost, TypeOK
<1>2. /\ Sent(x) \in Int /\ Sent(x)' = t /\ Sent(x) + 1 = t /\ t \in Int /\ t >= D
      /\ \A c \in Seats \ {x} : Sent(c)' = Sent(c)
  <2>1. tick[x] \in Nat
    BY DEF TypeOK
  <2>2. /\ Sent(x) \in Int /\ Sent(x)' = Sent(x) + 1 /\ Sent(x)' = t
        /\ \A c \in Seats \ {x} : Sent(c)' = Sent(c)
    BY SentCapture, Progress
  <2> QED BY <2>1, <2>2, Widths
<1>n. Next
  BY DEF Next
<1> HIDE DEF t
<1>3. ASSUME NEW c \in Seats, ~dropped'[c]
      PROVE  /\ \A k \in Sent(c)' - BYTE + 1 .. Sent(c)' :
                  ring'[c][c][Slot(k)] = Captured(k)
             /\ \A s \in Peers(c) : \A k \in wm'[c][s] - BYTE + 1 .. wm'[c][s] :
                  ring'[c][s][Slot(k)] = Captured(k) \/ (s # c /\ <<s, k>> \in lost')
  <2>1. /\ Holds(ring[c][c], c, c, Sent(c))
        /\ \A s \in Peers(c) : Holds(ring[c][s], c, s, wm[c][s])
    BY <1>1, <1>3 DEF RingInv
  <2>2. \A s \in Peers(c) : ring'[c][s] = ring[c][s] /\ wm'[c] = wm[c]
    BY <1>1 DEF Peers
  <2>3. ASSUME NEW s \in Peers(c)
        PROVE  \A k \in wm[c][s] - BYTE + 1 .. wm[c][s] :
                  ring[c][s][Slot(k)] = Captured(k) \/ (s # c /\ <<s, k>> \in lost')
    BY <1>n, <2>1, HoldsStill
  <2>4. Holds(ring'[c][c], c, c, Sent(c)')
    <3>1. CASE c # x
      <4>1. ring'[c][c] = ring[c][c] /\ Sent(c)' = Sent(c)
        BY <1>1, <1>2, <3>1
      <4> QED BY <2>1, <4>1
    <3>2. CASE c = x
      <4>1. /\ ring'[c][c] = [ring[c][c] EXCEPT ![Slot(t)] = t]
            /\ ring[c][c] \in [0 .. BYTE - 1 -> Int]
        BY <1>1, <3>2
      <4>2. \A j \in Sent(c) + 1 .. t - 1 : c # c /\ <<c, j>> \in lost
        BY <1>2, <3>2
      <4>3. Sent(c) \in Int /\ Sent(c) < t
        BY <1>2, <3>2
      <4>4. Holds([ring[c][c] EXCEPT ![Slot(t)] = t], c, c, t)
        BY <1>2, <2>1, <4>1, <4>2, <4>3, HoldsNext
      <4> QED BY <1>2, <3>2, <4>1, <4>4
    <3> QED BY <3>1, <3>2
  <2>5. \A k \in Sent(c)' - BYTE + 1 .. Sent(c)' : ring'[c][c][Slot(k)] = Captured(k)
    BY <2>4 DEF Holds, Replayed
  <2> QED BY <2>2, <2>3, <2>5
<1> QED BY <1>3, RingIs

LEMMA RingRecv ==
  ASSUME DelayFits, TypeOK, DownInv, WmInv, RingInv, SkewInv, NEW x \in Seats, Recv(x)
  PROVE  RingInv'
<1>1. \A s \in Seats : Sent(s)' = Sent(s)
  BY SentEnterPass
<1>n. Next
  BY DEF Next
<1>2. CASE dropped'[x]
  <2>1. \A c \in Seats : ~dropped'[c] => ~dropped[c] /\ ring'[c] = ring[c] /\ wm'[c] = wm[c]
    BY <1>2, RecvOthers
  <2> QED BY <1>1, <1>n, <2>1, RingKept
<1>3. CASE ~dropped'[x]
  <2>1. PICK z \in Peers(x), n \in Nat :
           /\ ~dropped[x] /\ wm[x][z] < n
           /\ \A j \in wm[x][z] + 1 .. n - 1 : <<z, j>> \in lost
           /\ wm' = [wm EXCEPT ![x][z] = n]
           /\ ring' = [ring EXCEPT ![x][z][Slot(n)] = n]
    BY <1>3, RecvStores
  <2>2. z \in Seats /\ z # x
    BY DEF Peers
  <2>3. /\ ring \in [Seats -> [Seats -> [0 .. BYTE - 1 -> Int]]]
        /\ wm \in [Seats -> [Seats -> Nat]] /\ wm[x][z] \in Nat
    BY <2>2 DEF TypeOK
  <2>4. ASSUME NEW c \in Seats, ~dropped'[c]
        PROVE  /\ Holds(ring'[c][c], c, c, Sent(c))
               /\ \A s \in Peers(c) : Holds(ring'[c][s], c, s, wm'[c][s])
    <3>1. ~dropped[c]
      BY <2>4, RecvOthers
    <3>2. /\ Holds(ring[c][c], c, c, Sent(c))
          /\ \A s \in Peers(c) : Holds(ring[c][s], c, s, wm[c][s])
      BY <3>1 DEF RingInv
    <3>3. CASE c # x
      <4>1. ring'[c] = ring[c] /\ wm'[c] = wm[c]
        BY <3>3, RecvOthers
      <4> QED BY <3>2, <4>1
    <3>4. CASE c = x
      <4>1. \A s \in Seats \ {z} : ring'[c][s] = ring[c][s] /\ wm'[c][s] = wm[c][s]
        BY <2>1, <2>2, <2>3, <3>4
      <4>2. Holds(ring'[c][z], c, z, wm'[c][z])
        <5>1. /\ ring'[c][z] = [ring[c][z] EXCEPT ![Slot(n)] = n]
              /\ wm'[c][z] = n
              /\ ring[c][z] \in [0 .. BYTE - 1 -> Int] /\ wm[c][z] \in Nat
          BY <2>1, <2>2, <2>3, <3>4
        <5>2. n >= D /\ z # c /\ wm[c][z] < n /\ wm[c][z] \in Int /\ n \in Int
          <6>1. wm[c][z] >= D - 1
            BY <2>1, <3>1, <3>4 DEF WmInv
          <6> QED BY <2>1, <2>2, <3>4, <5>1, <6>1, Widths
        <5>3. Holds(ring[c][z], c, z, wm[c][z])
          BY <3>2, <3>4
        <5>4. \A j \in wm[c][z] + 1 .. n - 1 : z # c /\ <<z, j>> \in lost
          BY <2>1, <2>2, <3>4
        <5>5. Holds([ring[c][z] EXCEPT ![Slot(n)] = n], c, z, n)
          BY <2>2, <5>1, <5>2, <5>3, <5>4, HoldsNext
        <5> QED BY <5>1, <5>5
      <4>3. ASSUME NEW s \in Peers(c) PROVE Holds(ring'[c][s], c, s, wm'[c][s])
        <5>1. CASE s = z
          BY <4>2, <5>1
        <5>2. CASE s # z
          BY <3>2, <4>1, <5>2 DEF Peers
        <5> QED BY <5>1, <5>2
      <4>4. ring'[c][c] = ring[c][c]
        BY <2>2, <3>4, <4>1
      <4> QED BY <3>2, <4>3, <4>4
    <3> QED BY <3>3, <3>4
  <2>5. ASSUME NEW c \in Seats, ~dropped'[c]
        PROVE  /\ \A k \in Sent(c)' - BYTE + 1 .. Sent(c)' :
                    ring'[c][c][Slot(k)] = Captured(k)
               /\ \A s \in Peers(c) : \A k \in wm'[c][s] - BYTE + 1 .. wm'[c][s] :
                    ring'[c][s][Slot(k)] = Captured(k) \/ (s # c /\ <<s, k>> \in lost')
    <3>1. /\ Holds(ring'[c][c], c, c, Sent(c)) /\ Sent(c)' = Sent(c)
          /\ \A s \in Peers(c) : Holds(ring'[c][s], c, s, wm'[c][s])
      BY <1>1, <2>4, <2>5
    <3>2. \A k \in Sent(c) - BYTE + 1 .. Sent(c) : ring'[c][c][Slot(k)] = Captured(k)
      BY <3>1 DEF Holds, Replayed
    <3>3. ASSUME NEW s \in Peers(c)
          PROVE  \A k \in wm'[c][s] - BYTE + 1 .. wm'[c][s] :
                    ring'[c][s][Slot(k)] = Captured(k) \/ (s # c /\ <<s, k>> \in lost')
      BY <1>n, <3>1, HoldsStill
    <3> QED BY <3>1, <3>2, <3>3
  <2> QED BY <2>5, RingIs
<1> QED BY <1>2, <1>3
-----------------------------------------------------------------------------
(* SkewInv: what the gate bounds.                                          *)

LEMMA SkewKept ==
  ASSUME SkewInv, tick' = tick, \A s \in Seats : Sent(s)' = Sent(s),
         \A s \in Seats : ~dropped'[s] => ~dropped[s],
         \A s \in Seats : pc'[s] = "top" => ~dropped[s] \/ pc[s] = "top"
  PROVE  SkewInv'
<1> SUFFICES ASSUME NEW c \in Seats, NEW s \in Seats
             PROVE  /\ ~dropped'[s] \/ pc'[s] = "top" => tick'[s] <= Sent(c)' + 1
                    /\ ~dropped'[c] => Sent(s)' <= tick'[c] + 2 * D + 1
  BY DEF SkewInv
<1> QED BY DEF SkewInv

LEMMA SkewCapture ==
  ASSUME TypeOK, SkewInv, NEW x \in Seats, Capture(x) \/ CaptureLost(x)
  PROVE  SkewInv'
<1>1. UNCHANGED <<dropped, tick>> /\ pc[x] = "top" /\ pc' = [pc EXCEPT ![x] = "gate"]
  BY DEF Capture, CaptureLost
<1>2. /\ Sent(x)' = Sent(x) + 1 /\ Sent(x)' = tick[x] + D
      /\ \A s \in Seats \ {x} : Sent(s)' = Sent(s)
  BY SentCapture
<1> SUFFICES ASSUME NEW c \in Seats, NEW s \in Seats
             PROVE  /\ ~dropped[s] \/ pc'[s] = "top" => tick[s] <= Sent(c)' + 1
                    /\ ~dropped[c] => Sent(s)' <= tick[c] + 2 * D + 1
  BY <1>1 DEF SkewInv
<1>3. /\ ~dropped[s] \/ pc[s] = "top" => tick[s] <= Sent(c) + 1
      /\ ~dropped[c] => Sent(s) <= tick[c] + 2 * D + 1
  BY DEF SkewInv
<1>4. tick[s] \in Nat /\ tick[c] \in Nat /\ Sent(c) \in Int /\ Sent(c)' >= Sent(c)
  <2>1. tick[s] \in Nat /\ tick[c] \in Nat /\ Sent(c) \in Int
    BY Progress
  <2> QED BY <1>2, <2>1
<1>5. pc'[s] = "top" => pc[s] = "top"
  BY <1>1 DEF TypeOK
<1>6. ASSUME ~dropped[s] \/ pc'[s] = "top" PROVE tick[s] <= Sent(c)' + 1
  <2>1. Sent(c)' \in Int /\ tick[s] <= Sent(c) + 1
    <3>1. Sent(c)' = Sent(c) \/ Sent(c)' = Sent(c) + 1
      BY <1>2
    <3> QED BY <1>3, <1>4, <1>5, <1>6, <3>1
  <2> QED BY <1>4, <2>1
<1>7. ASSUME ~dropped[c] PROVE Sent(s)' <= tick[c] + 2 * D + 1
  <2>1. CASE s # x
    BY <1>2, <1>3, <1>7, <2>1
  <2>2. CASE s = x
    <3>1. tick[x] <= Sent(c) + 1
      BY <1>1, <1>3, <2>2
    <3>2. Sent(c) <= tick[c] + D
      BY Progress
    <3> QED BY <1>2, <1>4, <2>2, <3>1, <3>2, Widths
  <2> QED BY <2>1, <2>2
<1> QED BY <1>6, <1>7

LEMMA SkewRunTick ==
  ASSUME TypeOK, WmInv, SkewInv, NEW x \in Seats, RunTick(x)
  PROVE  SkewInv'
<1>1. /\ UNCHANGED dropped /\ GateOpen(x) /\ AtGate(x)
      /\ pc' = [pc EXCEPT ![x] = "entry"]
      /\ tick'[x] = tick[x] + 1 /\ \A s \in Seats \ {x} : tick'[s] = tick[s]
  BY DEF RunTick, TypeOK
<1>2. \A s \in Seats : Sent(s)' = Sent(s)
  BY SentRunTick
<1> SUFFICES ASSUME NEW c \in Seats, NEW s \in Seats
             PROVE  /\ ~dropped[s] \/ pc'[s] = "top" => tick'[s] <= Sent(c) + 1
                    /\ ~dropped[c] => Sent(s) <= tick'[c] + 2 * D + 1
  BY <1>1, <1>2 DEF SkewInv
<1>3. /\ ~dropped[s] \/ pc[s] = "top" => tick[s] <= Sent(c) + 1
      /\ ~dropped[c] => Sent(s) <= tick[c] + 2 * D + 1
  BY DEF SkewInv
<1>4. tick[s] \in Nat /\ tick[c] \in Nat /\ Sent(c) \in Int /\ Sent(s) \in Int
  BY Progress
<1>5. ASSUME ~dropped[c] PROVE Sent(s) <= tick'[c] + 2 * D + 1
  <2>1. tick'[c] = tick[c] \/ tick'[c] = tick[c] + 1
    BY <1>1
  <2> QED BY <1>3, <1>4, <1>5, <2>1, Widths
<1>6. CASE s # x
  <2>1. tick'[s] = tick[s] /\ pc'[s] = pc[s]
    BY <1>1, <1>6 DEF TypeOK
  <2> QED BY <1>3, <1>5, <2>1
<1>7. CASE s = x
  <2>1. pc'[s] = "entry"
    BY <1>1, <1>7 DEF TypeOK
  <2>2. ASSUME ~dropped[s] PROVE tick[s] <= Sent(c)
    <3>1. CASE c = s
      <4>1. Sent(s) = tick[s] + D
        BY <1>1, <1>4, <1>7, Progress, Widths
      <4> QED BY <1>4, <3>1, <4>1, Widths
    <3>2. CASE c # s
      <4>1. c \in Peers(s)
        BY <3>2 DEF Peers
      <4>2. wm[s][c] >= tick[s] /\ wm[s][c] <= Sent(c)
        BY <1>1, <1>7, <2>2, <4>1, OpenGate DEF WmInv
      <4>3. wm[s][c] \in Nat
        BY DEF TypeOK
      <4> QED BY <1>4, <4>2, <4>3
    <3> QED BY <3>1, <3>2
  <2>3. ASSUME ~dropped[s] PROVE tick'[s] <= Sent(c) + 1
    BY <1>1, <1>4, <1>7, <2>2, <2>3
  <2> QED BY <1>5, <2>1, <2>3
<1> QED BY <1>6, <1>7

-----------------------------------------------------------------------------
(* InputAgreement: the slots a tick reads are still those of its window.   *)

LEMMA AgreementRunTick ==
  ASSUME DelayFits, TypeOK, WmInv, RingInv, SkewInv, InputAgreement,
         NEW x \in Seats, RunTick(x)
  PROVE  InputAgreement'
<1>1. /\ UNCHANGED <<dropped, lost>> /\ GateOpen(x) /\ AtGate(x)
      /\ \A s \in Seats :
           used'[x][s] = [now    |-> ring[x][s][Slot(tick[x])],
                          before |-> ring[x][s][Slot(tick[x] - 1)]]
      /\ \A c \in Seats \ {x} : used'[c] = used[c] /\ tick'[c] = tick[c]
      /\ tick'[x] = tick[x] + 1
  BY DEF RunTick, TypeOK
<1> SUFFICES ASSUME NEW c \in Seats, NEW s \in Seats, ~dropped[c], tick'[c] > 0
             PROVE  /\ Replayed(c, s, tick'[c] - 1, used'[c][s].now)
                    /\ Replayed(c, s, tick'[c] - 2, used'[c][s].before)
  BY <1>1 DEF InputAgreement, Captured, Replayed
<1>2. CASE c # x
  BY <1>1, <1>2 DEF InputAgreement
<1>3. CASE c = x
  <2> DEFINE t == tick[x]
             page == ring[x][s]
  <2>1. t \in Nat
    BY Progress
  <2>2. ASSUME NEW last \in Int, t <= last, last <= t + 2 * D + 1, Holds(page, x, s, last)
        PROVE  Replayed(x, s, t, page[Slot(t)]) /\ Replayed(x, s, t - 1, page[Slot(t - 1)])
    <3>1. t \in last - BYTE + 1 .. last /\ t - 1 \in last - BYTE + 1 .. last
      BY <2>1, <2>2, DelayWidths
    <3> QED BY <2>2, <3>1 DEF Holds
  <2>3. ASSUME s = x
        PROVE  Replayed(x, s, t, page[Slot(t)]) /\ Replayed(x, s, t - 1, page[Slot(t - 1)])
    <3>1. Sent(x) = t + D
      BY <1>1, <2>1, Progress, Widths
    <3>2. Holds(page, x, s, Sent(x))
      BY <1>3, <2>3 DEF RingInv
    <3>3. Sent(x) \in Int /\ t <= Sent(x) /\ Sent(x) <= t + 2 * D + 1
      BY <2>1, <3>1, Widths
    <3> QED BY <2>2, <3>2, <3>3
  <2>4. ASSUME s # x
        PROVE  Replayed(x, s, t, page[Slot(t)]) /\ Replayed(x, s, t - 1, page[Slot(t - 1)])
    <3>1. s \in Peers(x)
      BY <2>4 DEF Peers
    <3>2. Holds(page, x, s, wm[x][s])
      BY <1>3, <3>1 DEF RingInv
    <3>3. wm[x][s] >= t /\ wm[x][s] <= Sent(s)
      BY <1>1, <1>3, <3>1, OpenGate DEF WmInv
    <3>4. Sent(s) \in Int /\ wm[x][s] \in Nat
      <4>1. wm[x][s] \in Nat
        BY DEF TypeOK
      <4> QED BY <4>1, Progress
    <3>5. Sent(s) <= t + 2 * D + 1
      BY <1>3 DEF SkewInv
    <3>6. wm[x][s] \in Int /\ wm[x][s] <= t + 2 * D + 1
      BY <2>1, <3>3, <3>4, <3>5, Widths
    <3> QED BY <2>2, <3>2, <3>3, <3>6
  <2>5. Replayed(x, s, t, page[Slot(t)]) /\ Replayed(x, s, t - 1, page[Slot(t - 1)])
    BY <2>3, <2>4
  <2>6. tick'[c] - 1 = t /\ tick'[c] - 2 = t - 1
    BY <1>1, <1>3, <2>1
  <2>7. used'[c][s].now = page[Slot(t)] /\ used'[c][s].before = page[Slot(t - 1)]
    <3>1. used'[x][s] = [now |-> page[Slot(t)], before |-> page[Slot(t - 1)]]
      BY <1>1
    <3> HIDE DEF page, t
    <3> QED BY <1>3, <3>1
  <2> HIDE DEF t, page
  <2> QED BY <1>3, <2>5, <2>6, <2>7
<1> QED BY <1>2, <1>3

(* Nobody else touches what the last tick read.                            *)
LEMMA AgreementKept ==
  ASSUME InputAgreement, UNCHANGED <<tick, used>>, lost \subseteq lost',
         \A c \in Seats : ~dropped'[c] => ~dropped[c]
  PROVE  InputAgreement'
BY DEF InputAgreement, Captured, Replayed

-----------------------------------------------------------------------------
(* The invariant.                                                          *)

LEMMA InvInit == DelayFits /\ Init => IInv
<1> SUFFICES ASSUME DelayFits, Init PROVE IInv
  OBVIOUS
<1>1. TypeOK
  BY TypeInit
<1>2. (D - 1) % BYTE = D - 1
  BY DelayWidths
<1>3. \A c, s \in Seats : wm[c][s] = D - 1
  BY <1>2 DEF Init
<1>4. \A s \in Seats : up[s] = <<>> /\ down[s] = <<>> /\ tick[s] = 0 /\ ~AtGate(s)
  BY DEF Init, AtGate
<1>5. \A s \in Seats : Sent(s) = D - 1
  BY <1>4, Widths DEF Sent
<1>6. UpInv
  BY <1>4 DEF UpInv, InOrder
<1>7. DownInv
  BY <1>4 DEF DownInv, InOrder
<1>8. WmInv
  <2> SUFFICES ASSUME NEW c \in Seats, NEW s \in Peers(c)
               PROVE  /\ wm[c][s] >= D - 1 /\ wm[c][s] <= Sent(s)
                      /\ tick[c] <= wm[c][s] + 1 /\ Before(wm[c][s], up[s])
                      /\ \A k \in wm[c][s] + 1 .. Sent(s) : Accounted(c, s, k)
    BY DEF WmInv
  <2>1. s \in Seats
    BY DEF Peers
  <2> QED BY <1>3, <1>4, <1>5, <2>1, DelayWidths DEF Before
<1>9. RingInv
  <2>1. ASSUME NEW k \in (D - 1) - BYTE + 1 .. D - 1, NEW c \in Seats, NEW s \in Seats
        PROVE  ring[c][s][Slot(k)] = Captured(k)
    <3>1. k \in Int /\ k < D
      BY Widths
    <3>2. Slot(k) \in 0 .. BYTE - 1
      BY <3>1, SlotRange
    <3>3. ring[c][s][Slot(k)] = Idle
      BY <3>2 DEF Init, IdleRings
    <3> QED BY <3>1, <3>3 DEF Captured
  <2>2. \A c, s \in Seats : Holds(ring[c][s], c, s, D - 1)
    BY <2>1 DEF Holds, Replayed
  <2> QED BY <1>3, <1>5, <2>2 DEF RingInv, Peers
<1>10. SkewInv
  <2> SUFFICES ASSUME NEW c \in Seats, NEW s \in Seats
               PROVE  tick[s] <= Sent(c) + 1 /\ Sent(s) <= tick[c] + 2 * D + 1
    BY DEF SkewInv
  <2>1. tick[s] = 0 /\ tick[c] = 0 /\ Sent(s) = D - 1 /\ Sent(c) = D - 1
    BY <1>4, <1>5
  <2> QED BY <2>1, Widths
<1>11. InputAgreement
  BY <1>4 DEF InputAgreement
<1> QED BY <1>1, <1>6, <1>7, <1>8, <1>9, <1>10, <1>11 DEF IInv

(* A step of a console that is not about a frame.                          *)
LEMMA InvEnterPass ==
  ASSUME IInv, TypeOK', NEW x \in Seats, EnterPass(x) \/ Park(x) \/ Timeout(x)
  PROVE  IInv'
<1>1. TypeOK /\ UpInv /\ DownInv /\ WmInv /\ RingInv /\ SkewInv /\ InputAgreement
  BY DEF IInv
<1>2. UNCHANGED <<tick, used, down, lost>> /\ Next
  BY DEF EnterPass, Park, Timeout, Next
<1>3. \A s \in Seats : Sent(s)' = Sent(s)
  BY <1>1, SentEnterPass
<1>6. \A m \in Seats : ~dropped'[m] => ~dropped[m] /\ wm'[m] = wm[m]
  BY <1>1, Survivors
<1>7. \A m \in Seats : ~dropped'[m] => ring'[m] = ring[m]
  BY <1>1 DEF EnterPass, Park, Timeout, GoIdle, TypeOK
<1>8. \A m \in Seats : pc'[m] = "top" => ~dropped[m] \/ pc[m] = "top"
  BY <1>1 DEF EnterPass, Park, Timeout, TypeOK
<1>9. UpInv' /\ DownInv'
  BY <1>1, <1>2, <1>6, UpNext, DownKept
<1>10. WmInv'
  BY <1>1, WmRest
<1>11. RingInv'
  BY <1>1, <1>2, <1>3, <1>6, <1>7, RingKept
<1>12. SkewInv'
  BY <1>1, <1>2, <1>3, <1>6, <1>8, SkewKept
<1>13. InputAgreement'
  BY <1>1, <1>2, <1>6, AgreementKept
<1> QED BY <1>9, <1>10, <1>11, <1>12, <1>13 DEF IInv

LEMMA InvRecv ==
  ASSUME DelayFits, IInv, TypeOK', NEW x \in Seats, Recv(x)
  PROVE  IInv'
<1>1. TypeOK /\ UpInv /\ DownInv /\ WmInv /\ RingInv /\ SkewInv /\ InputAgreement
  BY DEF IInv
<1>2. UNCHANGED <<tick, used, lost>> /\ Next
  BY DEF Recv, Next
<1>3. \A s \in Seats : Sent(s)' = Sent(s)
  BY <1>1, SentEnterPass
<1>5. \A m \in Seats : ~dropped'[m] => ~dropped[m]
  BY <1>1, RecvOthers
<1>6. \A m \in Seats : pc'[m] = "top" => ~dropped[m] \/ pc[m] = "top"
  BY <1>1 DEF Recv, TypeOK
<1>7. UpInv' /\ DownInv' /\ WmInv' /\ RingInv'
  BY <1>1, <1>2, UpNext, DownRecv, WmRecv, RingRecv
<1>8. SkewInv'
  BY <1>1, <1>2, <1>3, <1>5, <1>6, SkewKept
<1>9. InputAgreement'
  BY <1>1, <1>2, <1>5, AgreementKept
<1> QED BY <1>7, <1>8, <1>9 DEF IInv

LEMMA InvCapture ==
  ASSUME IInv, TypeOK', NEW x \in Seats, Capture(x) \/ CaptureLost(x)
  PROVE  IInv'
<1>1. TypeOK /\ UpInv /\ DownInv /\ WmInv /\ RingInv /\ SkewInv /\ InputAgreement
  BY DEF IInv
<1>2. UNCHANGED <<tick, used, down, dropped>> /\ Next
  BY DEF Capture, CaptureLost, Next
<1>5. DownInv'
  BY <1>1, <1>2, Survivors, DownKept
<1>6. UpInv' /\ WmInv' /\ RingInv' /\ SkewInv'
  BY <1>1, <1>2, UpNext, WmRest, RingCapture, SkewCapture
<1>7. InputAgreement'
  BY <1>1, <1>2, LostGrows, AgreementKept
<1> QED BY <1>5, <1>6, <1>7 DEF IInv

LEMMA InvRunTick ==
  ASSUME DelayFits, IInv, TypeOK', NEW x \in Seats, RunTick(x)
  PROVE  IInv'
<1>1. TypeOK /\ UpInv /\ DownInv /\ WmInv /\ RingInv /\ SkewInv /\ InputAgreement
  BY DEF IInv
<1>2. UNCHANGED <<down, wm, ring, dropped>> /\ Next
  BY DEF RunTick, Next
<1>3. \A s \in Seats : Sent(s)' = Sent(s)
  BY <1>1, SentRunTick
<1>6. UpInv' /\ DownInv'
  BY <1>1, <1>2, UpNext, DownKept
<1>7. WmInv' /\ SkewInv' /\ InputAgreement'
  BY <1>1, WmRest, SkewRunTick, AgreementRunTick
<1>8. RingInv'
  BY <1>1, <1>2, <1>3, RingKept
<1> QED BY <1>6, <1>7, <1>8 DEF IInv

(* The steps of the relay.                                                 *)
LEMMA InvRelay ==
  ASSUME IInv, TypeOK', NEW x \in Seats, Forward(x) \/ Discard(x) \/ RelayDrop(x)
  PROVE  IInv'
<1>1. TypeOK /\ UpInv /\ DownInv /\ WmInv /\ RingInv /\ SkewInv /\ InputAgreement
  BY DEF IInv
<1>2. UNCHANGED <<pc, tick, wm, ring, dropped, used, lost>> /\ Next
  BY DEF Forward, Discard, RelayDrop, console, Next
<1>3. \A s \in Seats : Sent(s)' = Sent(s)
  BY SentRelay
<1>5. DownInv'
  <2>1. CASE Forward(x)
    BY <1>1, <2>1, DownForward
  <2>2. CASE Discard(x)
    <3>1. down' = down
      BY <2>2 DEF Discard
    <3> QED BY <1>1, <1>2, <3>1, DownKept
  <2>3. CASE RelayDrop(x)
    BY <1>1, <2>3, DownDrop
  <2> QED BY <2>1, <2>2, <2>3
<1>6. UpInv' /\ WmInv'
  BY <1>1, <1>2, UpNext, WmForward, WmRest
<1>7. RingInv' /\ SkewInv' /\ InputAgreement'
  BY <1>1, <1>2, <1>3, RingKept, SkewKept, AgreementKept
<1> QED BY <1>5, <1>6, <1>7 DEF IInv

LEMMA InvStutter ==
  ASSUME IInv, UNCHANGED vars
  PROVE  IInv'
<1>1. UNCHANGED <<pc, tick, wm, ring, dropped, used, up, down, room, lost>>
  BY DEF vars
<1> USE DEF InputFrame, AtGate, Sent, Before, InOrder, Coming, Ahead, Captured, Slot, Peers
<1>2. TypeOK' /\ UpInv' /\ SkewInv'
  BY <1>1 DEF IInv, TypeOK, UpInv, SkewInv
<1>3. DownInv'
  <2>1. ASSUME NEW c \in Seats, NEW s \in Seats, NEW k \in Nat, Expected(c, s, k)
        PROVE  Expected(c, s, k)'
    BY <1>1, <2>1 DEF Expected
  <2>2. \A c \in Seats : Arrives(c)
    BY DownArrives DEF IInv, AllArrive
  <2>3. \A c \in Seats : Arrives(c)'
    BY <1>1, <2>1, <2>2 DEF Arrives
  <2> QED BY <1>2, <2>3, DownArrivesNext
<1>4. WmInv'
  BY <1>1 DEF IInv, WmInv, Accounted
<1>5. RingInv' /\ InputAgreement'
  BY <1>1 DEF IInv, RingInv, Holds, Replayed, InputAgreement
<1> QED BY <1>2, <1>3, <1>4, <1>5 DEF IInv

LEMMA InvNext == DelayFits /\ IInv /\ [Next]_vars => IInv'
<1> SUFFICES ASSUME DelayFits, IInv, [Next]_vars PROVE IInv'
  OBVIOUS
<1>1. TypeOK'
  BY TypeNext DEF IInv
<1>2. CASE UNCHANGED vars
  BY <1>1, <1>2, InvStutter
<1> QED
  BY <1>1, <1>2, InvEnterPass, InvRecv, InvCapture, InvRunTick, InvRelay DEF Next

-----------------------------------------------------------------------------
(* The engine keeps its invariant at every delay that fits.                *)
THEOREM Inductive == ASSUME DelayFits PROVE Spec => []IInv
BY DelayFits, InvInit, InvNext, PTL DEF Spec

(* Every console in the match ran its last tick on what every seat         *)
(* captured for it, and took its edges against the tick before: LS_PASS    *)
(* never reads a slot that was reused or not yet written.                  *)
THEOREM ReplayAgrees == ASSUME DelayFits PROVE Spec => []InputAgreement
<1>1. IInv => InputAgreement
  BY DEF IInv
<1> QED BY <1>1, Inductive, PTL

(* The gate of LS_PASS keeps a console that is in the match within d+1     *)
(* ticks of everybody.                                                     *)
THEOREM SkewBounded == ASSUME DelayFits PROVE Spec => []BoundedSkew
<1>1. IInv => BoundedSkew
  <2> SUFFICES ASSUME IInv, NEW c \in Seats, NEW p \in Seats, ~dropped[c]
               PROVE  tick[c] <= tick[p] + D + 1
    BY DEF BoundedSkew
  <2>1. tick[c] <= Sent(p) + 1
    BY DEF IInv, SkewInv
  <2>2. tick[c] \in Nat /\ tick[p] \in Nat /\ Sent(p) \in Int /\ Sent(p) <= tick[p] + D
    BY Progress DEF IInv
  <2> QED BY <2>1, <2>2, Widths
<1> QED BY <1>1, Inductive, PTL

-----------------------------------------------------------------------------
(* The engine implements the shared timeline: every step of Lockstep is a  *)
(* step of SharedTimeline or leaves it alone, at every delay that fits and *)
(* for as long as no INPUT is lost.                                        *)

(* No tick has been run: the idle inputs of tick -1.                       *)
LEMMA TimelineInit == ASSUME DelayFits, Init PROVE Timeline!Init
<1>1. Inputs(-1) = [s \in Seats |-> [now |-> Idle, before |-> Idle]]
  <2>1. Captured(-1) = Idle /\ Captured(-1 - 1) = Idle
    BY Widths DEF Captured
  <2> QED BY <2>1 DEF Inputs
<1>2. Life = [c \in Seats |-> "live"]
  BY DEF Life, Init
<1> QED BY <1>1, <1>2 DEF Timeline!Init, Init

(* A tick of a console in the match is a step of the timeline, the tick    *)
(* that ends a lost match coasts.                                          *)
LEMMA TimelineRunTick ==
  ASSUME IInv, IInv', NEW x \in Seats, RunTick(x), lost' = {}
  PROVE  Timeline!Step(x) \/ Timeline!Coast(x)
<1>1. TypeOK /\ TypeOK' /\ InputAgreement' /\ SkewInv'
  BY DEF IInv
<1>2. /\ pc[x] \in {"gate", "pump"} /\ dropped' = dropped
      /\ pc' = [pc EXCEPT ![x] = "entry"] /\ tick' = [tick EXCEPT ![x] = @ + 1]
      /\ \A c \in Seats \ {x} : used'[c] = used[c]
      /\ DOMAIN used'[x] = Seats
  BY <1>1 DEF RunTick, AtGate, TypeOK
<1>3. CASE dropped[x]
  <2>1. Life[x] = "coasting"
    BY <1>2, <1>3 DEF Life
  <2>2. Life' = [Life EXCEPT ![x] = "gone"]
    BY <1>1, <1>2, <1>3 DEF Life, TypeOK
  <2>3. used' = [used EXCEPT ![x] = used'[x]]
    BY <1>1, <1>2 DEF TypeOK
  <2> QED BY <1>2, <2>1, <2>2, <2>3 DEF Timeline!Coast
<1>4. CASE ~dropped[x]
  <2>1. Life[x] = "live" /\ Life' = Life
    <3>1. \A c \in Seats : dropped[c] => pc'[c] = pc[c]
      BY <1>1, <1>2, <1>4 DEF TypeOK
    <3> QED BY <1>2, <1>4, <3>1 DEF Life
  <2>2. ASSUME NEW p \in Seats PROVE tick[x] < tick[p] + (D + 1)
    <3>1. tick[x] \in Nat /\ tick[p] \in Nat /\ tick'[x] = tick[x] + 1
      BY <1>1, <1>2 DEF TypeOK
    <3>2. CASE p = x
      BY <3>1, <3>2, Widths
    <3>3. CASE p # x
      <4>1. tick'[p] = tick[p]
        BY <1>1, <1>2, <3>3 DEF TypeOK
      <4>2. tick'[x] <= Sent(p)' + 1
        BY <1>1, <1>2, <1>4 DEF SkewInv
      <4>3. Sent(p)' = Sent(p) /\ Sent(p) \in Int /\ Sent(p) <= tick[p] + D
        BY <1>1, SentRunTick, Progress
      <4> QED BY <3>1, <4>2, <4>3, Widths
    <3> QED BY <3>2, <3>3
  <2>3. used'[x] = Inputs(tick[x])
    <3>1. tick[x] \in Nat /\ tick'[x] = tick[x] + 1
      BY <1>1, <1>2 DEF TypeOK
    <3>2. tick'[x] > 0 /\ tick'[x] - 1 = tick[x] /\ tick'[x] - 2 = tick[x] - 1
      BY <3>1
    <3>4. used'[x] \in [Seats -> [now : Int, before : Int]]
      BY <1>1 DEF TypeOK
    <3>3. ASSUME NEW s \in Seats
          PROVE  used'[x][s] = [now |-> Captured(tick[x]), before |-> Captured(tick[x] - 1)]
      <4>1. ~dropped'[x] => /\ Replayed(x, s, tick[x] - 1, used[x][s].now)'
                            /\ Replayed(x, s, tick[x] - 2, used[x][s].before)'
        BY <1>1, <3>2 DEF InputAgreement
      <4>2. /\ used'[x][s].now = Captured(tick'[x] - 1)
            /\ used'[x][s].before = Captured(tick'[x] - 2)
        BY <1>2, <1>4, <4>1 DEF Replayed, Captured
      <4>3. used'[x][s] \in [now : Int, before : Int]
        BY <3>4
      <4> QED BY <3>2, <4>2, <4>3
    <3> QED BY <3>3, <3>4 DEF Inputs
  <2>4. used' = [used EXCEPT ![x] = Inputs(tick[x])]
    BY <1>1, <1>2, <2>3 DEF TypeOK
  <2> QED BY <1>2, <2>1, <2>2, <2>4 DEF Timeline!Step
<1> QED BY <1>3, <1>4

(* Losing the match, whatever told the console.                            *)
LEMMA TimelineLose ==
  ASSUME TypeOK, TypeOK', NEW x \in Seats, Recv(x) \/ Timeout(x)
  PROVE  Timeline!Lose(x) \/ UNCHANGED <<tick, Life, used>>
<1>1. UNCHANGED <<tick, used>>
  BY DEF Recv, Timeout
<1>2. /\ \A c \in Seats \ {x} : pc'[c] = pc[c] /\ dropped'[c] = dropped[c]
      /\ pc[x] \in {"top", "gate", "pump"} /\ pc'[x] \in {"top", "gate", "pump"}
  <2>1. CASE Recv(x)
    BY <2>1, RecvOthers DEF Recv, TypeOK
  <2>2. CASE Timeout(x)
    BY <2>2 DEF Timeout, AtGate, GoIdle, TypeOK
  <2> QED BY <2>1, <2>2
<1>3. dropped'[x] \/ dropped'[x] = dropped[x]
  <2>1. CASE Recv(x)
    BY <2>1 DEF Recv, OnInput, OnLeft, GoIdle, TypeOK
  <2>2. CASE Timeout(x)
    BY <2>2 DEF Timeout, GoIdle, TypeOK
  <2> QED BY <2>1, <2>2
<1>4. CASE dropped'[x] = dropped[x]
  BY <1>1, <1>2, <1>4 DEF Life
<1>5. CASE dropped'[x] /\ ~dropped[x]
  <2>1. Life[x] = "live" /\ Life' = [Life EXCEPT ![x] = "coasting"]
    BY <1>2, <1>5 DEF Life
  <2> QED BY <1>1, <2>1 DEF Timeline!Lose
<1> QED BY <1>1, <1>3, <1>4, <1>5 DEF TypeOK

(* The rest of LS_PASS and the relay do not show on the timeline.          *)
LEMMA TimelineStutter ==
  ASSUME TypeOK, NEW x \in Seats,
         \/ EnterPass(x) \/ Park(x) \/ Capture(x) \/ CaptureLost(x)
         \/ Forward(x) \/ Discard(x) \/ RelayDrop(x)
  PROVE  UNCHANGED <<tick, Life, used>>
<1>1. UNCHANGED <<tick, used, dropped>>
  BY DEF EnterPass, Park, Capture, CaptureLost, Forward, Discard, RelayDrop, console
<1>2. \A c \in Seats : dropped[c] => (pc'[c] \in {"top", "gate", "pump"}
                                      <=> pc[c] \in {"top", "gate", "pump"})
  BY DEF EnterPass, Park, Capture, CaptureLost, Forward, Discard, RelayDrop, console, TypeOK
<1> QED BY <1>1, <1>2 DEF Life

LEMMA TimelineNext ==
  ASSUME IInv, IInv', [Next]_vars
  PROVE  [lost' = {} => Timeline!Next]_<<tick, Life, used>>
<1>1. TypeOK /\ TypeOK'
  BY DEF IInv
<1>2. CASE UNCHANGED vars
  <2>1. UNCHANGED <<tick, Life, used>>
    BY <1>2 DEF vars, Life
  <2> QED BY <2>1
<1>3. ASSUME NEW x \in Seats, RunTick(x), lost' = {} PROVE Timeline!Next
  BY <1>3, TimelineRunTick DEF Timeline!Next
<1>4. ASSUME NEW x \in Seats, Recv(x) \/ Timeout(x)
      PROVE  Timeline!Next \/ UNCHANGED <<tick, Life, used>>
  BY <1>1, <1>4, TimelineLose DEF Timeline!Next
<1>5. ASSUME NEW x \in Seats,
             \/ EnterPass(x) \/ Park(x) \/ Capture(x) \/ CaptureLost(x)
             \/ Forward(x) \/ Discard(x) \/ RelayDrop(x)
      PROVE  UNCHANGED <<tick, Life, used>>
  BY <1>1, <1>5, TimelineStutter
<1> QED BY <1>2, <1>3, <1>4, <1>5 DEF Next

(* The consoles run one shared timeline: the match engine implements       *)
(* SharedTimeline, whose every step of a live console is a tick on the     *)
(* inputs every seat captured, at most d+1 ticks ahead of anybody.         *)
THEOREM Refines == ASSUME DelayFits PROVE Spec => ImplementsTimeline
<1>1. Init => Timeline!Init
  BY TimelineInit
<1>2. IInv /\ IInv' /\ [Next]_vars => [lost' = {} => Timeline!Next]_<<tick, Life, used>>
  BY TimelineNext
<1> QED BY <1>1, <1>2, Inductive, PTL DEF Spec, ImplementsTimeline
=============================================================================
