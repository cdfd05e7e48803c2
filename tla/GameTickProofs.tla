--------------------------- MODULE GameTickProofs ---------------------------
(* Proofs about GameTick: what the hook keeps of one console's game, and   *)
(* that the game of a tick is a function of the game before and of the     *)
(* inputs in two slots of the ring pages, whatever else differs between    *)
(* two consoles.                                                           *)
EXTENDS GameTick, TLAPS

Balls  == {"none", "rest", "flies", "rolls", "over"}
Clubs  == {<<>>} \cup (Int \X Int)
Cells  == [cur : Nat, pcount : {0, NetCount}, digit : {0, NetCount}, ball : Balls, club : Clubs,
           strokes : Nat, rng : 0 .. 1, arm : SUBSET (1 .. 3), cnt2 : 1 .. 3, inj : 0 .. 255,
           tbl : {"none", "prompt", "live", "over"}]
Decs   == {"rest", "disc", "key"}
Pages  == [0 .. Byte - 1 -> [Seats -> [dec : Decs, kp : {0, 1}]]]
Console == [tick : Nat, pc : {"gate", "tick"}, htbl : Tables, exec : 0 .. 1, pad : {"rest", "disc"},
            shadow : Decs \X Decs, seat : Seats \cup {Nobody}, quiescent : BOOLEAN,
            stock : [1 .. 3 -> 0 .. 3], swung : 0 .. 1, s : Cells]

LEMMA Params ==
  /\ Host \in Consoles /\ Noisy \subseteq Consoles /\ NetCount \in 2 .. 4
  /\ Byte \in Nat /\ MaxSkew \in Nat /\ Margin \in Nat /\ MaxSkew > 0 /\ MaxSkew < Margin
  /\ MaxSkew + 2 <= Byte /\ MaxTick \in Nat /\ MaxEvents \in Nat /\ MaxStrokes \in Nat
BY GameAssumption

-----------------------------------------------------------------------------
(* Each operator makes a console of a console, and leaves alone what only  *)
(* the loop of the console writes.                                         *)
Kept(j, k) == /\ j \in Console
              /\ j.tick = k.tick /\ j.pc = k.pc /\ j.pad = k.pad
              /\ j.shadow = k.shadow /\ j.seat = k.seat /\ j.quiescent = k.quiescent

LEMMA KeptChain ==
  /\ \A k \in Console : Kept(k, k)
  /\ \A i, j, k : Kept(i, j) /\ Kept(j, k) => Kept(i, k)
  /\ \A j, k : Kept(j, k) => j \in Console
BY DEF Kept

LEMMA CellsSet ==
  ASSUME NEW k \in Console, NEW t \in Cells
  PROVE  LET j == [k EXCEPT !.s = t] IN
         /\ Kept(j, k) /\ j.s = t /\ j.htbl = k.htbl /\ j.stock = k.stock
BY DEF Console, Kept

LEMMA RandCells ==
  ASSUME NEW k \in Console
  PROVE  /\ Kept(Rand(k), k) /\ Rand(k).s = [k.s EXCEPT !.rng = Shift(@)]
         /\ Rand(k).htbl = k.htbl /\ Rand(k).stock = k.stock
<1>1. \A x \in 0 .. 1 : Shift(x) \in 0 .. 1
  BY DEF Shift, Period
<1>2. k.s \in Cells /\ k.s.rng \in 0 .. 1
  BY DEF Console, Cells
<1>3. [k.s EXCEPT !.rng = Shift(@)] \in Cells
  BY <1>1, <1>2 DEF Cells
<1> QED BY <1>1, <1>2, <1>3 DEF Rand, Console, Kept

LEMMA ArmCells ==
  ASSUME NEW k \in Console, NEW n \in 1 .. 3
  PROVE  /\ Kept(Arm(k, n), k)
         /\ Arm(k, n).s = [k.s EXCEPT !.arm = @ \cup {n}, !.cnt2 = IF n = 2 THEN 3 ELSE @]
         /\ Arm(k, n).stock = [k.stock EXCEPT ![n] = Interval[n]]
         /\ Arm(k, n).htbl = k.htbl
<1>1. Interval[2] = 3 /\ Interval[n] \in 0 .. 3
  BY DEF Interval
<1>2. k.s \in Cells /\ k.s.cnt2 \in 1 .. 3 /\ k.s.arm \in SUBSET (1 .. 3)
  BY DEF Console, Cells
<1> DEFINE t == [k.s EXCEPT !.arm = @ \cup {n}, !.cnt2 = IF n = 2 THEN 3 ELSE @]
<1>3. t \in Cells
  <2> DEFINE a == k.s.arm \cup {n}
             i == IF n = 2 THEN 3 ELSE k.s.cnt2
  <2>1. a \in SUBSET (1 .. 3) /\ i \in 1 .. 3 /\ t = [k.s EXCEPT !.arm = a, !.cnt2 = i]
    BY <1>2
  <2> DEFINE u == [k.s EXCEPT !.arm = a]
  <2> HIDE DEF a, i, t
  <2>2. u \in Cells
    BY <1>2, <2>1 DEF Cells
  <2>3. t = [u EXCEPT !.cnt2 = i]
    BY <2>1
  <2> HIDE DEF u
  <2> QED BY <2>1, <2>2, <2>3 DEF Cells
<1>4. [k.stock EXCEPT ![n] = Interval[n]] \in [1 .. 3 -> 0 .. 3]
  BY <1>1 DEF Console
<1>5. Arm(k, n) = [k EXCEPT !.s = t, !.stock = [k.stock EXCEPT ![n] = Interval[n]]]
  BY <1>1, <1>2 DEF Arm, Console, Cells
<1> HIDE DEF t
<1>6. /\ Kept(Arm(k, n), k) /\ Arm(k, n).s = t
      /\ Arm(k, n).stock = [k.stock EXCEPT ![n] = Interval[n]]
      /\ Arm(k, n).htbl = k.htbl
  BY <1>3, <1>4, <1>5 DEF Console, Kept
<1> QED BY <1>6 DEF t

LEMMA StopCells ==
  ASSUME NEW k \in Console, NEW n \in 1 .. 3
  PROVE  /\ Kept(Stop(k, n), k)
         /\ Stop(k, n).s = [k.s EXCEPT !.arm = @ \ {n}]
         /\ Stop(k, n).stock = [k.stock EXCEPT ![n] = 0]
         /\ Stop(k, n).htbl = k.htbl
<1>1. k.s \in Cells /\ [k.s EXCEPT !.arm = @ \ {n}] \in Cells
  BY DEF Console, Cells
<1>2. [k.stock EXCEPT ![n] = 0] \in [1 .. 3 -> 0 .. 3]
  BY DEF Console
<1> QED BY <1>1, <1>2 DEF Stop, Console, Kept

LEMMA ServicesKeep ==
  ASSUME NEW k, NEW j, Kept(j, k)
  PROVE  /\ Kept(Rand(j), k)
         /\ \A n \in 1 .. 3 : Kept(Arm(j, n), k) /\ Kept(Stop(j, n), k)
<1>1. j \in Console
  BY KeptChain
<1>2. Kept(Rand(j), j) /\ \A n \in 1 .. 3 : Kept(Arm(j, n), j) /\ Kept(Stop(j, n), j)
  BY <1>1, RandCells, ArmCells, StopCells
<1> QED BY <1>2, KeptChain

LEMMA CellsKeep ==
  ASSUME NEW k, NEW j, Kept(j, k), NEW t \in Cells
  PROVE  Kept([j EXCEPT !.s = t], k)
<1>1. j \in Console
  BY KeptChain
<1> QED BY <1>1, CellsSet, KeptChain

(* Events of the prompt come from the injector only.                       *)
LEMMA HandlerKeeps ==
  ASSUME NEW k \in Console, NEW slot \in Int, NEW v \in Int,
         k.htbl = "prompt" /\ slot = 2 => v \in {NetCount, Enter}
  PROVE  Kept(Handler(k, slot, v), k)
<1> USE Params
<1> DEFINE h == Handler(k, slot, v)
<1>0. k.s \in Cells /\ (k.s.digit # 0 => k.s.digit = NetCount) /\ Kept(k, k)
  BY KeptChain DEF Console, Cells
<1>1. CASE k.htbl = "prompt" /\ slot = 2 /\ v \in 1 .. 9
  <2>1. v = NetCount /\ h = [k EXCEPT !.s = [k.s EXCEPT !.digit = NetCount]]
    BY <1>1 DEF Handler, Enter
  <2>2. [k.s EXCEPT !.digit = NetCount] \in Cells
    BY <1>0 DEF Cells
  <2> QED BY <1>0, <2>1, <2>2, CellsKeep
<1>2. CASE k.htbl = "prompt" /\ slot = 2 /\ v = Enter /\ k.s.digit # 0
  <2> DEFINE j == [k EXCEPT !.s.pcount = k.s.digit, !.s.ball = "rest", !.htbl = "live"]
  <2>1. [k.s EXCEPT !.pcount = k.s.digit, !.ball = "rest"] \in Cells
    BY <1>0, <1>2 DEF Cells, Balls
  <2>2. Kept(j, k)
    BY <2>1 DEF Console, Kept, Tables
  <2>3. Handler(k, slot, v) = Arm(j, 3)
    BY <1>2 DEF Handler, Enter
  <2> HIDE DEF j
  <2> QED BY <2>2, <2>3, ServicesKeep
<1>3. CASE k.htbl = "live"
  <2>1. h = [k EXCEPT !.s = [k.s EXCEPT !.club = <<slot, v>>]]
    BY <1>3 DEF Handler
  <2>2. [k.s EXCEPT !.club = <<slot, v>>] \in Cells
    <3>1. <<slot, v>> \in Clubs
      BY DEF Clubs
    <3> QED BY <1>0, <3>1 DEF Cells
  <2> QED BY <1>0, <2>1, <2>2, CellsKeep
<1>4. CASE ~(k.htbl = "prompt" /\ slot = 2 /\ v \in 1 .. 9) /\ k.htbl # "live"
           /\ ~(k.htbl = "prompt" /\ slot = 2 /\ v = Enter /\ k.s.digit # 0)
  <2>1. h = k
    BY <1>4 DEF Handler
  <2> QED BY <1>0, <2>1
<1> QED BY <1>1, <1>2, <1>3, <1>4

LEMMA HandlerIdle ==
  ASSUME NEW k \in Console, NEW slot \in Int, NEW v \in Int,
         k.htbl \in {"over", "net null"} \/ (k.htbl = "prompt" /\ slot # 2)
  PROVE  Handler(k, slot, v) = k
BY DEF Handler

LEMMA FlightKeeps ==
  ASSUME NEW k \in Console
  PROVE  Kept(Flight(k), k)
<1> DEFINE d == Rand(k)
           b == [d EXCEPT !.s.ball = "rolls"]
<1>1. Kept(d, k) /\ d \in Console
  BY KeptChain, ServicesKeep
<1> HIDE DEF d
<1>2. Kept(b, k)
  <2>1. [d.s EXCEPT !.ball = "rolls"] \in Cells /\ b = [d EXCEPT !.s = [d.s EXCEPT !.ball = "rolls"]]
    BY <1>1 DEF Console, Cells, Balls
  <2> HIDE DEF b
  <2> QED BY <1>1, <2>1, CellsKeep
<1> HIDE DEF b
<1>3. Kept(Stop(b, 1), k)
  BY <1>2, ServicesKeep
<1>4. Kept(Arm(Stop(b, 1), 2), k)
  BY <1>3, ServicesKeep
<1>5. Flight(k) = IF Lands(d) THEN Arm(Stop(b, 1), 2) ELSE d
  BY DEF Flight, d, b
<1> QED BY <1>1, <1>4, <1>5

LEMMA RollKeeps ==
  ASSUME NEW k \in Console, k.s.pcount # 0
  PROVE  Kept(Roll(k), k)
<1> DEFINE d == Rand(k)
           e == [d EXCEPT !.s.cur = (@ + 1) % d.s.pcount]
           n == Stop(e, 2)
           o == [n EXCEPT !.s.ball = "over", !.htbl = "over"]
           r == [n EXCEPT !.s.ball = "rest"]
<1>1. Kept(d, k) /\ d \in Console
  BY KeptChain, ServicesKeep
<1>2. d.s.pcount = NetCount /\ NetCount \in 2 .. 4
  BY RandCells, Params DEF Console, Cells
<1> HIDE DEF d
<1>3. Kept(e, k)
  <2> DEFINE x == (d.s.cur + 1) % d.s.pcount
  <2>1. d.s \in Cells /\ d.s.cur \in Nat
    BY <1>1 DEF Console, Cells
  <2>2. x \in Nat /\ e = [d EXCEPT !.s = [d.s EXCEPT !.cur = x]]
    BY <1>2, <2>1
  <2> HIDE DEF x, e
  <2>3. [d.s EXCEPT !.cur = x] \in Cells
    BY <2>1, <2>2 DEF Cells
  <2> QED BY <1>1, <2>2, <2>3, CellsKeep
<1> HIDE DEF e
<1>4. Kept(n, k) /\ n \in Console
  BY <1>3, ServicesKeep, KeptChain
<1> HIDE DEF n
<1>5. [n.s EXCEPT !.ball = "over"] \in Cells /\ [n.s EXCEPT !.ball = "rest"] \in Cells
  BY <1>4 DEF Console, Cells, Balls
<1>6. Kept(o, k)
  <2>1. Kept(o, n)
    BY <1>4, <1>5 DEF Console, Kept, Tables
  <2> HIDE DEF o
  <2> QED BY <1>4, <2>1, KeptChain
<1>7. Kept(r, k)
  <2>1. r = [n EXCEPT !.s = [n.s EXCEPT !.ball = "rest"]]
    OBVIOUS
  <2> HIDE DEF r
  <2> QED BY <1>4, <1>5, <2>1, CellsKeep
<1> HIDE DEF o, r
<1>8. Kept(Arm(r, 3), k)
  BY <1>7, ServicesKeep
<1>9. Roll(k) = IF ~Settles(d) THEN d ELSE IF d.s.strokes = MaxStrokes THEN o ELSE Arm(r, 3)
  BY DEF Roll, d, e, n, o, r
<1> QED BY <1>1, <1>6, <1>8, <1>9

LEMMA SwingKeeps ==
  ASSUME NEW k \in Console
  PROVE  Kept(Swing(k), k)
<1> DEFINE by == IF k.shadow[1] = "disc" THEN 0 ELSE 1
           d  == Rand(k)
           f  == [d EXCEPT !.s.ball = "flies", !.s.strokes = @ + 1, !.swung = by]
<1>1. Kept(d, k) /\ d \in Console /\ Kept(k, k)
  BY KeptChain, ServicesKeep
<1>2. by \in 0 .. 1
  OBVIOUS
<1> HIDE DEF d, by
<1>3. Kept(f, k)
  <2> DEFINE t == [d.s EXCEPT !.ball = "flies", !.strokes = @ + 1]
  <2>1. d.s \in Cells /\ d.s.strokes + 1 \in Nat
    BY <1>1 DEF Console, Cells
  <2>2. t \in Cells
    BY <2>1 DEF Cells, Balls
  <2>3. f = [d EXCEPT !.s = t, !.swung = by]
    BY <1>1, <2>1 DEF Console, Cells
  <2> HIDE DEF f, t
  <2>4. Kept(f, d)
    BY <1>1, <1>2, <2>2, <2>3 DEF Console, Kept
  <2> QED BY <1>1, <2>4, KeptChain
<1> HIDE DEF f
<1>4. Kept(Stop(f, 3), k)
  BY <1>3, ServicesKeep
<1>5. Kept(Arm(Stop(f, 3), 1), k)
  BY <1>4, ServicesKeep
<1>6. Swing(k) = IF "disc" \notin {k.shadow[1], k.shadow[2]} THEN k ELSE Arm(Stop(f, 3), 1)
  BY DEF Swing, f, d, by
<1> QED BY <1>1, <1>5, <1>6

-----------------------------------------------------------------------------
(* What holds of a game, whatever the inputs are and whatever goes wrong:  *)
(* the entry that the ball's state calls for is armed and no other, at the *)
(* pace of the stock table, and nothing plays before the room's players    *)
(* are counted.                                                            *)
Armed(s) == (1 \in s.arm <=> s.ball = "flies") /\ (2 \in s.arm <=> s.ball = "rolls")
            /\ (3 \in s.arm <=> s.ball = "rest")
Paced(k, n) == k.stock[n] = IF n \notin k.s.arm THEN 0
                            ELSE IF n = 2 THEN k.s.cnt2 ELSE Interval[n]
Good(k) ==
  /\ Armed(k.s) /\ Paced(k, 1) /\ Paced(k, 2) /\ Paced(k, 3)
  /\ k.s.arm # {} \/ k.s.tbl = "live" \/ k.htbl = "live" => k.s.pcount = NetCount
  /\ k.htbl = "prompt" => k.s.ball = "none"
  /\ k.htbl = "net null" /\ k.s.tbl = "prompt" => k.s.ball = "none"

(* What Good depends on, and what the services make of it.                 *)
Alike(j, k) == /\ j.s.arm = k.s.arm /\ j.s.ball = k.s.ball /\ j.s.cnt2 = k.s.cnt2
               /\ j.s.pcount = k.s.pcount /\ j.s.tbl = k.s.tbl /\ j.htbl = k.htbl
               /\ j.stock[1] = k.stock[1] /\ j.stock[2] = k.stock[2] /\ j.stock[3] = k.stock[3]

LEMMA AlikeGood ==
  ASSUME NEW k, NEW j, Good(k), Alike(j, k)
  PROVE  Good(j)
BY DEF Good, Armed, Paced, Alike

LEMMA RandAlike ==
  ASSUME NEW k \in Console
  PROVE  Alike(Rand(k), k)
<1>1. Rand(k).s = [k.s EXCEPT !.rng = Shift(@)] /\ k.s \in Cells
  BY RandCells DEF Console
<1>2. Rand(k).htbl = k.htbl /\ Rand(k).stock = k.stock
  BY RandCells
<1> QED BY <1>1, <1>2 DEF Cells, Alike

LEMMA BallSet ==
  ASSUME NEW k \in Console, NEW b \in Balls
  PROVE  LET j == [k EXCEPT !.s.ball = b] IN
         /\ Kept(j, k)
         /\ j.s.arm = k.s.arm /\ j.s.ball = b /\ j.s.cnt2 = k.s.cnt2
         /\ j.s.pcount = k.s.pcount /\ j.s.tbl = k.s.tbl /\ j.htbl = k.htbl
         /\ j.stock[1] = k.stock[1] /\ j.stock[2] = k.stock[2] /\ j.stock[3] = k.stock[3]
<1> DEFINE j == [k EXCEPT !.s.ball = b]
           t == [k.s EXCEPT !.ball = b]
<1>1. k.s \in Cells /\ j = [k EXCEPT !.s = t]
  BY DEF Console
<1>2. /\ t \in Cells /\ t.arm = k.s.arm /\ t.ball = b /\ t.cnt2 = k.s.cnt2
      /\ t.pcount = k.s.pcount /\ t.tbl = k.s.tbl
  BY <1>1 DEF Cells
<1> HIDE DEF t, j
<1>3. Kept(j, k) /\ j.s = t /\ j.htbl = k.htbl /\ j.stock = k.stock
  BY <1>1, <1>2, CellsSet
<1> QED BY <1>2, <1>3 DEF j

LEMMA ArmSets ==
  ASSUME NEW k \in Console, NEW n \in 1 .. 3
  PROVE  LET j == Arm(k, n) IN
         /\ j.s.arm = k.s.arm \cup {n} /\ j.s.ball = k.s.ball
         /\ j.s.cnt2 = (IF n = 2 THEN 3 ELSE k.s.cnt2)
         /\ j.s.pcount = k.s.pcount /\ j.s.tbl = k.s.tbl /\ j.htbl = k.htbl
         /\ \A i \in 1 .. 3 : j.stock[i] = IF i = n THEN Interval[n] ELSE k.stock[i]
<1> DEFINE j == Arm(k, n)
<1>1. /\ j.s = [k.s EXCEPT !.arm = @ \cup {n}, !.cnt2 = IF n = 2 THEN 3 ELSE @]
      /\ j.stock = [k.stock EXCEPT ![n] = Interval[n]] /\ j.htbl = k.htbl
  BY ArmCells
<1>2. k.s \in Cells /\ k.stock \in [1 .. 3 -> 0 .. 3]
  BY DEF Console
<1> HIDE DEF j
<1>3. /\ j.s.arm = k.s.arm \cup {n} /\ j.s.ball = k.s.ball
      /\ j.s.cnt2 = (IF n = 2 THEN 3 ELSE k.s.cnt2)
      /\ j.s.pcount = k.s.pcount /\ j.s.tbl = k.s.tbl
  BY <1>1, <1>2 DEF Cells
<1>4. \A i \in 1 .. 3 : j.stock[i] = IF i = n THEN Interval[n] ELSE k.stock[i]
  BY <1>1, <1>2
<1> QED BY <1>1, <1>3, <1>4 DEF j

LEMMA StopSets ==
  ASSUME NEW k \in Console, NEW n \in 1 .. 3
  PROVE  LET j == Stop(k, n) IN
         /\ j.s.arm = k.s.arm \ {n} /\ j.s.ball = k.s.ball /\ j.s.cnt2 = k.s.cnt2
         /\ j.s.pcount = k.s.pcount /\ j.s.tbl = k.s.tbl /\ j.htbl = k.htbl
         /\ \A i \in 1 .. 3 : j.stock[i] = IF i = n THEN 0 ELSE k.stock[i]
<1> DEFINE j == Stop(k, n)
<1>1. /\ j.s = [k.s EXCEPT !.arm = @ \ {n}]
      /\ j.stock = [k.stock EXCEPT ![n] = 0] /\ j.htbl = k.htbl
  BY StopCells
<1>2. k.s \in Cells /\ k.stock \in [1 .. 3 -> 0 .. 3]
  BY DEF Console
<1> HIDE DEF j
<1>3. /\ j.s.arm = k.s.arm \ {n} /\ j.s.ball = k.s.ball /\ j.s.cnt2 = k.s.cnt2
      /\ j.s.pcount = k.s.pcount /\ j.s.tbl = k.s.tbl
  BY <1>1, <1>2 DEF Cells
<1>4. \A i \in 1 .. 3 : j.stock[i] = IF i = n THEN 0 ELSE k.stock[i]
  BY <1>1, <1>2
<1> QED BY <1>1, <1>3, <1>4 DEF j

LEMMA FieldTypes ==
  ASSUME NEW k \in Console
  PROVE  /\ k.s \in Cells /\ k.s.arm \in SUBSET (1 .. 3) /\ k.s.ball \in Balls /\ k.s.cnt2 \in 1 .. 3
         /\ k.s.pcount \in {0, NetCount} /\ k.s.digit \in {0, NetCount} /\ k.htbl \in Tables
         /\ k.s.tbl \in {"none", "prompt", "live", "over"}
         /\ \A i \in 1 .. 3 : k.stock[i] \in 0 .. 3
         /\ k.s.cur \in Nat /\ k.s.strokes \in Nat /\ k.s.rng \in 0 .. 1 /\ k.s.inj \in 0 .. 255
BY DEF Console, Cells

LEMMA HandlerGood ==
  ASSUME NEW k \in Console, Good(k), NEW slot \in Int, NEW v \in Int,
         k.htbl = "prompt" /\ slot = 2 => v \in {NetCount, Enter}
  PROVE  /\ Good(Handler(k, slot, v))
         /\ k.htbl # "prompt" => Handler(k, slot, v).htbl = k.htbl
         /\ k.htbl # "net null" => Handler(k, slot, v).htbl # "net null"
<1>0. /\ k.s \in Cells /\ (k.s.digit # 0 => k.s.digit = NetCount)
      /\ Handler(k, slot, v) \in Console
  BY HandlerKeeps, KeptChain, FieldTypes
<1>1. CASE k.htbl = "prompt" /\ slot = 2 /\ v \in 1 .. 9
  <2> DEFINE h == Handler(k, slot, v)
  <2>1. h = [k EXCEPT !.s = [k.s EXCEPT !.digit = v]]
    BY <1>1 DEF Handler, Enter
  <2> HIDE DEF h
  <2>2. Alike(h, k)
    <3>1. h.s = [k.s EXCEPT !.digit = v] /\ h.htbl = k.htbl /\ h.stock = k.stock
      BY <2>1 DEF Console
    <3> QED BY <1>0, <3>1 DEF Cells, Alike
  <2> QED BY <1>1, <2>2, AlikeGood DEF Alike, h
<1>2. CASE k.htbl = "prompt" /\ slot = 2 /\ v = Enter /\ k.s.digit # 0
  <2> DEFINE t == [k.s EXCEPT !.pcount = k.s.digit, !.ball = "rest"]
             j == [k EXCEPT !.s.pcount = k.s.digit, !.s.ball = "rest", !.htbl = "live"]
  <2>1. /\ t \in Cells /\ t.arm = k.s.arm /\ t.ball = "rest" /\ t.cnt2 = k.s.cnt2
        /\ t.pcount = NetCount
    BY <1>0, <1>2 DEF Cells, Balls
  <2>2. j = [k EXCEPT !.s = t, !.htbl = "live"]
    BY DEF Console
  <2> HIDE DEF t, j
  <2>3. j \in Console /\ j.s = t /\ j.htbl = "live" /\ j.stock = k.stock
    BY <2>1, <2>2 DEF Console, Tables
  <2> DEFINE h == Arm(j, 3)
  <2>4. Handler(k, slot, v) = h
    BY <1>2 DEF Handler, Enter, j
  <2>5. /\ h.s.arm = k.s.arm \cup {3} /\ h.s.ball = "rest" /\ h.s.pcount = NetCount
        /\ h.htbl = "live" /\ h.stock[1] = k.stock[1] /\ h.stock[2] = k.stock[2]
        /\ h.stock[3] = Interval[3]
    BY <2>1, <2>3, ArmSets
  <2> HIDE DEF h
  <2>6. k.s.arm = {}
    BY <1>2, FieldTypes DEF Good, Armed
  <2>7. k.stock[1] = 0 /\ k.stock[2] = 0
    BY <2>6 DEF Good, Paced
  <2>8. Good(h)
    <3>1. 1 \notin h.s.arm /\ 2 \notin h.s.arm /\ 3 \in h.s.arm
      BY <2>5, <2>6
    <3>2. Armed(h.s)
      BY <2>5, <3>1 DEF Armed
    <3>3. Paced(h, 1) /\ Paced(h, 2) /\ Paced(h, 3)
      BY <2>5, <2>7, <3>1 DEF Paced
    <3> QED BY <2>5, <3>2, <3>3 DEF Good
  <2> QED BY <1>2, <2>4, <2>5, <2>8
<1>3. CASE k.htbl = "live"
  <2> DEFINE c == <<slot, v>>
             h == Handler(k, slot, v)
  <2>1. h = [k EXCEPT !.s = [k.s EXCEPT !.club = c]]
    BY <1>3 DEF Handler
  <2> HIDE DEF c, h
  <2>2. Alike(h, k)
    <3>1. h.s = [k.s EXCEPT !.club = c] /\ h.htbl = k.htbl /\ h.stock = k.stock
      BY <2>1 DEF Console
    <3> QED BY <1>0, <3>1 DEF Cells, Alike
  <2> QED BY <1>3, <2>2, AlikeGood DEF Alike, h
<1>4. CASE ~(k.htbl = "prompt" /\ slot = 2 /\ v \in 1 .. 9) /\ k.htbl # "live"
           /\ ~(k.htbl = "prompt" /\ slot = 2 /\ v = Enter /\ k.s.digit # 0)
  <2>1. Handler(k, slot, v) = k
    BY <1>4 DEF Handler
  <2> QED BY <2>1
<1> QED BY <1>1, <1>2, <1>3, <1>4

LEMMA FlightGood ==
  ASSUME NEW k \in Console, Good(k), 1 \in k.s.arm
  PROVE  Good(Flight(k)) /\ Flight(k).htbl = k.htbl
<1> DEFINE d == Rand(k)
           b == [d EXCEPT !.s.ball = "rolls"]
           f == Stop(b, 1)
           g == Arm(f, 2)
<1>1. d \in Console /\ Alike(d, k)
  BY RandCells, KeptChain, RandAlike
<1> HIDE DEF d
<1>2. /\ b \in Console
      /\ b.s.arm = d.s.arm /\ b.s.ball = "rolls" /\ b.s.pcount = d.s.pcount /\ b.s.tbl = d.s.tbl
      /\ b.htbl = d.htbl /\ b.stock[1] = d.stock[1] /\ b.stock[2] = d.stock[2]
      /\ b.stock[3] = d.stock[3]
  <2>1. "rolls" \in Balls
    BY DEF Balls
  <2> QED BY <1>1, <2>1, BallSet, KeptChain
<1> HIDE DEF b
<1>3. /\ f \in Console
      /\ f.s.arm = b.s.arm \ {1} /\ f.s.ball = b.s.ball /\ f.s.pcount = b.s.pcount /\ f.s.tbl = b.s.tbl
      /\ f.htbl = b.htbl /\ f.stock[1] = 0 /\ f.stock[2] = b.stock[2] /\ f.stock[3] = b.stock[3]
  <2>1. 1 \in 1 .. 3 /\ 2 \in 1 .. 3 /\ 3 \in 1 .. 3
    OBVIOUS
  <2>2. Kept(f, b)
    BY <1>2, <2>1, StopCells
  <2>3. f \in Console
    BY <2>2, KeptChain
  <2> QED BY <1>2, <2>1, <2>3, StopSets
<1> HIDE DEF f
<1>4. /\ g.s.arm = f.s.arm \cup {2} /\ g.s.ball = f.s.ball /\ g.s.pcount = f.s.pcount
      /\ g.s.tbl = f.s.tbl /\ g.s.cnt2 = 3
      /\ g.htbl = f.htbl /\ g.stock[1] = f.stock[1] /\ g.stock[2] = Interval[2]
      /\ g.stock[3] = f.stock[3]
  BY <1>3, ArmSets
<1> HIDE DEF g
<1>5. /\ k.s.ball = "flies" /\ k.s.arm = {1} /\ k.s.pcount = NetCount
      /\ k.htbl # "prompt" /\ ~(k.htbl = "net null" /\ k.s.tbl = "prompt") /\ k.stock[3] = 0
  <2>1. k.s.ball = "flies" /\ 2 \notin k.s.arm /\ 3 \notin k.s.arm
    BY DEF Good, Armed
  <2>2. k.s.arm = {1}
    BY <2>1, FieldTypes
  <2>3. k.s.pcount = NetCount /\ k.htbl # "prompt" /\ ~(k.htbl = "net null" /\ k.s.tbl = "prompt")
    BY <2>1, <2>2 DEF Good
  <2>4. k.stock[3] = 0
    BY <2>1 DEF Good, Paced
  <2> QED BY <2>1, <2>2, <2>3, <2>4
<1>6. /\ g.s.arm = {2} /\ g.s.cnt2 = 3 /\ g.s.ball = "rolls" /\ g.s.pcount = NetCount
      /\ g.s.tbl = k.s.tbl /\ g.htbl = k.htbl
      /\ g.stock[1] = 0 /\ g.stock[2] = 3 /\ g.stock[3] = 0
  <2>1. d.s.arm = {1} /\ d.s.pcount = NetCount /\ d.s.tbl = k.s.tbl /\ d.htbl = k.htbl
        /\ d.stock[3] = 0
    BY <1>1, <1>5 DEF Alike
  <2>2. b.s.arm = {1} /\ b.s.pcount = NetCount /\ b.s.tbl = k.s.tbl /\ b.htbl = k.htbl
        /\ b.stock[3] = 0
    BY <1>2, <2>1
  <2>3. f.s.arm = {} /\ f.s.pcount = NetCount /\ f.s.tbl = k.s.tbl /\ f.htbl = k.htbl
        /\ f.s.ball = "rolls" /\ f.stock[1] = 0 /\ f.stock[3] = 0
    BY <1>2, <1>3, <2>2
  <2> QED BY <1>4, <2>3 DEF Interval
<1>7. Good(g)
  BY <1>5, <1>6 DEF Good, Armed, Paced
<1>8. Flight(k) = IF Lands(d) THEN g ELSE d
  BY DEF Flight, d, b, f, g
<1> QED BY <1>1, <1>6, <1>7, <1>8, AlikeGood DEF Alike

LEMMA CntSet ==
  ASSUME NEW k \in Console, NEW n \in 1 .. 3
  PROVE  LET j == [k EXCEPT !.s.cnt2 = n] IN
         /\ Kept(j, k)
         /\ j.s.arm = k.s.arm /\ j.s.ball = k.s.ball /\ j.s.cnt2 = n
         /\ j.s.pcount = k.s.pcount /\ j.s.tbl = k.s.tbl /\ j.htbl = k.htbl /\ j.stock = k.stock
<1> DEFINE j == [k EXCEPT !.s.cnt2 = n]
           t == [k.s EXCEPT !.cnt2 = n]
<1>1. k.s \in Cells /\ j = [k EXCEPT !.s = t]
  BY DEF Console
<1>2. /\ t \in Cells /\ t.arm = k.s.arm /\ t.ball = k.s.ball /\ t.cnt2 = n
      /\ t.pcount = k.s.pcount /\ t.tbl = k.s.tbl
  BY <1>1 DEF Cells
<1> HIDE DEF t, j
<1>3. Kept(j, k) /\ j.s = t /\ j.htbl = k.htbl /\ j.stock = k.stock
  BY <1>1, <1>2, CellsSet
<1> QED BY <1>2, <1>3 DEF j

LEMMA CurSet ==
  ASSUME NEW k \in Console, NEW n \in Nat
  PROVE  Kept([k EXCEPT !.s.cur = n], k) /\ Alike([k EXCEPT !.s.cur = n], k)
<1> DEFINE j == [k EXCEPT !.s.cur = n]
           t == [k.s EXCEPT !.cur = n]
<1>1. k.s \in Cells /\ j = [k EXCEPT !.s = t]
  BY DEF Console
<1>2. /\ t \in Cells /\ t.arm = k.s.arm /\ t.ball = k.s.ball /\ t.cnt2 = k.s.cnt2
      /\ t.pcount = k.s.pcount /\ t.tbl = k.s.tbl
  BY <1>1 DEF Cells
<1> HIDE DEF t, j
<1>3. Kept(j, k) /\ j.s = t /\ j.htbl = k.htbl /\ j.stock = k.stock
  BY <1>1, <1>2, CellsSet
<1> QED BY <1>2, <1>3 DEF j, Alike

(* The stock table counts down on every pass.                              *)
LEMMA WalkedSets ==
  ASSUME NEW k \in Console, NEW n \in 1 .. 3
  PROVE  LET j == Walked(k, n) IN
         /\ Kept(j, k) /\ j.s = k.s /\ j.htbl = k.htbl
         /\ \A i \in 1 .. 3 : j.stock[i] =
              IF i # n THEN k.stock[i]
              ELSE IF k.stock[n] = 1 THEN Interval[n] ELSE IF k.stock[n] = 0 THEN 0 ELSE k.stock[n] - 1
<1> DEFINE x == IF k.stock[n] = 1 THEN Interval[n] ELSE IF k.stock[n] = 0 THEN 0 ELSE k.stock[n] - 1
           j == Walked(k, n)
<1>1. k.stock \in [1 .. 3 -> 0 .. 3] /\ k.stock[n] \in 0 .. 3 /\ Interval[n] \in 0 .. 3
  BY DEF Console, Interval
<1>2. x \in 0 .. 3 /\ j = [k EXCEPT !.stock = [k.stock EXCEPT ![n] = x]]
  BY <1>1 DEF Walked
<1> HIDE DEF x, j
<1>3. [k.stock EXCEPT ![n] = x] \in [1 .. 3 -> 0 .. 3]
  BY <1>1, <1>2
<1>4. Kept(j, k) /\ j.s = k.s /\ j.htbl = k.htbl /\ j.stock = [k.stock EXCEPT ![n] = x]
  BY <1>2, <1>3 DEF Console, Kept
<1>5. \A i \in 1 .. 3 : j.stock[i] = IF i # n THEN k.stock[i] ELSE x
  BY <1>1, <1>4
<1> QED BY <1>4, <1>5 DEF x, j

(* Entries 1 and 3 reload on every pass.                                   *)
LEMMA WalkedGood ==
  ASSUME NEW k \in Console, Good(k), NEW n \in {1, 3}
  PROVE  Kept(Walked(k, n), k) /\ Good(Walked(k, n)) /\ Walked(k, n).s = k.s /\ Walked(k, n).htbl = k.htbl
<1>1. /\ n \in 1 .. 3 /\ 1 \in 1 .. 3 /\ 2 \in 1 .. 3 /\ 3 \in 1 .. 3
      /\ Interval[1] = 1 /\ Interval[3] = 1
  BY DEF Interval
<1> DEFINE j == Walked(k, n)
<1>2. Kept(j, k) /\ j.s = k.s /\ j.htbl = k.htbl
  BY <1>1, WalkedSets
<1>3. j.stock[1] = k.stock[1] /\ j.stock[2] = k.stock[2] /\ j.stock[3] = k.stock[3]
  <2>1. k.stock[n] \in {0, 1} /\ (k.stock[n] = 1 => Interval[n] = 1)
    <3>1. Paced(k, n)
      BY DEF Good
    <3> QED BY <1>1, <3>1 DEF Paced
  <2> HIDE DEF j
  <2>2. \A i \in 1 .. 3 : j.stock[i] =
              IF i # n THEN k.stock[i]
              ELSE IF k.stock[n] = 1 THEN Interval[n] ELSE IF k.stock[n] = 0 THEN 0 ELSE k.stock[n] - 1
    BY <1>1, WalkedSets DEF j
  <2>3. \A i \in 1 .. 3 : j.stock[i] = k.stock[i]
    BY <1>1, <2>1, <2>2
  <2> QED BY <1>1, <2>3
<1> HIDE DEF j
<1>4. Good(j)
  BY <1>2, <1>3, AlikeGood DEF Alike
<1> QED BY <1>2, <1>4 DEF j

(* Entry 2: the roll, which may hand over to the next golfer or end the    *)
(* game.  Its own countdown is what the stock table would show.            *)
LEMMA RollSets ==
  ASSUME NEW k \in Console, k.s.pcount = NetCount, k.s.arm = {2}, k.s.ball = "rolls"
  PROVE  /\ Kept(Roll(k), k) /\ Roll(k).s.pcount = NetCount /\ Roll(k).s.tbl = k.s.tbl
         /\ Roll(k).htbl \in {k.htbl, "over"} /\ Roll(k).stock[1] = k.stock[1]
         /\ \/ /\ Roll(k).s.ball = "rolls" /\ Roll(k).s.arm = {2}
               /\ Roll(k).stock[2] = k.stock[2] /\ Roll(k).stock[3] = k.stock[3]
            \/ /\ Roll(k).s.ball = "over" /\ Roll(k).s.arm = {}
               /\ Roll(k).stock[2] = 0 /\ Roll(k).stock[3] = k.stock[3]
            \/ /\ Roll(k).s.ball = "rest" /\ Roll(k).s.arm = {3}
               /\ Roll(k).stock[2] = 0 /\ Roll(k).stock[3] = Interval[3]
<1> DEFINE d == Rand(k)
           e == [d EXCEPT !.s.cur = (@ + 1) % d.s.pcount]
           n == Stop(e, 2)
           o == [n EXCEPT !.s.ball = "over", !.htbl = "over"]
           r == [n EXCEPT !.s.ball = "rest"]
           a == Arm(r, 3)
<1>0. Kept(Roll(k), k)
  BY RollKeeps, Params
<1>1. d \in Console /\ Alike(d, k)
  BY RandCells, RandAlike, KeptChain
<1>2. d.s.pcount = NetCount /\ d.s.cur \in Nat
  BY <1>1, FieldTypes DEF Alike
<1> HIDE DEF d
<1>3. e \in Console /\ Alike(e, d)
  <2> DEFINE x == (d.s.cur + 1) % d.s.pcount
  <2>1. x \in Nat /\ e = [d EXCEPT !.s.cur = x]
    BY <1>2, Params
  <2> HIDE DEF x, e
  <2> QED BY <1>1, <2>1, CurSet, KeptChain
<1> HIDE DEF e
<1>4. 2 \in 1 .. 3 /\ 1 \in 1 .. 3 /\ 3 \in 1 .. 3
  OBVIOUS
<1>5. /\ n \in Console
      /\ n.s.arm = {} /\ n.s.pcount = NetCount /\ n.s.tbl = k.s.tbl
      /\ n.htbl = k.htbl /\ n.stock[1] = k.stock[1] /\ n.stock[2] = 0 /\ n.stock[3] = k.stock[3]
  <2>1. Kept(n, e)
    BY <1>3, <1>4, StopCells
  <2>2. e.s.arm \ {2} = {}
    BY <1>1, <1>3 DEF Alike
  <2>3. /\ n.s.arm = e.s.arm \ {2} /\ n.s.pcount = e.s.pcount /\ n.s.tbl = e.s.tbl
        /\ n.htbl = e.htbl /\ n.stock[1] = e.stock[1] /\ n.stock[2] = 0 /\ n.stock[3] = e.stock[3]
    BY <1>3, <1>4, StopSets
  <2> QED BY <1>1, <1>3, <2>1, <2>2, <2>3, KeptChain DEF Alike
<1> HIDE DEF n
<1>6. /\ o.s.arm = {} /\ o.s.pcount = NetCount /\ o.s.tbl = k.s.tbl /\ o.s.ball = "over"
      /\ o.htbl = "over" /\ o.stock[1] = k.stock[1] /\ o.stock[2] = 0 /\ o.stock[3] = k.stock[3]
  <2>1. o.s = [n.s EXCEPT !.ball = "over"] /\ o.htbl = "over" /\ o.stock = n.stock /\ n.s \in Cells
    BY <1>5 DEF Console
  <2> HIDE DEF o
  <2> QED BY <1>5, <2>1 DEF Cells
<1>7. /\ r \in Console
      /\ r.s.arm = {} /\ r.s.pcount = NetCount /\ r.s.tbl = k.s.tbl /\ r.s.ball = "rest"
      /\ r.htbl = k.htbl /\ r.stock[1] = k.stock[1] /\ r.stock[2] = 0 /\ r.stock[3] = k.stock[3]
  <2>1. "rest" \in Balls
    BY DEF Balls
  <2>2. Kept(r, n)
    BY <1>5, <2>1, BallSet
  <2>3. r \in Console
    BY <2>2, KeptChain
  <2> QED BY <1>5, <2>1, <2>3, BallSet
<1> HIDE DEF o, r
<1>8. /\ a.s.arm = {3} /\ a.s.pcount = NetCount /\ a.s.tbl = k.s.tbl /\ a.s.ball = "rest"
      /\ a.htbl = k.htbl /\ a.stock[1] = k.stock[1] /\ a.stock[2] = 0 /\ a.stock[3] = Interval[3]
  <2>1. /\ a.s.arm = r.s.arm \cup {3} /\ a.s.pcount = r.s.pcount /\ a.s.tbl = r.s.tbl
        /\ a.s.ball = r.s.ball /\ a.htbl = r.htbl /\ a.stock[1] = r.stock[1]
        /\ a.stock[2] = r.stock[2] /\ a.stock[3] = Interval[3]
    BY <1>4, <1>7, ArmSets
  <2> HIDE DEF a
  <2> QED BY <1>7, <2>1
<1> HIDE DEF a
<1>9. Roll(k) = IF ~Settles(d) THEN d ELSE IF d.s.strokes = MaxStrokes THEN o ELSE a
  BY DEF Roll, d, e, n, o, r, a
<1>10. CASE ~Settles(d)
  BY <1>0, <1>1, <1>9, <1>10 DEF Alike
<1>11. CASE Settles(d) /\ d.s.strokes = MaxStrokes
  BY <1>0, <1>6, <1>9, <1>11
<1>12. CASE Settles(d) /\ d.s.strokes # MaxStrokes
  BY <1>0, <1>8, <1>9, <1>12
<1> QED BY <1>10, <1>11, <1>12

Running(k) == k.htbl # "net null"

LEMMA Entry2Good ==
  ASSUME NEW k \in Console, Good(k), Running(k)
  PROVE  /\ Kept(Entry2(Walked(k, 2)), k) /\ Good(Entry2(Walked(k, 2)))
         /\ Running(Entry2(Walked(k, 2)))
<1> DEFINE w == Walked(k, 2)
           j == Entry2(w)
<1> SUFFICES Kept(j, k) /\ Good(j) /\ Running(j)
  OBVIOUS
<1>0. 2 \in 1 .. 3 /\ 1 \in 1 .. 3 /\ 3 \in 1 .. 3
  OBVIOUS
<1>i. Interval[2] = 3
  BY DEF Interval
<1>1. /\ Kept(w, k) /\ w.s = k.s /\ w.htbl = k.htbl
      /\ w.stock[1] = k.stock[1] /\ w.stock[3] = k.stock[3]
      /\ w.stock[2] = IF k.stock[2] = 1 THEN 3 ELSE IF k.stock[2] = 0 THEN 0 ELSE k.stock[2] - 1
  BY <1>0, <1>i, WalkedSets
<1>2. w \in Console
  BY <1>1, KeptChain
<1> HIDE DEF w, j
<1>3. k.s.cnt2 \in 1 .. 3 /\ k.s.arm \in SUBSET (1 .. 3)
  BY FieldTypes
<1>4. CASE 2 \notin w.s.arm
  <2>1. j = w
    BY <1>4 DEF Entry2, j
  <2>2. w.stock[2] = 0 /\ k.stock[2] = 0
    BY <1>1, <1>4 DEF Good, Paced
  <2>3. Alike(w, k)
    BY <1>1, <2>2 DEF Alike
  <2> QED BY <1>1, <2>1, <2>3, AlikeGood DEF Running
<1>5. CASE 2 \in w.s.arm /\ w.s.cnt2 # 1
  <2> DEFINE m == k.s.cnt2 - 1
             x == [w EXCEPT !.s.cnt2 = m]
  <2>1. m \in 1 .. 3 /\ j = x
    BY <1>1, <1>3, <1>5 DEF Entry2, j
  <2>a. w.stock[2] = m
    <3>1. k.stock[2] = k.s.cnt2
      BY <1>1, <1>5 DEF Good, Paced
    <3> QED BY <1>1, <1>3, <1>5, <3>1
  <2> HIDE DEF m
  <2>2. /\ Kept(x, w) /\ x.s.arm = k.s.arm /\ x.s.ball = k.s.ball /\ x.s.cnt2 = m
        /\ x.s.pcount = k.s.pcount /\ x.s.tbl = k.s.tbl /\ x.htbl = k.htbl /\ x.stock = w.stock
    <3>1. /\ Kept(x, w) /\ x.s.arm = w.s.arm /\ x.s.ball = w.s.ball /\ x.s.cnt2 = m
          /\ x.s.pcount = w.s.pcount /\ x.s.tbl = w.s.tbl /\ x.htbl = w.htbl /\ x.stock = w.stock
      BY <1>2, <2>1, CntSet
    <3> HIDE DEF x
    <3> QED BY <1>1, <3>1
  <2> HIDE DEF x
  <2>b. Armed(x.s)
    BY <2>2 DEF Good, Armed
  <2>c. Paced(x, 1) /\ Paced(x, 2) /\ Paced(x, 3)
    BY <1>1, <1>5, <2>a, <2>2 DEF Good, Paced
  <2>3. Good(x)
    BY <2>2, <2>b, <2>c DEF Good
  <2>4. Kept(x, k)
    BY <1>1, <2>2, KeptChain
  <2>5. Running(x)
    BY <2>2 DEF Running
  <2> QED BY <2>1, <2>3, <2>4, <2>5
<1>6. CASE 2 \in w.s.arm /\ w.s.cnt2 = 1
  <2> DEFINE r == Roll(w)
             x == [r EXCEPT !.s.cnt2 = Interval[2]]
  <2>1. j = x /\ w.stock[2] = 3
    <3>1. k.stock[2] = 1
      BY <1>1, <1>6 DEF Good, Paced
    <3> QED BY <1>1, <1>6, <3>1 DEF Entry2, j
  <2>2. /\ w.s.ball = "rolls" /\ w.s.arm = {2} /\ w.s.pcount = NetCount
        /\ w.stock[1] = 0 /\ w.stock[3] = 0 /\ w.htbl # "prompt"
    <3>1. k.s.ball = "rolls" /\ 1 \notin k.s.arm /\ 3 \notin k.s.arm
      BY <1>1, <1>6 DEF Good, Armed
    <3>2. k.s.arm = {2}
      <4>1. 2 \in k.s.arm
        BY <1>1, <1>6
      <4> HIDE DEF w
      <4> QED BY <1>3, <3>1, <4>1
    <3> QED BY <1>1, <3>1, <3>2 DEF Good, Paced
  <2>3. /\ Kept(r, w) /\ r.s.pcount = NetCount /\ r.s.tbl = w.s.tbl
        /\ r.htbl \in {w.htbl, "over"} /\ r.stock[1] = w.stock[1]
        /\ \/ /\ r.s.ball = "rolls" /\ r.s.arm = {2}
              /\ r.stock[2] = w.stock[2] /\ r.stock[3] = w.stock[3]
           \/ /\ r.s.ball = "over" /\ r.s.arm = {}
              /\ r.stock[2] = 0 /\ r.stock[3] = w.stock[3]
           \/ /\ r.s.ball = "rest" /\ r.s.arm = {3}
              /\ r.stock[2] = 0 /\ r.stock[3] = Interval[3]
    BY <1>2, <2>2, RollSets
  <2>4. r \in Console
    BY <2>3, KeptChain
  <2> HIDE DEF r
  <2>5. /\ Kept(x, r) /\ x.s.arm = r.s.arm /\ x.s.ball = r.s.ball /\ x.s.cnt2 = 3
        /\ x.s.pcount = r.s.pcount /\ x.s.tbl = r.s.tbl /\ x.htbl = r.htbl /\ x.stock = r.stock
    BY <1>0, <1>i, <2>4, CntSet
  <2> HIDE DEF x
  <2>6. Armed(x.s)
    <3>1. CASE r.s.ball = "rolls" /\ r.s.arm = {2}
      BY <2>5, <3>1 DEF Armed
    <3>2. CASE r.s.ball = "over" /\ r.s.arm = {}
      BY <2>5, <3>2 DEF Armed
    <3>3. CASE r.s.ball = "rest" /\ r.s.arm = {3}
      BY <2>5, <3>3 DEF Armed
    <3> QED BY <2>3, <3>1, <3>2, <3>3
  <2>7. Paced(x, 1) /\ Paced(x, 2) /\ Paced(x, 3)
    BY <2>1, <2>2, <2>3, <2>5 DEF Paced
  <2>8. Good(x) /\ Running(x)
    BY <1>1, <2>2, <2>3, <2>5, <2>6, <2>7 DEF Good, Running
  <2>9. Kept(x, k)
    BY <1>1, <2>3, <2>5, KeptChain
  <2> QED BY <2>1, <2>8, <2>9
<1> QED BY <1>4, <1>5, <1>6

LEMMA SwingGood ==
  ASSUME NEW k \in Console, Good(k), 3 \in k.s.arm
  PROVE  Kept(Swing(k), k) /\ Good(Swing(k)) /\ Swing(k).htbl = k.htbl
<1> DEFINE by == IF k.shadow[1] = "disc" THEN 0 ELSE 1
           d  == Rand(k)
           f  == [d EXCEPT !.s.ball = "flies", !.s.strokes = @ + 1, !.swung = by]
           n  == Stop(f, 3)
           a  == Arm(n, 1)
<1>0. 2 \in 1 .. 3 /\ 1 \in 1 .. 3 /\ 3 \in 1 .. 3 /\ Interval[1] = 1 /\ by \in 0 .. 1
  BY DEF Interval
<1>1. d \in Console /\ Alike(d, k)
  BY RandCells, RandAlike, KeptChain
<1> HIDE DEF d, by
<1>2. /\ f \in Console
      /\ f.s.arm = d.s.arm /\ f.s.pcount = d.s.pcount /\ f.s.tbl = d.s.tbl /\ f.s.ball = "flies"
      /\ f.s.cnt2 = d.s.cnt2 /\ f.htbl = d.htbl /\ f.stock = d.stock
  <2> DEFINE t == [d.s EXCEPT !.ball = "flies", !.strokes = @ + 1]
  <2>1. d.s \in Cells /\ d.s.strokes + 1 \in Nat
    BY <1>1, FieldTypes
  <2>2. /\ t \in Cells /\ t.arm = d.s.arm /\ t.pcount = d.s.pcount /\ t.tbl = d.s.tbl
        /\ t.ball = "flies" /\ t.cnt2 = d.s.cnt2
    BY <2>1 DEF Cells, Balls
  <2>3. f = [d EXCEPT !.s = t, !.swung = by]
    BY <1>1, <2>1 DEF Console, Cells
  <2> HIDE DEF f, t
  <2>4. f \in Console /\ f.s = t /\ f.htbl = d.htbl /\ f.stock = d.stock
    BY <1>0, <1>1, <2>2, <2>3 DEF Console
  <2> QED BY <2>2, <2>4
<1> HIDE DEF f
<1>3. n \in Console
  <2>1. Kept(n, f)
    BY <1>0, <1>2, StopCells
  <2> QED BY <2>1, KeptChain
<1>4. /\ n.s.arm = f.s.arm \ {3} /\ n.s.pcount = f.s.pcount /\ n.s.tbl = f.s.tbl
      /\ n.s.ball = f.s.ball /\ n.htbl = f.htbl
      /\ n.stock[1] = f.stock[1] /\ n.stock[2] = f.stock[2] /\ n.stock[3] = 0
  BY <1>0, <1>2, StopSets
<1> HIDE DEF n
<1>5. /\ a.s.arm = n.s.arm \cup {1} /\ a.s.pcount = n.s.pcount /\ a.s.tbl = n.s.tbl
      /\ a.s.ball = n.s.ball /\ a.htbl = n.htbl
      /\ a.stock[1] = 1 /\ a.stock[2] = n.stock[2] /\ a.stock[3] = n.stock[3]
  BY <1>0, <1>3, ArmSets
<1> HIDE DEF a
<1>6. /\ k.s.ball = "rest" /\ k.s.arm = {3} /\ k.s.pcount = NetCount /\ k.stock[2] = 0
      /\ k.htbl # "prompt" /\ ~(k.htbl = "net null" /\ k.s.tbl = "prompt")
  <2>1. k.s.ball = "rest" /\ 2 \notin k.s.arm /\ 1 \notin k.s.arm
    BY DEF Good, Armed
  <2>2. k.s.arm = {3}
    BY <2>1, FieldTypes
  <2> QED BY <2>1, <2>2 DEF Good, Paced
<1>7. /\ a.s.arm = {1} /\ a.s.pcount = NetCount /\ a.s.tbl = k.s.tbl /\ a.s.ball = "flies"
      /\ a.htbl = k.htbl /\ a.stock[1] = 1 /\ a.stock[2] = 0 /\ a.stock[3] = 0
  <2>1. d.s.arm = {3} /\ d.s.pcount = NetCount /\ d.s.tbl = k.s.tbl /\ d.htbl = k.htbl
        /\ d.stock[2] = 0
    BY <1>1, <1>6 DEF Alike
  <2>2. f.s.arm = {3} /\ f.s.pcount = NetCount /\ f.s.tbl = k.s.tbl /\ f.htbl = k.htbl
        /\ f.s.ball = "flies" /\ f.stock[2] = 0
    BY <1>2, <2>1
  <2>3. n.s.arm = {} /\ n.s.pcount = NetCount /\ n.s.tbl = k.s.tbl /\ n.htbl = k.htbl
        /\ n.s.ball = "flies" /\ n.stock[2] = 0 /\ n.stock[3] = 0
    BY <1>4, <2>2
  <2> QED BY <1>5, <2>3
<1>8. Good(a)
  <2>1. Armed(a.s)
    BY <1>7 DEF Armed
  <2>2. Paced(a, 1) /\ Paced(a, 2) /\ Paced(a, 3)
    BY <1>0, <1>7 DEF Paced
  <2> QED BY <1>6, <1>7, <2>1, <2>2 DEF Good
<1>9. Swing(k) = IF "disc" \notin {k.shadow[1], k.shadow[2]} THEN k ELSE a
  BY DEF Swing, f, d, by, n, a
<1> QED BY <1>7, <1>8, <1>9, SwingKeeps

LEMMA Entry1Good ==
  ASSUME NEW k \in Console, Good(k), Running(k)
  PROVE  /\ Kept(Entry1(Walked(k, 1)), k) /\ Good(Entry1(Walked(k, 1)))
         /\ Running(Entry1(Walked(k, 1)))
<1> DEFINE a == Walked(k, 1)
<1>1. Kept(a, k) /\ Good(a) /\ a.htbl = k.htbl
  BY WalkedGood
<1>2. a \in Console
  BY <1>1, KeptChain
<1> HIDE DEF a
<1>3. Kept(Entry1(a), a) /\ Good(Entry1(a)) /\ Entry1(a).htbl = a.htbl
  <2>1. CASE 1 \in a.s.arm
    BY <1>1, <1>2, <2>1, FlightKeeps, FlightGood DEF Entry1
  <2>2. CASE 1 \notin a.s.arm
    BY <1>1, <1>2, <2>2, KeptChain DEF Entry1
  <2> QED BY <2>1, <2>2
<1> QED BY <1>1, <1>3, KeptChain DEF Running, a

LEMMA Entry3Good ==
  ASSUME NEW k \in Console, Good(k), Running(k)
  PROVE  /\ Kept(Entry3(Walked(k, 3)), k) /\ Good(Entry3(Walked(k, 3)))
         /\ Running(Entry3(Walked(k, 3)))
<1> DEFINE a == Walked(k, 3)
<1>1. Kept(a, k) /\ Good(a) /\ a.htbl = k.htbl
  BY WalkedGood
<1>2. a \in Console
  BY <1>1, KeptChain
<1> HIDE DEF a
<1>3. Kept(Entry3(a), a) /\ Good(Entry3(a)) /\ Entry3(a).htbl = a.htbl
  <2>1. CASE 3 \in a.s.arm
    BY <1>1, <1>2, <2>1, SwingGood DEF Entry3
  <2>2. CASE 3 \notin a.s.arm
    BY <1>1, <1>2, <2>2, KeptChain DEF Entry3
  <2> QED BY <2>1, <2>2
<1> QED BY <1>1, <1>3, KeptChain DEF Running, a

LEMMA EntriesGood ==
  ASSUME NEW k \in Console, Good(k), Running(k)
  PROVE  LET j == GameEntries(k) IN
         /\ j \in Console /\ Good(j) /\ Running(j)
         /\ j.tick = k.tick /\ j.pc = k.pc
         /\ j.quiescent => j.s.arm \cap {1, 2} = {}
<1> DEFINE b == Entry1(Walked(k, 1))
           c == Entry2(Walked(b, 2))
           e == Entry3(Walked(c, 3))
<1>1. Kept(b, k) /\ Good(b) /\ Running(b)
  BY Entry1Good
<1>2. b \in Console
  BY <1>1, KeptChain
<1> HIDE DEF b
<1>3. Kept(c, b) /\ Good(c) /\ Running(c)
  BY <1>1, <1>2, Entry2Good
<1>4. c \in Console
  BY <1>3, KeptChain
<1> HIDE DEF c
<1>5. Kept(e, c) /\ Good(e) /\ Running(e)
  BY <1>3, <1>4, Entry3Good
<1> HIDE DEF e
<1>6. Kept(e, k)
  BY <1>1, <1>3, <1>5, KeptChain
<1>7. GameEntries(k) = Flag(e)
  BY DEF GameEntries, b, c, e
<1> DEFINE f == Flag(e)
<1>8. /\ f \in Console /\ f.tick = e.tick /\ f.pc = e.pc /\ Alike(f, e)
      /\ f.quiescent => f.s.arm \cap {1, 2} = {}
  BY <1>6 DEF Flag, Console, Kept, Alike
<1>9. Good(f) /\ Running(f)
  BY <1>5, <1>8, AlikeGood DEF Alike, Running
<1> QED BY <1>6, <1>7, <1>8, <1>9 DEF Kept

(* The table of the tick, and the null table in between.                   *)
LEMMA AdoptSets ==
  ASSUME NEW k \in Console
  PROVE  LET j == Adopt(k) IN
         /\ Kept(j, k) /\ j.htbl = k.htbl /\ j.stock = k.stock
         /\ j.s.tbl = (IF k.htbl = "net null" THEN k.s.tbl ELSE k.htbl)
         /\ j.s.arm = k.s.arm /\ j.s.ball = k.s.ball /\ j.s.cnt2 = k.s.cnt2
         /\ j.s.pcount = k.s.pcount
<1>1. CASE k.htbl = "net null"
  BY <1>1, KeptChain DEF Adopt
<1>2. CASE k.htbl # "net null"
  <2> DEFINE t == [k.s EXCEPT !.tbl = k.htbl]
  <2>1. k.s \in Cells /\ k.htbl \in {"prompt", "live", "over"}
    BY <1>2, FieldTypes DEF Tables
  <2>2. /\ t \in Cells /\ t.tbl = k.htbl /\ t.arm = k.s.arm /\ t.ball = k.s.ball
        /\ t.cnt2 = k.s.cnt2 /\ t.pcount = k.s.pcount
    BY <2>1 DEF Cells
  <2>3. Adopt(k) = [k EXCEPT !.s = t]
    BY <1>2 DEF Adopt
  <2> HIDE DEF t
  <2>4. /\ Kept(Adopt(k), k) /\ Adopt(k).s = t /\ Adopt(k).htbl = k.htbl
        /\ Adopt(k).stock = k.stock
    BY <2>2, <2>3, CellsSet
  <2> QED BY <1>2, <2>2, <2>4
<1> QED BY <1>1, <1>2

LEMMA ParkGood ==
  ASSUME NEW k \in Console, Good(k), Running(k)
  PROVE  LET j == Park(k) IN
         /\ j \in Console /\ Good(j) /\ j.htbl = "net null" /\ j.s.tbl # "none"
         /\ j.tick = k.tick /\ j.pc = k.pc /\ j.quiescent = k.quiescent
         /\ j.s.ball = k.s.ball
<1> DEFINE a == Adopt(k)
           j == Park(k)
<1>1. /\ Kept(a, k) /\ a.htbl = k.htbl /\ a.stock = k.stock /\ a.s.tbl = k.htbl
      /\ a.s.arm = k.s.arm /\ a.s.ball = k.s.ball /\ a.s.cnt2 = k.s.cnt2
      /\ a.s.pcount = k.s.pcount
  BY AdoptSets DEF Running
<1> HIDE DEF a
<1>2. j = [a EXCEPT !.htbl = "net null"] /\ a \in Console
  BY <1>1, KeptChain DEF Park, a
<1> HIDE DEF j
<1>3. /\ j \in Console /\ j.htbl = "net null" /\ j.s = a.s /\ j.stock = a.stock
      /\ j.tick = a.tick /\ j.pc = a.pc /\ j.quiescent = a.quiescent
  BY <1>2 DEF Console, Tables
<1>4. Armed(j.s) /\ Paced(j, 1) /\ Paced(j, 2) /\ Paced(j, 3)
  BY <1>1, <1>3 DEF Good, Armed, Paced
<1>5. Good(j)
  BY <1>1, <1>3, <1>4 DEF Good
<1>6. k.htbl \in {"prompt", "live", "over"}
  BY FieldTypes DEF Tables, Running
<1> QED BY <1>1, <1>3, <1>5, <1>6 DEF j, Kept

(* A console at its gate shows the game no table, but before its first     *)
(* tick.                                                                   *)
Parked(k) == IF k.tick = 0 THEN k.htbl = "prompt" /\ k.s.tbl = "none"
             ELSE k.htbl = "net null" /\ k.s.tbl # "none"

LEMMA InstallGood ==
  ASSUME NEW k \in Console, Good(k), Parked(k)
  PROVE  LET j == Install(Adopt(k)) IN
         Kept(j, k) /\ Good(j) /\ Running(j) /\ j.htbl = j.s.tbl
<1> DEFINE a == Adopt(k)
           j == Install(a)
<1>0. k.tick \in Nat /\ k.s.tbl \in {"none", "prompt", "live", "over"}
  BY FieldTypes DEF Console
<1>1. /\ Kept(a, k) /\ a.htbl = k.htbl /\ a.stock = k.stock
      /\ a.s.tbl = (IF k.htbl = "net null" THEN k.s.tbl ELSE k.htbl)
      /\ a.s.arm = k.s.arm /\ a.s.ball = k.s.ball /\ a.s.cnt2 = k.s.cnt2
      /\ a.s.pcount = k.s.pcount
  BY AdoptSets
<1> HIDE DEF a
<1>2. a \in Console /\ a.s.tbl \in {"prompt", "live", "over"}
  BY <1>0, <1>1, KeptChain DEF Parked
<1>3. j = [a EXCEPT !.htbl = a.s.tbl]
  BY <1>2 DEF Install
<1> HIDE DEF j
<1>4. Kept(j, a) /\ j.s = a.s /\ j.stock = a.stock /\ j.htbl = a.s.tbl
  BY <1>2, <1>3 DEF Console, Tables, Kept
<1>5. Kept(j, k) /\ Running(j)
  BY <1>1, <1>2, <1>4, KeptChain DEF Running
<1>6. Armed(j.s) /\ Paced(j, 1) /\ Paced(j, 2) /\ Paced(j, 3)
  BY <1>1, <1>4 DEF Good, Armed, Paced
<1>7. Good(j)
  <2>1. CASE k.tick = 0
    BY <1>1, <1>2, <1>4, <1>6, <2>1 DEF Good, Parked
  <2>2. CASE k.tick # 0
    BY <1>1, <1>2, <1>4, <1>6, <2>2 DEF Good, Parked
  <2> QED BY <2>1, <2>2
<1> QED BY <1>4, <1>5, <1>7 DEF j, a

(* The same console in the same tick.                                      *)
Going(j, k) == /\ j \in Console /\ Good(j)
               /\ j.tick = k.tick /\ j.pc = k.pc /\ j.quiescent = k.quiescent

(* The injector's two events, and the arbiter: in the prompt nobody is the *)
(* controlling seat.                                                       *)
LEMMA ArbiterGood ==
  ASSUME NEW k \in Console, Good(k), Running(k), k.htbl = k.s.tbl
  PROVE  /\ Going(Arbiter(k), k) /\ Running(Arbiter(k))
         /\ Arbiter(k).seat = Nobody \/ Arbiter(k).htbl # "prompt"
<1>1. CASE k.s.tbl = "prompt"
  <2> DEFINE i == [k EXCEPT !.seat = Nobody]
             n == (i.s.inj + 1) % 256
             j == [i EXCEPT !.s.inj = n]
  <2>1. i \in Console /\ i.s = k.s /\ i.htbl = k.htbl /\ i.stock = k.stock /\ i.seat = Nobody
        /\ i.tick = k.tick /\ i.pc = k.pc /\ i.quiescent = k.quiescent
    BY DEF Console
  <2> HIDE DEF i
  <2>2. n \in 0 .. 255
    <3>1. i.s.inj \in 0 .. 255
      BY <2>1, FieldTypes
    <3>2. \A x \in 0 .. 255 : (x + 1) % 256 \in 0 .. 255
      OBVIOUS
    <3> HIDE DEF j
    <3> QED BY <3>1, <3>2
  <2> HIDE DEF n
  <2>3. Kept(j, i) /\ Alike(j, i)
    <3> DEFINE t == [i.s EXCEPT !.inj = n]
    <3>1. i.s \in Cells /\ j = [i EXCEPT !.s = t]
      BY <2>1 DEF Console
    <3>2. /\ t \in Cells /\ t.arm = i.s.arm /\ t.ball = i.s.ball /\ t.cnt2 = i.s.cnt2
          /\ t.pcount = i.s.pcount /\ t.tbl = i.s.tbl
      BY <2>2, <3>1 DEF Cells
    <3> HIDE DEF t, j
    <3>3. Kept(j, i) /\ j.s = t /\ j.htbl = i.htbl /\ j.stock = i.stock
      BY <2>1, <3>1, <3>2, CellsSet
    <3> QED BY <3>2, <3>3 DEF Alike
  <2> HIDE DEF j
  <2>4. Alike(j, k) /\ j \in Console
    BY <2>1, <2>3, KeptChain DEF Alike
  <2>5. Good(j) /\ Running(j)
    BY <2>4, AlikeGood DEF Alike, Running
  <2>6. NetCount \in Int /\ Enter \in Int /\ 2 \in Int
    BY Params DEF Enter
  <2>7. \A v \in {NetCount, Enter} :
          Kept(Handler(j, 2, v), j) /\ Good(Handler(j, 2, v)) /\ Running(Handler(j, 2, v))
    <3> TAKE v \in {NetCount, Enter}
    <3>1. v \in Int
      BY <2>6
    <3>2. Kept(Handler(j, 2, v), j)
      BY <2>4, <2>6, <3>1, HandlerKeeps
    <3>3. Good(Handler(j, 2, v))
      BY <2>4, <2>5, <2>6, <3>1, HandlerGood
    <3>4. Running(Handler(j, 2, v))
      BY <2>4, <2>5, <2>6, <3>1, HandlerGood DEF Running
    <3> QED BY <3>2, <3>3, <3>4
  <2>8. Arbiter(k) \in {j, Handler(j, 2, NetCount), Handler(j, 2, Enter)}
    BY <1>1 DEF Arbiter, Inject, i, n, j
  <2>9. Kept(Arbiter(k), j) /\ Good(Arbiter(k)) /\ Running(Arbiter(k))
    BY <2>4, <2>5, <2>7, <2>8, KeptChain
  <2> QED BY <2>1, <2>3, <2>9 DEF Kept, Going
<1>2. CASE k.s.tbl # "prompt"
  <2> DEFINE q == k.s.cur % 4
             j == Arbiter(k)
  <2>1. q \in Seats /\ j = [k EXCEPT !.seat = q]
    BY <1>2, FieldTypes DEF Seats, Arbiter
  <2> HIDE DEF q, j
  <2>2. /\ j \in Console /\ j.s = k.s /\ j.htbl = k.htbl /\ j.stock = k.stock
        /\ j.tick = k.tick /\ j.pc = k.pc /\ j.quiescent = k.quiescent
    BY <2>1 DEF Console
  <2>3. Good(j) /\ Running(j)
    BY <2>2, AlikeGood DEF Alike, Running
  <2> QED BY <1>2, <2>2, <2>3 DEF j, Going
<1> QED BY <1>1, <1>2

(* The events of a tick go to the table in play.                           *)
Playing(k) == Running(k) /\ k.htbl # "prompt"

LEMMA EventGood ==
  ASSUME NEW k \in Console, Good(k), Playing(k), NEW slot \in Int, NEW v \in Int
  PROVE  Kept(Handler(k, slot, v), k) /\ Good(Handler(k, slot, v)) /\ Playing(Handler(k, slot, v))
BY HandlerKeeps, HandlerGood DEF Playing, Running

LEMMA DispatchGood ==
  ASSUME NEW k \in Console, Good(k), Running(k), k.seat = Nobody \/ k.htbl # "prompt",
         NEW pg \in Pages
  PROVE  Going(Dispatch(k, pg), k) /\ Running(Dispatch(k, pg))
<1>1. CASE k.seat = Nobody
  BY <1>1 DEF Dispatch, Going
<1>2. CASE k.seat # Nobody
  <2> DEFINE was == pg[Slot(k.tick - 1)][k.seat]
             is  == pg[Slot(k.tick)][k.seat]
             r == Release(k, was, is)
             h == Hold(r, was, is)
             d == Decode(h, was, is)
  <2>1. k.tick \in Nat /\ k.seat \in Seats /\ Playing(k)
    BY <1>2 DEF Console, Playing
  <2>2. Slot(k.tick) \in 0 .. Byte - 1 /\ Slot(k.tick - 1) \in 0 .. Byte - 1
    BY <2>1, Params DEF Slot
  <2>3. was.kp \in Int /\ is.kp \in Int
    BY <2>1, <2>2 DEF Pages
  <2> HIDE DEF was, is
  <2>4. Kept(r, k) /\ Good(r) /\ Playing(r)
    <3>1. 2 * was.kp + 2 \in Int /\ -1 \in Int
      BY <2>3
    <3> QED BY <2>1, <3>1, EventGood, KeptChain DEF Release
  <2>5. r \in Console
    BY <2>4, KeptChain
  <2> HIDE DEF r
  <2>6. Kept(h, r) /\ Good(h) /\ Playing(h)
    <3>1. 2 * is.kp + 2 \in Int /\ 0 \in Int /\ 1 \in Int
      BY <2>3
    <3> QED BY <2>4, <2>5, <3>1, EventGood, KeptChain DEF Hold
  <2>7. h \in Console
    BY <2>6, KeptChain
  <2> HIDE DEF h
  <2>8. Kept(d, h) /\ Good(d) /\ Playing(d)
    <3>1. /\ Kept(h, h)
          /\ \A x, v \in Int : Kept(Handler(h, x, v), h) /\ Good(Handler(h, x, v)) /\ Playing(Handler(h, x, v))
      BY <2>6, <2>7, EventGood, KeptChain
    <3>2. 0 \in Int /\ 4 \in Int /\ 2 \in Int /\ 9 \in Int /\ -1 \in Int
      OBVIOUS
    <3>3. d \in {h, Handler(h, 0, 4), Handler(h, 2, 9), Handler(h, 0, -1)}
      BY DEF Decode
    <3> QED BY <2>6, <3>1, <3>2, <3>3
  <2> HIDE DEF d
  <2>9. Kept(d, k)
    BY <2>4, <2>6, <2>8, KeptChain
  <2>10. Dispatch(k, pg) = d
    BY <1>2 DEF Dispatch, was, is, r, h, d
  <2> QED BY <2>8, <2>9, <2>10 DEF Kept, Going, Playing
<1> QED BY <1>1, <1>2

LEMMA ReplayGood ==
  ASSUME NEW k \in Console, Good(k), Parked(k), NEW pg \in Pages
  PROVE  Going(Replay(k, pg), k) /\ Running(Replay(k, pg))
<1> DEFINE p == FromPads(k)
           i == Install(Adopt(p))
           a == Arbiter(i)
           f == FromRings(a, pg)
<1>1. Going(p, k) /\ Parked(p)
  <2>1. /\ p \in Console /\ p.s = k.s /\ p.htbl = k.htbl /\ p.stock = k.stock
        /\ p.tick = k.tick /\ p.pc = k.pc /\ p.quiescent = k.quiescent
    BY DEF FromPads, Console, Decs
  <2>2. Good(p)
    BY <2>1, AlikeGood DEF Alike
  <2> QED BY <2>1, <2>2 DEF Going, Parked
<1> HIDE DEF p
<1>2. Going(i, k) /\ Running(i) /\ i.htbl = i.s.tbl
  <2>1. p \in Console /\ Good(p)
    BY <1>1 DEF Going
  <2>2. Kept(i, p) /\ Good(i) /\ Running(i) /\ i.htbl = i.s.tbl
    BY <1>1, <2>1, InstallGood
  <2> QED BY <1>1, <2>2 DEF Kept, Going
<1> HIDE DEF i
<1>3. Going(a, k) /\ Running(a) /\ (a.seat = Nobody \/ a.htbl # "prompt")
  <2>1. i \in Console /\ Good(i)
    BY <1>2 DEF Going
  <2>2. Going(a, i) /\ Running(a) /\ (a.seat = Nobody \/ a.htbl # "prompt")
    BY <1>2, <2>1, ArbiterGood
  <2> QED BY <1>2, <2>2 DEF Going
<1> HIDE DEF a
<1>4. Going(f, k) /\ Running(f) /\ (f.seat = Nobody \/ f.htbl # "prompt")
  <2> DEFINE x == pg[Slot(a.tick)][0].dec
             y == pg[Slot(a.tick)][1].dec
  <2>1. a \in Console /\ a.tick \in Nat /\ Good(a)
    BY <1>3 DEF Console, Going
  <2>2. Slot(a.tick) \in 0 .. Byte - 1 /\ 0 \in Seats /\ 1 \in Seats
    BY <2>1, Params DEF Slot, Seats
  <2>3. x \in Decs /\ y \in Decs
    BY <2>2 DEF Pages
  <2>4. f = [a EXCEPT !.shadow = <<x, y>>]
    BY DEF FromRings
  <2> HIDE DEF x, y, f
  <2>5. /\ f \in Console /\ f.s = a.s /\ f.htbl = a.htbl /\ f.stock = a.stock /\ f.seat = a.seat
        /\ f.tick = a.tick /\ f.pc = a.pc /\ f.quiescent = a.quiescent
    BY <2>1, <2>3, <2>4 DEF Console
  <2>6. Good(f)
    BY <2>1, <2>5, AlikeGood DEF Alike
  <2> QED BY <1>3, <2>5, <2>6 DEF Going, Running
<1> HIDE DEF f
<1>5. Replay(k, pg) = Dispatch(f, pg)
  BY DEF Replay, p, i, a, f
<1>6. Going(Dispatch(f, pg), f) /\ Running(Dispatch(f, pg))
  BY <1>4, DispatchGood DEF Going
<1> QED BY <1>4, <1>5, <1>6 DEF Going

-----------------------------------------------------------------------------
(* The invariant of each console, and the inputs they share: how far apart *)
(* the ticks are that consoles may be in, and for how long a slot of the   *)
(* pages stays what it is.                                                 *)
Sane(k) == /\ k \in Console /\ Good(k)
           /\ IF k.pc = "gate" THEN Parked(k) ELSE Running(k)
Typed ==
  /\ con \in [Consoles -> Console] /\ page \in Pages /\ known \in Nat
  /\ events \in 0 .. MaxEvents /\ fault \in {"never", "astray", "repaired"}
Apace(c) ==
  /\ con[c].tick <= known /\ (con[c].pc = "tick" => con[c].tick < known)
  /\ known <= con[c].tick + MaxSkew + 1
  /\ con[c].pc = "tick" => \A d \in Consoles : con[c].tick <= con[d].tick + MaxSkew
TypeInv ==
  /\ Typed /\ QuiescentIsRest
  /\ \A c \in Consoles : Sane(con[c]) /\ Apace(c)

LEMMA PageTypes ==
  /\ IdlePage \in Pages
  /\ OneInput \subseteq [Seats -> [dec : Decs, kp : {0, 1}]]
  /\ 0 \in 0 .. Byte - 1
<1>1. Idle \in [dec : Decs, kp : {0, 1}]
  BY DEF Idle, Decs
<1>2. IdlePage \in Pages
  BY <1>1 DEF IdlePage, Pages
<1>3. 0 \in 0 .. Byte - 1
  BY Params
<1>4. Pressed \subseteq [dec : Decs, kp : {0, 1}]
  BY <1>1 DEF Pressed, Idle, Decs
<1>5. IdlePage[0] \in [Seats -> [dec : Decs, kp : {0, 1}]]
  BY <1>2, <1>3 DEF Pages
<1> DEFINE Row == [dec : Decs, kp : {0, 1}]
<1> HIDE DEF Row
<1>6. \A q \in 0 .. NetCount - 1, x \in Pressed : [IdlePage[0] EXCEPT ![q] = x] \in [Seats -> Row]
  BY <1>4, <1>5 DEF Row
<1>7. OneInput \subseteq [Seats -> Row]
  BY <1>6 DEF OneInput
<1> QED BY <1>2, <1>3, <1>7 DEF Row

LEMMA StartSane ==
  Start \in Console /\ Sane(Start) /\ Start.tick = 0 /\ Start.pc = "gate" /\ Start.quiescent = FALSE
<1> DEFINE s0 == [cur |-> 0, pcount |-> 0, digit |-> 0, ball |-> "none", club |-> <<>>,
                  strokes |-> 0, rng |-> 0, arm |-> {}, cnt2 |-> Interval[2], inj |-> 0,
                  tbl |-> "none"]
<1>1. Interval[2] = 3
  BY DEF Interval
<1>2. s0 \in Cells /\ s0.arm = {} /\ s0.ball = "none" /\ s0.tbl = "none"
  BY <1>1 DEF Cells, Balls, Clubs
<1> HIDE DEF s0
<1>3. <<"rest", "rest">> \in Decs \X Decs
  BY DEF Decs
<1>4. <<0, 0, 0>> \in [1 .. 3 -> 0 .. 3]
  OBVIOUS
<1>5. /\ Start.tick = 0 /\ Start.pc = "gate" /\ Start.quiescent = FALSE /\ Start.s = s0
      /\ Start.htbl = "prompt" /\ Start.stock = <<0, 0, 0>>
  BY DEF Start, s0
<1>6. Start \in Console
  BY <1>2, <1>3, <1>4 DEF Start, Console, Tables, Seats, s0
<1>7. Good(Start)
  <2>1. Start.stock[1] = 0 /\ Start.stock[2] = 0 /\ Start.stock[3] = 0
    BY <1>5
  <2>2. Paced(Start, 1) /\ Paced(Start, 2) /\ Paced(Start, 3)
    BY <1>2, <1>5, <2>1 DEF Paced
  <2>3. Armed(Start.s)
    BY <1>2, <1>5 DEF Armed
  <2> QED BY <1>2, <1>5, <2>2, <2>3 DEF Good
<1>8. Parked(Start)
  BY <1>2, <1>5 DEF Parked
<1> QED BY <1>5, <1>6, <1>7, <1>8 DEF Sane

LEMMA TypeInit == Init => TypeInv
<1> SUFFICES ASSUME Init PROVE TypeInv
  OBVIOUS
<1>1. con = [c \in Consoles |-> Start] /\ page = IdlePage /\ known = MaxSkew - 1
      /\ events = 0 /\ fault = "never"
  BY DEF Init
<1>2. \A c \in Consoles : con[c] = Start
  BY <1>1
<1>3. Typed
  BY <1>1, StartSane, PageTypes, Params DEF Typed
<1>4. QuiescentIsRest
  BY <1>2, StartSane, Params DEF QuiescentIsRest
<1>5. \A c \in Consoles : con[c].tick = 0 /\ con[c].pc = "gate" /\ Sane(con[c])
  BY <1>2, StartSane
<1>6. known \in Nat /\ known <= MaxSkew + 1
  BY <1>1, Params
<1>7. \A c \in Consoles : Apace(c)
  <2> TAKE c \in Consoles
  <2>1. con[c].tick = 0 /\ con[c].pc # "tick"
    BY <1>5
  <2>2. 0 <= known /\ known <= 0 + MaxSkew + 1
    BY <1>6, Params
  <2> QED BY <2>1, <2>2 DEF Apace
<1> QED BY <1>3, <1>4, <1>5, <1>7 DEF TypeInv

(* A step of one console.                                                  *)
LEMMA KeepFacts ==
  ASSUME con \in [Consoles -> Console], NEW c \in Consoles, NEW k \in Console, Keep(c, k)
  PROVE  /\ con' \in [Consoles -> Console] /\ con'[c] = k
         /\ \A d \in Consoles : d # c => con'[d] = con[d]
BY DEF Keep

(* A console whose gate, tick and table stay what they were.               *)
LEMMA AsideKept ==
  ASSUME TypeInv, NEW c \in Consoles, NEW k \in Console, Keep(c, k), Alike(k, con[c]),
         k.tick = con[c].tick, k.pc = con[c].pc, k.quiescent = con[c].quiescent,
         page' = page, known' = known, events' \in 0 .. MaxEvents,
         fault' \in {"never", "astray", "repaired"}
  PROVE  TypeInv'
<1>1. /\ con \in [Consoles -> Console] /\ page \in Pages /\ known \in Nat
      /\ \A d \in Consoles : Sane(con[d]) /\ Apace(d)
  BY DEF TypeInv, Typed
<1>2. /\ con' \in [Consoles -> Console] /\ con'[c] = k
      /\ \A d \in Consoles : d # c => con'[d] = con[d]
  BY <1>1, KeepFacts
<1>3. Sane(k)
  BY <1>1, AlikeGood DEF Sane, Alike, Parked, Running
<1>4. \A d \in Consoles : con'[d].tick = con[d].tick /\ con'[d].pc = con[d].pc
  BY <1>2
<1>5. \A d \in Consoles : Sane(con'[d]) /\ Apace(d)'
  BY <1>1, <1>2, <1>3, <1>4 DEF Apace
<1>6. QuiescentIsRest'
  <2>1. /\ con'[Host].pc = con[Host].pc /\ con'[Host].quiescent = con[Host].quiescent
        /\ con'[Host].s.ball = con[Host].s.ball
    BY <1>2, Params DEF Alike
  <2> QED BY <2>1 DEF TypeInv, QuiescentIsRest, Between
<1> QED BY <1>1, <1>2, <1>5, <1>6 DEF TypeInv, Typed

LEMMA OpenGateType ==
  ASSUME TypeInv, NEW c \in Consoles, OpenGate(c)
  PROVE  /\ TypeInv'
         /\ Going(Replay(con[c], page'), con[c]) /\ Running(Replay(con[c], page'))
         /\ con'[c] = [Replay(con[c], page') EXCEPT !.pc = "tick"]
<1> USE Params
<1>1. /\ con \in [Consoles -> Console] /\ page \in Pages /\ known \in Nat /\ con[c] \in Console
      /\ events \in 0 .. MaxEvents
      /\ \A d \in Consoles : Sane(con[d]) /\ Apace(d)
  BY DEF TypeInv, Typed
<1>2. \A d \in Consoles : con[d].tick \in Nat /\ con[d].tick <= known
  BY <1>1 DEF Console, Apace
<1>3. /\ con[c].pc = "gate" /\ (\A d \in Consoles : con[c].tick <= con[d].tick + MaxSkew)
      /\ Keep(c, [Replay(con[c], page') EXCEPT !.pc = "tick"]) /\ fault' = fault
  BY DEF OpenGate, GateOpen
<1>4. page' \in Pages /\ events' \in 0 .. MaxEvents
  <2>1. Slot(known) \in 0 .. Byte - 1
    BY <1>1 DEF Slot
  <2>2. page' = page \/ \E x \in {IdlePage[0]} \cup OneInput : page' = [page EXCEPT ![Slot(known)] = x]
    BY DEF OpenGate
  <2>3. {IdlePage[0]} \cup OneInput \subseteq [Seats -> [dec : Decs, kp : {0, 1}]]
    BY PageTypes DEF Pages
  <2>4. page' \in Pages
    BY <1>1, <2>1, <2>2, <2>3 DEF Pages
  <2> QED BY <1>1, <2>4 DEF OpenGate
<1>5. known' \in Nat /\ con[c].tick < known' /\ known <= known'
      /\ \A d \in Consoles : known' <= con[d].tick + MaxSkew + 1
  <2>1. CASE con[c].tick < known
    BY <1>1, <1>2, <2>1 DEF OpenGate, Apace
  <2>2. CASE ~(con[c].tick < known)
    BY <1>1, <1>2, <1>3, <2>2 DEF OpenGate
  <2> QED BY <2>1, <2>2
<1> DEFINE r == Replay(con[c], page')
           k == [r EXCEPT !.pc = "tick"]
<1>6. Going(r, con[c]) /\ Running(r)
  BY <1>1, <1>3, <1>4, ReplayGood DEF Sane
<1> HIDE DEF r
<1>7. /\ k \in Console /\ k.pc = "tick" /\ k.tick = con[c].tick /\ Alike(k, r) /\ Running(k)
  BY <1>6 DEF Going, Console, Alike, Running
<1>8. Sane(k)
  <2>1. Good(k)
    BY <1>6, <1>7, AlikeGood DEF Going
  <2> HIDE DEF k
  <2> QED BY <1>7, <2>1 DEF Sane
<1>9. /\ con' \in [Consoles -> Console] /\ con'[c] = k
      /\ \A d \in Consoles : d # c => con'[d] = con[d]
  BY <1>1, <1>3, <1>7, KeepFacts DEF r
<1> HIDE DEF k
<1>10. \A d \in Consoles : con'[d].tick = con[d].tick /\ (d # c => con'[d].pc = con[d].pc)
  BY <1>7, <1>9
<1>11. \A d \in Consoles : Sane(con'[d])
  BY <1>1, <1>8, <1>9
<1>12. \A d \in Consoles : Apace(d)'
  BY <1>1, <1>2, <1>3, <1>5, <1>10 DEF Apace
<1>13. QuiescentIsRest'
  BY <1>7, <1>9 DEF TypeInv, QuiescentIsRest, Between
<1>14. TypeInv'
  BY <1>1, <1>3, <1>4, <1>5, <1>9, <1>11, <1>12, <1>13 DEF TypeInv, Typed
<1> QED BY <1>6, <1>9, <1>14 DEF r, k

LEMMA RunTickType ==
  ASSUME TypeInv, NEW c \in Consoles, RunTick(c)
  PROVE  /\ TypeInv'
         /\ GameEntries(con[c]) \in Console
         /\ con'[c] = [Park(GameEntries(con[c])) EXCEPT !.tick = con[c].tick + 1, !.pc = "gate"]
<1>1. /\ con \in [Consoles -> Console] /\ page \in Pages /\ known \in Nat /\ con[c] \in Console
      /\ \A d \in Consoles : Sane(con[d]) /\ Apace(d)
  BY DEF TypeInv, Typed
<1>2. \A d \in Consoles : con[d].tick \in Nat
  BY <1>1 DEF Console
<1>3. /\ con[c].pc = "tick" /\ UNCHANGED <<page, known, events, fault>>
      /\ Keep(c, [Park(GameEntries(con[c])) EXCEPT !.tick = @ + 1, !.pc = "gate"])
  BY DEF RunTick
<1> DEFINE g == GameEntries(con[c])
           p == Park(g)
           k == [p EXCEPT !.tick = con[c].tick + 1, !.pc = "gate"]
<1>4. /\ g \in Console /\ Good(g) /\ Running(g) /\ g.tick = con[c].tick
      /\ g.quiescent => g.s.arm \cap {1, 2} = {}
  BY <1>1, <1>3, EntriesGood DEF Sane
<1> HIDE DEF g
<1>5. /\ p \in Console /\ Good(p) /\ p.htbl = "net null" /\ p.s.tbl # "none"
      /\ p.tick = g.tick /\ p.quiescent = g.quiescent /\ p.s.ball = g.s.ball
  BY <1>4, ParkGood
<1> HIDE DEF p
<1>6. /\ k \in Console /\ k.pc = "gate" /\ k.tick = con[c].tick + 1 /\ Alike(k, p)
      /\ k.quiescent = p.quiescent
  <2> DEFINE t == con[c].tick + 1
  <2>1. t \in Nat /\ k = [p EXCEPT !.tick = t, !.pc = "gate"]
    BY <1>2
  <2> HIDE DEF t, k
  <2>2. /\ k \in Console /\ k.pc = "gate" /\ k.tick = t /\ Alike(k, p)
        /\ k.quiescent = p.quiescent
    BY <1>5, <2>1 DEF Console, Alike
  <2> QED BY <2>2 DEF t
<1>7. Sane(k)
  <2>1. Good(k)
    BY <1>5, <1>6, AlikeGood
  <2>2. Parked(k)
    <3>1. con[c].tick \in Nat
      BY <1>2
    <3>2. k.tick # 0
      BY <1>6, <3>1
    <3> QED BY <1>5, <1>6, <3>2 DEF Parked, Alike
  <2> HIDE DEF k
  <2> QED BY <1>6, <2>1, <2>2 DEF Sane
<1>8. [p EXCEPT !.tick = @ + 1, !.pc = "gate"] = k
  BY <1>4, <1>5
<1>9. /\ con' \in [Consoles -> Console] /\ con'[c] = k
      /\ \A d \in Consoles : d # c => con'[d] = con[d]
  BY <1>1, <1>3, <1>6, <1>8, KeepFacts DEF p, g
<1> HIDE DEF k
<1>10. \A d \in Consoles : Sane(con'[d])
  BY <1>1, <1>7, <1>9
<1>11. \A d \in Consoles : Apace(d)'
  <2>1. \A d \in Consoles : /\ con'[d].tick = IF d = c THEN con[d].tick + 1 ELSE con[d].tick
                            /\ con'[d].pc = IF d = c THEN "gate" ELSE con[d].pc
    BY <1>6, <1>9
  <2> QED BY <1>1, <1>2, <1>3, <2>1, Params DEF Apace
<1>12. QuiescentIsRest'
  <2>1. CASE Host = c
    <3>1. k.quiescent => k.s.ball \notin {"flies", "rolls"}
      BY <1>4, <1>5, <1>6 DEF Good, Armed, Alike
    <3> QED BY <1>9, <2>1, <3>1 DEF QuiescentIsRest
  <2>2. CASE Host # c
    <3>1. con'[Host] = con[Host]
      BY <1>9, <2>2, Params
    <3> QED BY <3>1 DEF TypeInv, QuiescentIsRest, Between
  <2> QED BY <2>1, <2>2
<1>13. TypeInv'
  BY <1>1, <1>3, <1>9, <1>10, <1>11, <1>12 DEF TypeInv, Typed
<1> QED BY <1>4, <1>9, <1>13 DEF g, p, k

(* What happens beside the tick touches nothing the timers count.          *)
LEMMA AsideType ==
  ASSUME TypeInv, NEW c \in Consoles, Scan(c) \/ Noise(c) \/ Stray(c)
  PROVE  /\ TypeInv'
         /\ ~Stray(c) => con'[c].s = con[c].s
         /\ con'[c].tick = con[c].tick /\ con'[c].pc = con[c].pc /\ con'[c].htbl = con[c].htbl
         /\ con'[c].shadow = con[c].shadow /\ con'[c].seat = con[c].seat
         /\ \A d \in Consoles : d # c => con'[d] = con[d]
<1>1. /\ con \in [Consoles -> Console] /\ con[c] \in Console /\ events \in 0 .. MaxEvents
      /\ fault \in {"never", "astray", "repaired"} /\ Sane(con[c])
  BY DEF TypeInv, Typed
<1> DEFINE Aside(k) == /\ k \in Console /\ Keep(c, k) /\ Alike(k, con[c])
                       /\ k.tick = con[c].tick /\ k.pc = con[c].pc /\ k.htbl = con[c].htbl
                       /\ k.shadow = con[c].shadow /\ k.seat = con[c].seat
                       /\ k.quiescent = con[c].quiescent
                       /\ (~Stray(c) => k.s = con[c].s)
<1>2. ASSUME NEW k, Aside(k), page' = page, known' = known, events' \in 0 .. MaxEvents,
             fault' \in {"never", "astray", "repaired"}
      PROVE  /\ TypeInv'
             /\ ~Stray(c) => con'[c].s = con[c].s
             /\ con'[c].tick = con[c].tick /\ con'[c].pc = con[c].pc /\ con'[c].htbl = con[c].htbl
             /\ con'[c].shadow = con[c].shadow /\ con'[c].seat = con[c].seat
             /\ \A d \in Consoles : d # c => con'[d] = con[d]
  <2>1. con'[c] = k /\ \A d \in Consoles : d # c => con'[d] = con[d]
    BY <1>1, <1>2, KeepFacts
  <2>2. TypeInv'
    BY <1>2, AsideKept
  <2> QED BY <1>2, <2>1, <2>2
<1>3. CASE Scan(c)
  <2>1. PICK p \in {"rest", "disc"} : Keep(c, [Handler(con[c], 0, 4) EXCEPT !.pad = p])
    BY <1>3 DEF Scan
  <2>2. Handler(con[c], 0, 4) = con[c]
    <3>1. con[c].pc = "gate" /\ Parked(con[c])
      BY <1>1, <1>3 DEF Scan, Sane
    <3>2. con[c].htbl = "prompt" \/ con[c].htbl = "net null"
      BY <3>1 DEF Parked
    <3>3. 0 \in Int /\ 4 \in Int /\ 0 # 2
      OBVIOUS
    <3>4. CASE con[c].htbl = "prompt"
      BY <1>1, <3>3, <3>4, HandlerIdle
    <3>5. CASE con[c].htbl = "net null"
      BY <1>1, <3>3, <3>5, HandlerIdle
    <3> QED BY <3>2, <3>4, <3>5
  <2> DEFINE k == [con[c] EXCEPT !.pad = p]
  <2>3. Aside(k)
    BY <1>1, <2>1, <2>2 DEF Console, Alike
  <2> HIDE DEF k, Aside
  <2> QED BY <1>1, <1>2, <1>3, <2>3 DEF Scan
<1>4. CASE Noise(c)
  <2> DEFINE x == Shift(con[c].exec)
             k == [con[c] EXCEPT !.exec = x]
  <2>1. x \in 0 .. 1 /\ Keep(c, k)
    BY <1>1, <1>4 DEF Noise, Shift, Period, Console
  <2> HIDE DEF x
  <2>2. Aside(k)
    BY <1>1, <2>1 DEF Console, Alike
  <2> HIDE DEF k, Aside
  <2> QED BY <1>1, <1>2, <1>4, <2>2 DEF Noise
<1>5. CASE Stray(c)
  <2> DEFINE s == con[c].s
  <2>1. s \in Cells /\ Shift(s.rng) \in 0 .. 1
    BY <1>1, FieldTypes DEF Shift, Period
  <2>2. events' \in 0 .. MaxEvents /\ fault' = "astray" /\ UNCHANGED <<page, known>>
    BY <1>1, <1>5, Params DEF Stray
  <2>3. PICK t \in {[s EXCEPT !.rng = Shift(@)], [s EXCEPT !.inj = 7], [s EXCEPT !.cur = 5]} :
          Keep(c, [con[c] EXCEPT !.s = t])
    BY <1>5 DEF Stray
  <2>4. /\ t \in Cells /\ t.arm = s.arm /\ t.ball = s.ball /\ t.cnt2 = s.cnt2
        /\ t.pcount = s.pcount /\ t.tbl = s.tbl
    BY <2>1, <2>3 DEF Cells
  <2> HIDE DEF s
  <2> DEFINE k == [con[c] EXCEPT !.s = t]
  <2>5. Aside(k)
    <3>1. /\ Kept(k, con[c]) /\ k.s = t /\ k.htbl = con[c].htbl /\ k.stock = con[c].stock
      BY <1>1, <2>4, CellsSet
    <3> HIDE DEF k
    <3> QED BY <1>5, <2>3, <2>4, <3>1 DEF Kept, Alike, s, k
  <2> HIDE DEF k, Aside
  <2> QED BY <1>2, <2>2, <2>5
<1> QED BY <1>3, <1>4, <1>5

(* Every console takes the host's game, as it is.                          *)
LEMMA RebaseType ==
  ASSUME TypeInv, Rebase
  PROVE  /\ TypeInv'
         /\ \A c \in Consoles : con'[c].s = Clamped(con[Host].s) /\ con'[c].pc = "gate"
                                /\ con'[c].tick = con[Host].tick + Margin
<1> USE Params
<1> DEFINE h == con[Host]
           v == Clamped(h.s)
           r == h.tick + Margin
           k(c) == [con[c] EXCEPT !.s = v, !.stock = h.stock, !.tick = r]
<1>1. /\ con \in [Consoles -> Console] /\ h \in Console /\ events \in 0 .. MaxEvents
      /\ \A c \in Consoles : con[c] \in Console /\ Sane(con[c])
  BY DEF TypeInv, Typed
<1>2. /\ \A c \in Consoles : con[c].pc = "gate" /\ con[c].tick > 0
      /\ page' = IdlePage /\ known' = r + MaxSkew - 1 /\ fault' = "repaired" /\ events' = events
  BY DEF Rebase
<1>3. h.tick \in Nat /\ r \in Nat /\ r > 0
  BY <1>1 DEF Console
<1>4. /\ v \in Cells /\ v.arm = h.s.arm /\ v.ball = h.s.ball /\ v.cnt2 = h.s.cnt2
      /\ v.pcount = h.s.pcount /\ v.tbl = h.s.tbl
  <2> DEFINE x == IF h.s.cur <= 3 THEN h.s.cur ELSE 0
  <2>1. h.s \in Cells /\ x \in Nat /\ v = [h.s EXCEPT !.cur = x]
    BY <1>1, FieldTypes DEF Clamped
  <2> HIDE DEF x, v, h
  <2> QED BY <2>1 DEF Cells
<1>5. ASSUME NEW c \in Consoles
      PROVE  [f \in DOMAIN con[c].s |-> IF f \in ImageCells THEN h.s[f] ELSE con[c].s[f]] = h.s
  <2>1. con[c].s \in Cells /\ h.s \in Cells
    BY <1>1, FieldTypes
  <2> HIDE DEF h
  <2>2. DOMAIN con[c].s = ImageCells /\ DOMAIN h.s = ImageCells
        /\ h.s = [f \in DOMAIN h.s |-> h.s[f]]
    BY <2>1 DEF Cells, ImageCells
  <2> QED BY <2>2
<1>6. con' = [c \in Consoles |-> k(c)]
  <2> DEFINE img(c) == [f \in DOMAIN con[c].s |-> IF f \in ImageCells THEN h.s[f] ELSE con[c].s[f]]
  <2>1. con' = [c \in Consoles |-> [con[c] EXCEPT !.s = Clamped(img(c)), !.stock = h.stock, !.tick = r]]
    BY DEF Rebase
  <2>2. \A c \in Consoles : img(c) = h.s
    BY <1>5
  <2> HIDE DEF img, h, r
  <2> QED BY <2>1, <2>2
<1>7. ASSUME NEW c \in Consoles
      PROVE  /\ k(c) \in Console /\ k(c).s = v /\ k(c).tick = r /\ k(c).pc = "gate"
             /\ k(c).htbl = "net null" /\ k(c).stock = h.stock /\ k(c).quiescent = con[c].quiescent
  <2>1. con[c] \in Console /\ con[c].pc = "gate" /\ con[c].tick # 0 /\ Parked(con[c])
    BY <1>1, <1>2 DEF Sane
  <2>2. con[c].htbl = "net null" /\ h.stock \in [1 .. 3 -> 0 .. 3]
    BY <1>1, <2>1 DEF Parked, Console
  <2> HIDE DEF h, v, r
  <2> QED BY <1>3, <1>4, <2>1, <2>2 DEF Console
<1>8. h.htbl = "net null" /\ Good(h) /\ h.s.tbl # "none"
  <2>1. h.pc = "gate" /\ h.tick # 0 /\ Sane(h)
    BY <1>1, <1>2
  <2> HIDE DEF h
  <2> QED BY <2>1 DEF Sane, Parked
<1> HIDE DEF h, v, r, k
<1>9. ASSUME NEW c \in Consoles
      PROVE  Sane(k(c))
  <2>1. Good(k(c))
    BY <1>4, <1>7, <1>8, AlikeGood DEF Alike
  <2>2. k(c).tick # 0 /\ k(c).s.tbl # "none"
    <3>1. r # 0
      BY <1>3
    <3> QED BY <1>4, <1>7, <1>8, <3>1
  <2> QED BY <1>7, <2>1, <2>2 DEF Sane, Parked
<1>10. \A c \in Consoles : con'[c] = k(c)
  BY <1>6
<1>11. \A c \in Consoles : Sane(con'[c])
  BY <1>9, <1>10
<1>12. \A c \in Consoles : Apace(c)'
  <2>1. known' = r + MaxSkew - 1 /\ \A c \in Consoles : con'[c].tick = r /\ con'[c].pc # "tick"
    BY <1>2, <1>7, <1>10
  <2> QED BY <1>3, <2>1 DEF Apace
<1>13. QuiescentIsRest'
  <2>1. con'[Host].quiescent = h.quiescent /\ con'[Host].s.ball = h.s.ball
    BY <1>4, <1>7, <1>10 DEF h
  <2>2. h.quiescent => h.s.ball \notin {"flies", "rolls"}
    BY <1>2 DEF TypeInv, QuiescentIsRest, Between, h
  <2> QED BY <2>1, <2>2 DEF QuiescentIsRest
<1>14. Typed'
  <2>1. known' \in Nat
    BY <1>2, <1>3
  <2>2. con' \in [Consoles -> Console]
    BY <1>6, <1>7
  <2> QED BY <1>1, <1>2, <2>1, <2>2, PageTypes DEF Typed
<1> QED BY <1>7, <1>10, <1>11, <1>12, <1>13, <1>14 DEF TypeInv, h, v, r

LEMMA TypeNext == TypeInv /\ [Next]_vars => TypeInv'
<1> SUFFICES ASSUME TypeInv, [Next]_vars PROVE TypeInv'
  OBVIOUS
<1>1. ASSUME NEW c \in Consoles, OpenGate(c) PROVE TypeInv'
  BY <1>1, OpenGateType
<1>2. ASSUME NEW c \in Consoles, RunTick(c) PROVE TypeInv'
  BY <1>2, RunTickType
<1>3. ASSUME NEW c \in Consoles, Scan(c) \/ Noise(c) \/ Stray(c) PROVE TypeInv'
  BY <1>3, AsideType
<1>4. ASSUME Rebase PROVE TypeInv'
  BY <1>4, RebaseType
<1>5. CASE UNCHANGED vars
  BY <1>5 DEF vars, TypeInv, Typed, QuiescentIsRest, Between, Apace
<1> QED BY <1>1, <1>2, <1>3, <1>4, <1>5, Params DEF Next, Step

LEMMA TypeHolds == Spec => []TypeInv
BY TypeInit, TypeNext, PTL DEF Spec

(* Every reachable state is well typed, the host's quiescent flag says the *)
(* truth about the ball, and no console runs a tick whose inputs are not   *)
(* there, for any number of consoles and players and any ring.             *)
THEOREM TypeCorrect == Spec => []TypeOK
<1>1. TypeInv => TypeOK
  <2> SUFFICES ASSUME TypeInv PROVE TypeOK
    OBVIOUS
  <2>1. ASSUME NEW c \in Consoles
        PROVE  /\ con[c].htbl \in Tables /\ con[c].s.arm \subseteq 1 .. 3
               /\ con[c].s.cnt2 \in 1 .. Interval[2] /\ con[c].exec \in 0 .. Period - 1
               /\ con[c].s.rng \in 0 .. Period - 1 /\ con[c].tick <= known
    <3>1. con[c] \in Console /\ Apace(c)
      BY DEF TypeInv, Typed
    <3>2. con[c].exec \in 0 .. 1
      BY <3>1 DEF Console
    <3>3. Interval[2] = 3 /\ Period - 1 = 1
      BY DEF Interval, Period
    <3> QED BY <3>1, <3>2, <3>3, FieldTypes DEF Apace
  <2> QED BY <2>1 DEF TypeInv, Typed, TypeOK
<1> QED BY <1>1, TypeHolds, PTL

(* The prompt is answered with the number of players in the room, and with *)
(* nothing else, whatever is pressed and whatever cell goes wrong.         *)
THEOREM RoomIsCounted == Spec => []CountIsRoom
<1>1. TypeInv => CountIsRoom
  BY DEF TypeInv, Sane, Good, CountIsRoom
<1> QED BY <1>1, TypeHolds, PTL

(* After any number of arms, stops and ticks the virtual timers stand      *)
(* where the EXEC's own table would.                                       *)
THEOREM KeepsStockPace == Spec => []StockPace
<1>1. TypeInv => StockPace
  <2> SUFFICES ASSUME TypeInv, NEW c \in Consoles
               PROVE  \A n \in 1 .. 3 :
                 con[c].stock[n] = IF n \notin con[c].s.arm THEN 0
                                   ELSE IF n = 2 THEN con[c].s.cnt2 ELSE Interval[n]
    BY DEF StockPace
  <2>1. Paced(con[c], 1) /\ Paced(con[c], 2) /\ Paced(con[c], 3)
    BY DEF TypeInv, Sane, Good
  <2>2. \A n \in 1 .. 3 : n = 1 \/ n = 2 \/ n = 3
    OBVIOUS
  <2> QED BY <2>1, <2>2 DEF Paced
<1> QED BY <1>1, TypeHolds, PTL

-----------------------------------------------------------------------------
(* What a tick depends on.  Two consoles with the same game, table, seat   *)
(* and polled pair come out of each operator with the same.                *)
Near(j, k) == j.s = k.s /\ j.htbl = k.htbl /\ j.tick = k.tick
Like(j, k) == Near(j, k) /\ j.seat = k.seat /\ j.shadow = k.shadow

LEMMA LikeKept ==
  ASSUME NEW j, NEW k, NEW x, NEW y, Kept(x, j), Kept(y, k), x.s = y.s, x.htbl = y.htbl
  PROVE  (Near(j, k) => Near(x, y)) /\ (Like(j, k) => Like(x, y))
BY DEF Kept, Near, Like

LEMMA ArmNear ==
  ASSUME NEW j \in Console, NEW k \in Console, j.s = k.s, j.htbl = k.htbl, NEW n \in 1 .. 3
  PROVE  Arm(j, n).s = Arm(k, n).s /\ Arm(j, n).htbl = Arm(k, n).htbl
<1>1. /\ Arm(j, n).s = [j.s EXCEPT !.arm = @ \cup {n}, !.cnt2 = IF n = 2 THEN 3 ELSE @]
      /\ Arm(j, n).htbl = j.htbl
  BY ArmCells
<1>2. /\ Arm(k, n).s = [k.s EXCEPT !.arm = @ \cup {n}, !.cnt2 = IF n = 2 THEN 3 ELSE @]
      /\ Arm(k, n).htbl = k.htbl
  BY ArmCells
<1> QED BY <1>1, <1>2

LEMMA LikeServices ==
  ASSUME NEW j \in Console, NEW k \in Console, Like(j, k)
  PROVE  /\ Like(Rand(j), Rand(k)) /\ Rand(j) \in Console /\ Rand(k) \in Console
         /\ \A n \in 1 .. 3 : /\ Like(Arm(j, n), Arm(k, n)) /\ Like(Stop(j, n), Stop(k, n))
                              /\ Arm(j, n) \in Console /\ Arm(k, n) \in Console
                              /\ Stop(j, n) \in Console /\ Stop(k, n) \in Console
<1>1. j.s = k.s /\ j.htbl = k.htbl
  BY DEF Like, Near
<1>2. Like(Rand(j), Rand(k)) /\ Rand(j) \in Console /\ Rand(k) \in Console
  <2>1. Kept(Rand(j), j) /\ Kept(Rand(k), k)
    BY RandCells
  <2>2. Rand(j).s = Rand(k).s /\ Rand(j).htbl = Rand(k).htbl
    BY <1>1, RandCells
  <2> QED BY <2>1, <2>2, LikeKept, KeptChain
<1>3. ASSUME NEW n \in 1 .. 3
      PROVE  /\ Like(Arm(j, n), Arm(k, n))
             /\ Arm(j, n) \in Console /\ Arm(k, n) \in Console
  <2>1. Kept(Arm(j, n), j) /\ Kept(Arm(k, n), k)
    BY ArmCells
  <2>2. Arm(j, n).s = Arm(k, n).s /\ Arm(j, n).htbl = Arm(k, n).htbl
    BY <1>1, ArmNear
  <2> QED BY <2>1, <2>2, LikeKept, KeptChain
<1>4. ASSUME NEW n \in 1 .. 3
      PROVE  /\ Like(Stop(j, n), Stop(k, n))
             /\ Stop(j, n) \in Console /\ Stop(k, n) \in Console
  <2>1. Kept(Stop(j, n), j) /\ Kept(Stop(k, n), k)
    BY StopCells
  <2>2. Stop(j, n).s = Stop(k, n).s /\ Stop(j, n).htbl = Stop(k, n).htbl
    <3>1. /\ Stop(j, n).s = [j.s EXCEPT !.arm = @ \ {n}]
          /\ Stop(j, n).htbl = j.htbl
      BY StopCells
    <3>2. /\ Stop(k, n).s = [k.s EXCEPT !.arm = @ \ {n}]
          /\ Stop(k, n).htbl = k.htbl
      BY StopCells
    <3> QED BY <1>1, <3>1, <3>2
  <2> QED BY <2>1, <2>2, LikeKept, KeptChain
<1> QED BY <1>2, <1>3, <1>4

LEMMA LikeCells ==
  ASSUME NEW j \in Console, NEW k \in Console, Like(j, k), NEW t \in Cells
  PROVE  /\ Like([j EXCEPT !.s = t], [k EXCEPT !.s = t])
         /\ [j EXCEPT !.s = t] \in Console /\ [k EXCEPT !.s = t] \in Console
<1>1. /\ Kept([j EXCEPT !.s = t], j) /\ Kept([k EXCEPT !.s = t], k)
      /\ [j EXCEPT !.s = t].s = t /\ [k EXCEPT !.s = t].s = t
      /\ [j EXCEPT !.s = t].htbl = j.htbl /\ [k EXCEPT !.s = t].htbl = k.htbl
  BY CellsSet
<1>2. j.htbl = k.htbl
  BY DEF Like, Near
<1> QED BY <1>1, <1>2, LikeKept, KeptChain

(* Handlers look at the table and the game only.                           *)
LEMMA HandlerNear ==
  ASSUME NEW j \in Console, NEW k \in Console, j.s = k.s, j.htbl = k.htbl,
         NEW slot \in Int, NEW v \in Int,
         k.htbl = "prompt" /\ slot = 2 => v \in {NetCount, Enter}
  PROVE  /\ Handler(j, slot, v).s = Handler(k, slot, v).s
         /\ Handler(j, slot, v).htbl = Handler(k, slot, v).htbl
<1>0. k.s \in Cells /\ (k.s.digit # 0 => k.s.digit = NetCount)
  BY FieldTypes
<1>1. CASE k.htbl = "prompt" /\ slot = 2 /\ v \in 1 .. 9
  <2>1. /\ Handler(j, slot, v) = [j EXCEPT !.s = [j.s EXCEPT !.digit = v]]
        /\ Handler(k, slot, v) = [k EXCEPT !.s = [k.s EXCEPT !.digit = v]]
    BY <1>1 DEF Handler, Enter
  <2> QED BY <2>1 DEF Console
<1>2. CASE k.htbl = "prompt" /\ slot = 2 /\ v = Enter /\ k.s.digit # 0
  <2> DEFINE t == [k.s EXCEPT !.pcount = k.s.digit, !.ball = "rest"]
             x == [j EXCEPT !.s = t, !.htbl = "live"]
             y == [k EXCEPT !.s = t, !.htbl = "live"]
  <2>1. t \in Cells
    BY <1>0, <1>2 DEF Cells, Balls
  <2>2. /\ [j EXCEPT !.s.pcount = j.s.digit, !.s.ball = "rest", !.htbl = "live"] = x
        /\ [k EXCEPT !.s.pcount = k.s.digit, !.s.ball = "rest", !.htbl = "live"] = y
    BY DEF Console
  <2> HIDE DEF t, x, y
  <2>3. Handler(j, slot, v) = Arm(x, 3) /\ Handler(k, slot, v) = Arm(y, 3)
    BY <1>2, <2>2 DEF Handler, Enter
  <2>4. /\ x \in Console /\ y \in Console /\ x.s = t /\ y.s = t
        /\ x.htbl = "live" /\ y.htbl = "live"
    BY <2>1 DEF Console, Tables, x, y
  <2>5. Arm(x, 3).s = Arm(y, 3).s /\ Arm(x, 3).htbl = Arm(y, 3).htbl
    <3>1. 3 \in 1 .. 3 /\ x.s = y.s /\ x.htbl = y.htbl
      BY <2>4
    <3> QED BY <2>4, <3>1, ArmNear
  <2> QED BY <2>3, <2>5
<1>3. CASE k.htbl = "live"
  <2> DEFINE c == <<slot, v>>
  <2>1. /\ Handler(j, slot, v) = [j EXCEPT !.s = [j.s EXCEPT !.club = c]]
        /\ Handler(k, slot, v) = [k EXCEPT !.s = [k.s EXCEPT !.club = c]]
    BY <1>3 DEF Handler
  <2> HIDE DEF c
  <2> QED BY <2>1 DEF Console
<1>4. CASE ~(k.htbl = "prompt" /\ slot = 2 /\ v \in 1 .. 9) /\ k.htbl # "live"
           /\ ~(k.htbl = "prompt" /\ slot = 2 /\ v = Enter /\ k.s.digit # 0)
  <2>1. Handler(k, slot, v) = k /\ Handler(j, slot, v) = j
    BY <1>4 DEF Handler
  <2> QED BY <2>1
<1> QED BY <1>1, <1>2, <1>3, <1>4

LEMMA FlightLike ==
  ASSUME NEW j \in Console, NEW k \in Console, Like(j, k)
  PROVE  Like(Flight(j), Flight(k))
<1> DEFINE d(q) == Rand(q)
           b(q) == [d(q) EXCEPT !.s.ball = "rolls"]
           f(q) == Stop(b(q), 1)
           g(q) == Arm(f(q), 2)
           t    == [d(k).s EXCEPT !.ball = "rolls"]
<1>1. Like(d(j), d(k)) /\ d(j) \in Console /\ d(k) \in Console
  BY LikeServices
<1>2. d(j).s = d(k).s
  BY <1>1 DEF Like, Near
<1>3. t \in Cells
  BY <1>1, FieldTypes DEF Cells, Balls
<1>4. b(j) = [d(j) EXCEPT !.s = t] /\ b(k) = [d(k) EXCEPT !.s = t]
  BY <1>2
<1> HIDE DEF d, b, t
<1>5. Like(b(j), b(k)) /\ b(j) \in Console /\ b(k) \in Console
  BY <1>1, <1>3, <1>4, LikeCells
<1>6. Like(f(j), f(k)) /\ f(j) \in Console /\ f(k) \in Console
  BY <1>5, LikeServices
<1> HIDE DEF f
<1>7. Like(g(j), g(k))
  BY <1>6, LikeServices
<1> HIDE DEF g
<1>8. Flight(j) = IF Lands(d(j)) THEN g(j) ELSE d(j)
  BY DEF Flight, d, b, f, g
<1>9. Flight(k) = IF Lands(d(k)) THEN g(k) ELSE d(k)
  BY DEF Flight, d, b, f, g
<1> QED BY <1>1, <1>2, <1>7, <1>8, <1>9 DEF Lands

LEMMA RollLike ==
  ASSUME NEW j \in Console, NEW k \in Console, Like(j, k), k.s.pcount = NetCount
  PROVE  Like(Roll(j), Roll(k))
<1> DEFINE d(q) == Rand(q)
           e(q) == [d(q) EXCEPT !.s.cur = (@ + 1) % d(q).s.pcount]
           n(q) == Stop(e(q), 2)
           o(q) == [n(q) EXCEPT !.s.ball = "over", !.htbl = "over"]
           r(q) == [n(q) EXCEPT !.s.ball = "rest"]
           a(q) == Arm(r(q), 3)
<1>0. 2 \in 1 .. 3 /\ 3 \in 1 .. 3
  OBVIOUS
<1>1. Like(d(j), d(k)) /\ d(j) \in Console /\ d(k) \in Console
  BY LikeServices
<1>2. d(j).s = d(k).s /\ d(k).s.pcount = NetCount
  BY <1>1, RandAlike DEF Like, Near, Alike
<1> HIDE DEF d
<1>3. Like(e(j), e(k)) /\ e(j) \in Console /\ e(k) \in Console
  <2> DEFINE x == (d(k).s.cur + 1) % d(k).s.pcount
             t == [d(k).s EXCEPT !.cur = x]
  <2>1. x \in Nat /\ d(k).s \in Cells
    BY <1>1, <1>2, Params, FieldTypes
  <2>2. e(j) = [d(j) EXCEPT !.s = t] /\ e(k) = [d(k) EXCEPT !.s = t]
    BY <1>2
  <2> HIDE DEF x, e
  <2>3. t \in Cells
    BY <2>1 DEF Cells
  <2> HIDE DEF t
  <2> QED BY <1>1, <2>2, <2>3, LikeCells
<1> HIDE DEF e
<1>4. Like(n(j), n(k)) /\ n(j) \in Console /\ n(k) \in Console
  BY <1>0, <1>3, LikeServices
<1> HIDE DEF n
<1>5. n(j).s = n(k).s /\ n(j).htbl = n(k).htbl /\ n(k).s \in Cells
  BY <1>4, FieldTypes DEF Like, Near
<1>6. Like(o(j), o(k))
  <2> DEFINE t == [n(k).s EXCEPT !.ball = "over"]
  <2>1. o(j) = [n(j) EXCEPT !.s = t, !.htbl = "over"] /\ o(k) = [n(k) EXCEPT !.s = t, !.htbl = "over"]
    BY <1>5
  <2> HIDE DEF t, o
  <2>2. /\ o(j).s = t /\ o(j).htbl = "over" /\ o(j).tick = n(j).tick /\ o(j).seat = n(j).seat
        /\ o(j).shadow = n(j).shadow
    BY <1>4, <2>1 DEF Console
  <2>3. /\ o(k).s = t /\ o(k).htbl = "over" /\ o(k).tick = n(k).tick /\ o(k).seat = n(k).seat
        /\ o(k).shadow = n(k).shadow
    BY <1>4, <2>1 DEF Console
  <2> QED BY <1>4, <2>2, <2>3 DEF Like, Near
<1>7. Like(r(j), r(k)) /\ r(j) \in Console /\ r(k) \in Console
  <2> DEFINE t == [n(k).s EXCEPT !.ball = "rest"]
  <2>1. r(j) = [n(j) EXCEPT !.s = t] /\ r(k) = [n(k) EXCEPT !.s = t]
    BY <1>5
  <2>2. t \in Cells
    BY <1>5 DEF Cells, Balls
  <2> HIDE DEF t, r
  <2> QED BY <1>4, <2>1, <2>2, LikeCells
<1> HIDE DEF o, r
<1>8. Like(a(j), a(k))
  BY <1>0, <1>7, LikeServices
<1> HIDE DEF a
<1>9. Roll(j) = IF ~Settles(d(j)) THEN d(j) ELSE IF d(j).s.strokes = MaxStrokes THEN o(j) ELSE a(j)
  BY DEF Roll, d, e, n, o, r, a
<1>10. Roll(k) = IF ~Settles(d(k)) THEN d(k) ELSE IF d(k).s.strokes = MaxStrokes THEN o(k) ELSE a(k)
  BY DEF Roll, d, e, n, o, r, a
<1> QED BY <1>1, <1>2, <1>6, <1>8, <1>9, <1>10 DEF Settles

LEMMA StrokeSets ==
  ASSUME NEW d \in Console, NEW b \in 0 .. 1
  PROVE  LET f == [d EXCEPT !.s.ball = "flies", !.s.strokes = @ + 1, !.swung = b] IN
         /\ Kept(f, d) /\ f.htbl = d.htbl
         /\ f.s = [d.s EXCEPT !.ball = "flies", !.strokes = @ + 1]
<1> DEFINE t == [d.s EXCEPT !.ball = "flies", !.strokes = @ + 1]
           f == [d EXCEPT !.s = t, !.swung = b]
<1>1. d.s \in Cells /\ d.s.strokes + 1 \in Nat
  BY FieldTypes
<1>2. t \in Cells
  BY <1>1 DEF Cells, Balls
<1>3. f = [d EXCEPT !.s.ball = "flies", !.s.strokes = @ + 1, !.swung = b]
  BY <1>1 DEF Console, Cells
<1> HIDE DEF t
<1>4. Kept(f, d) /\ f.htbl = d.htbl /\ f.s = t
  BY <1>2 DEF Console, Kept
<1> QED BY <1>3, <1>4 DEF t

LEMMA SwingLike ==
  ASSUME NEW j \in Console, NEW k \in Console, Like(j, k)
  PROVE  Like(Swing(j), Swing(k))
<1> DEFINE by(q) == IF q.shadow[1] = "disc" THEN 0 ELSE 1
           d(q)  == Rand(q)
           f(q)  == [d(q) EXCEPT !.s.ball = "flies", !.s.strokes = @ + 1, !.swung = by(q)]
           n(q)  == Stop(f(q), 3)
           a(q)  == Arm(n(q), 1)
<1>0. 1 \in 1 .. 3 /\ 3 \in 1 .. 3 /\ by(j) = by(k) /\ by(k) \in 0 .. 1
  BY DEF Like
<1>1. Like(d(j), d(k)) /\ d(j) \in Console /\ d(k) \in Console
  BY LikeServices
<1>2. d(j).s = d(k).s
  BY <1>1 DEF Like, Near
<1> HIDE DEF d, by
<1>3. Like(f(j), f(k)) /\ f(j) \in Console /\ f(k) \in Console
  <2>1. /\ Kept(f(j), d(j)) /\ f(j).htbl = d(j).htbl
        /\ f(j).s = [d(j).s EXCEPT !.ball = "flies", !.strokes = @ + 1]
    BY <1>0, <1>1, StrokeSets
  <2>2. /\ Kept(f(k), d(k)) /\ f(k).htbl = d(k).htbl
        /\ f(k).s = [d(k).s EXCEPT !.ball = "flies", !.strokes = @ + 1]
    BY <1>0, <1>1, StrokeSets
  <2> HIDE DEF f
  <2>3. f(j).s = f(k).s /\ f(j).htbl = f(k).htbl
    BY <1>1, <1>2, <2>1, <2>2 DEF Like, Near
  <2> QED BY <1>1, <2>1, <2>2, <2>3, LikeKept, KeptChain
<1> HIDE DEF f
<1>4. Like(n(j), n(k)) /\ n(j) \in Console /\ n(k) \in Console
  BY <1>0, <1>3, LikeServices
<1> HIDE DEF n
<1>5. Like(a(j), a(k))
  BY <1>0, <1>4, LikeServices
<1> HIDE DEF a
<1>6. Swing(j) = IF "disc" \notin {j.shadow[1], j.shadow[2]} THEN j ELSE a(j)
  BY DEF Swing, f, d, by, n, a
<1>7. Swing(k) = IF "disc" \notin {k.shadow[1], k.shadow[2]} THEN k ELSE a(k)
  BY DEF Swing, f, d, by, n, a
<1>8. j.shadow = k.shadow
  BY DEF Like
<1> QED BY <1>5, <1>6, <1>7, <1>8

LEMMA WalkedLike ==
  ASSUME NEW j \in Console, NEW k \in Console, Like(j, k), NEW n \in 1 .. 3
  PROVE  /\ Like(Walked(j, n), Walked(k, n))
         /\ Walked(j, n) \in Console /\ Walked(k, n) \in Console
<1>1. /\ Kept(Walked(j, n), j) /\ Walked(j, n).s = j.s /\ Walked(j, n).htbl = j.htbl
      /\ Kept(Walked(k, n), k) /\ Walked(k, n).s = k.s /\ Walked(k, n).htbl = k.htbl
  BY WalkedSets
<1>2. j.s = k.s /\ j.htbl = k.htbl
  BY DEF Like, Near
<1> QED BY <1>1, <1>2, LikeKept, KeptChain

LEMMA Entry1Like ==
  ASSUME NEW j \in Console, NEW k \in Console, Like(j, k)
  PROVE  Like(Entry1(Walked(j, 1)), Entry1(Walked(k, 1)))
<1> DEFINE v == Walked(j, 1)
           w == Walked(k, 1)
<1>1. Like(v, w) /\ v \in Console /\ w \in Console
  <2>1. 1 \in 1 .. 3
    OBVIOUS
  <2> QED BY <2>1, WalkedLike
<1> HIDE DEF v, w
<1>2. v.s.arm = w.s.arm
  BY <1>1 DEF Like, Near
<1>3. Like(Flight(v), Flight(w))
  BY <1>1, FlightLike
<1>4. Like(Entry1(v), Entry1(w))
  BY <1>1, <1>2, <1>3 DEF Entry1
<1> QED BY <1>4 DEF v, w

LEMMA Entry3Like ==
  ASSUME NEW j \in Console, NEW k \in Console, Like(j, k)
  PROVE  Like(Entry3(Walked(j, 3)), Entry3(Walked(k, 3)))
<1> DEFINE v == Walked(j, 3)
           w == Walked(k, 3)
<1>1. Like(v, w) /\ v \in Console /\ w \in Console
  <2>1. 3 \in 1 .. 3
    OBVIOUS
  <2> QED BY <2>1, WalkedLike
<1> HIDE DEF v, w
<1>2. v.s.arm = w.s.arm
  BY <1>1 DEF Like, Near
<1>3. Like(Swing(v), Swing(w))
  BY <1>1, SwingLike
<1>4. Like(Entry3(v), Entry3(w))
  BY <1>1, <1>2, <1>3 DEF Entry3
<1> QED BY <1>4 DEF v, w

LEMMA Entry2Like ==
  ASSUME NEW j \in Console, NEW k \in Console, Like(j, k), Good(k)
  PROVE  Like(Entry2(Walked(j, 2)), Entry2(Walked(k, 2)))
<1> DEFINE v == Walked(j, 2)
           w == Walked(k, 2)
<1>0. 2 \in 1 .. 3
  OBVIOUS
<1>1. Like(v, w) /\ v \in Console /\ w \in Console
  BY <1>0, WalkedLike
<1>2. w.s = k.s
  BY <1>0, WalkedSets
<1> HIDE DEF v, w
<1>3. v.s = w.s
  BY <1>1 DEF Like, Near
<1>4. CASE 2 \notin w.s.arm
  BY <1>1, <1>3, <1>4 DEF Entry2, v, w
<1>5. CASE 2 \in w.s.arm /\ w.s.cnt2 # 1
  <2> DEFINE m == w.s.cnt2 - 1
             t == [w.s EXCEPT !.cnt2 = m]
  <2>1. m \in 1 .. 3 /\ w.s \in Cells
    BY <1>1, <1>5, FieldTypes
  <2>2. Entry2(v) = [v EXCEPT !.s = t] /\ Entry2(w) = [w EXCEPT !.s = t]
    BY <1>3, <1>5 DEF Entry2
  <2> HIDE DEF m
  <2>3. t \in Cells
    BY <2>1 DEF Cells
  <2> HIDE DEF t
  <2>4. Like(Entry2(v), Entry2(w))
    BY <1>1, <2>2, <2>3, LikeCells
  <2> QED BY <2>4 DEF v, w
<1>6. CASE 2 \in w.s.arm /\ w.s.cnt2 = 1
  <2> DEFINE x == Roll(v)
             y == Roll(w)
             m == Interval[2]
             t == [y.s EXCEPT !.cnt2 = m]
  <2>1. w.s.pcount = NetCount /\ v.s.pcount = NetCount /\ NetCount # 0
    <3>1. k.s.arm # {}
      BY <1>2, <1>6
    <3>2. k.s.pcount = NetCount
      BY <3>1 DEF Good
    <3>3. NetCount # 0
      BY Params
    <3> QED BY <1>2, <1>3, <3>2, <3>3
  <2>2. Like(x, y) /\ x \in Console /\ y \in Console
    BY <1>1, <2>1, RollLike, RollKeeps, KeptChain
  <2>3. Entry2(v) = [x EXCEPT !.s.cnt2 = m] /\ Entry2(w) = [y EXCEPT !.s.cnt2 = m]
    BY <1>3, <1>6 DEF Entry2
  <2> HIDE DEF x, y
  <2>4. x.s = y.s /\ y.s \in Cells /\ m \in 1 .. 3
    BY <2>2, FieldTypes DEF Like, Near, Interval
  <2> HIDE DEF m
  <2>5. Entry2(v) = [x EXCEPT !.s = t] /\ Entry2(w) = [y EXCEPT !.s = t]
    BY <2>3, <2>4
  <2>6. t \in Cells
    BY <2>4 DEF Cells
  <2> HIDE DEF t
  <2>7. Like(Entry2(v), Entry2(w))
    BY <2>2, <2>5, <2>6, LikeCells
  <2> QED BY <2>7 DEF v, w
<1> QED BY <1>4, <1>5, <1>6

(* The whole walk, and the game that is parked after it.                   *)
LEMMA EntriesLike ==
  ASSUME NEW j \in Console, NEW k \in Console, Like(j, k),
         Good(j), Running(j), Good(k), Running(k)
  PROVE  Park(GameEntries(j)).s = Park(GameEntries(k)).s
<1> DEFINE b(q) == Entry1(Walked(q, 1))
           c(q) == Entry2(Walked(b(q), 2))
           e(q) == Entry3(Walked(c(q), 3))
<1>1. /\ Like(b(j), b(k))
      /\ Kept(b(j), j) /\ Good(b(j)) /\ Running(b(j))
      /\ Kept(b(k), k) /\ Good(b(k)) /\ Running(b(k))
  BY Entry1Good, Entry1Like
<1>2. b(j) \in Console /\ b(k) \in Console
  BY <1>1, KeptChain
<1> HIDE DEF b
<1>3. /\ Like(c(j), c(k))
      /\ Kept(c(j), b(j)) /\ Good(c(j)) /\ Running(c(j))
      /\ Kept(c(k), b(k)) /\ Good(c(k)) /\ Running(c(k))
  BY <1>1, <1>2, Entry2Good, Entry2Like
<1>4. c(j) \in Console /\ c(k) \in Console
  BY <1>3, KeptChain
<1> HIDE DEF c
<1>5. Like(e(j), e(k))
  BY <1>4, <1>3, Entry3Like
<1>6. e(j) \in Console /\ e(k) \in Console
  BY <1>3, <1>4, Entry3Good, KeptChain
<1> HIDE DEF e
<1>7. GameEntries(j) = Flag(e(j)) /\ GameEntries(k) = Flag(e(k))
  BY DEF GameEntries, b, c, e
<1> DEFINE v == GameEntries(j)
           w == GameEntries(k)
<1>8. v \in Console /\ w \in Console /\ v.s = w.s /\ v.htbl = w.htbl
  <2>1. v \in Console /\ w \in Console
    BY EntriesGood
  <2>2. /\ Flag(e(j)).s = e(j).s /\ Flag(e(j)).htbl = e(j).htbl
        /\ Flag(e(k)).s = e(k).s /\ Flag(e(k)).htbl = e(k).htbl
    BY <1>6 DEF Flag, Console
  <2> QED BY <1>5, <1>7, <2>1, <2>2 DEF Like, Near
<1> HIDE DEF v, w
<1>9. Adopt(v).s = Adopt(w).s
  <2>1. CASE w.htbl = "net null"
    BY <1>8, <2>1 DEF Adopt
  <2>2. CASE w.htbl # "net null"
    <3>1. Adopt(v) = [v EXCEPT !.s.tbl = v.htbl] /\ Adopt(w) = [w EXCEPT !.s.tbl = w.htbl]
      BY <1>8, <2>2 DEF Adopt
    <3> QED BY <1>8, <3>1 DEF Console
  <2> QED BY <2>1, <2>2
<1>10. Park(v).s = Adopt(v).s /\ Park(w).s = Adopt(w).s
  <2>1. Adopt(v) \in Console /\ Adopt(w) \in Console
    BY <1>8, AdoptSets, KeptChain
  <2> QED BY <2>1 DEF Park, Console
<1> QED BY <1>9, <1>10 DEF v, w

(* The replay of the inputs: the pad, its scan and what the tick before    *)
(* has left in the shadow pair and ARB_SEAT are written over.              *)
LEMMA ArbiterLike ==
  ASSUME NEW j \in Console, NEW k \in Console, Near(j, k)
  PROVE  /\ Near(Arbiter(j), Arbiter(k)) /\ Arbiter(j).seat = Arbiter(k).seat
<1>1. j.s = k.s /\ j.htbl = k.htbl /\ j.tick = k.tick
  BY DEF Near
<1>2. CASE k.s.tbl = "prompt"
  <2> DEFINE n == (k.s.inj + 1) % 256
             t == [k.s EXCEPT !.inj = n]
             e(q) == [q EXCEPT !.seat = Nobody]
             x == [e(j) EXCEPT !.s.inj = n]
             y == [e(k) EXCEPT !.s.inj = n]
  <2>1. n \in 0 .. 255 /\ k.s \in Cells
    <3>1. k.s.inj \in 0 .. 255 /\ k.s \in Cells
      BY FieldTypes
    <3>2. \A i \in 0 .. 255 : (i + 1) % 256 \in 0 .. 255
      OBVIOUS
    <3> HIDE DEF t, e, x, y
    <3> QED BY <3>1, <3>2
  <2>2. ASSUME NEW q \in Console
        PROVE  e(q) \in Console /\ e(q).s = q.s /\ e(q).htbl = q.htbl /\ e(q).tick = q.tick
               /\ e(q).seat = Nobody
    BY DEF Console
  <2>3. Arbiter(j) = Inject(e(j)) /\ Arbiter(k) = Inject(e(k))
    BY <1>1, <1>2 DEF Arbiter
  <2>4. /\ e(j) \in Console /\ e(j).s = k.s /\ e(j).htbl = j.htbl /\ e(j).tick = j.tick
        /\ e(k) \in Console /\ e(k).s = k.s /\ e(k).htbl = k.htbl /\ e(k).tick = k.tick
        /\ e(j).seat = Nobody /\ e(k).seat = Nobody
    BY <1>1, <2>2
  <2> HIDE DEF e
  <2>5. /\ Inject(e(j)) = CASE n = 2 -> Handler(x, 2, NetCount) [] n = 6 -> Handler(x, 2, Enter) [] OTHER -> x
        /\ Inject(e(k)) = CASE n = 2 -> Handler(y, 2, NetCount) [] n = 6 -> Handler(y, 2, Enter) [] OTHER -> y
    <3>1. e(j).s.inj = k.s.inj /\ e(k).s.inj = k.s.inj
      BY <2>4
    <3> QED BY <3>1 DEF Inject
  <2> HIDE DEF n
  <2>6. t \in Cells
    BY <2>1 DEF Cells
  <2>7. x = [e(j) EXCEPT !.s = t] /\ y = [e(k) EXCEPT !.s = t]
    BY <2>4
  <2> HIDE DEF t, x, y
  <2>8. /\ x \in Console /\ x.s = t /\ x.htbl = j.htbl /\ x.tick = j.tick /\ x.seat = Nobody
        /\ y \in Console /\ y.s = t /\ y.htbl = k.htbl /\ y.tick = k.tick /\ y.seat = Nobody
    BY <2>4, <2>6, <2>7 DEF Console
  <2>9. ASSUME NEW v \in {NetCount, Enter}
        PROVE  /\ Near(Handler(x, 2, v), Handler(y, 2, v))
               /\ Handler(x, 2, v).seat = Handler(y, 2, v).seat
    <3>1. v \in Int /\ 2 \in Int
      BY Params DEF Enter
    <3>2. Kept(Handler(x, 2, v), x) /\ Kept(Handler(y, 2, v), y)
      BY <2>8, <3>1, HandlerKeeps
    <3>3. Handler(x, 2, v).s = Handler(y, 2, v).s /\ Handler(x, 2, v).htbl = Handler(y, 2, v).htbl
      BY <1>1, <2>8, <3>1, HandlerNear
    <3> QED BY <1>1, <2>8, <3>2, <3>3 DEF Kept, Near
  <2> QED BY <1>1, <2>3, <2>5, <2>8, <2>9 DEF Near
<1>3. CASE k.s.tbl # "prompt"
  <2> DEFINE q == k.s.cur % 4
  <2>1. Arbiter(j) = [j EXCEPT !.seat = q] /\ Arbiter(k) = [k EXCEPT !.seat = q]
    BY <1>1, <1>3 DEF Arbiter
  <2> HIDE DEF q
  <2> QED BY <1>1, <2>1 DEF Near, Console
<1> QED BY <1>2, <1>3

LEMMA EventLike ==
  ASSUME NEW j \in Console, NEW k \in Console, Like(j, k), Playing(k), NEW slot \in Int, NEW v \in Int
  PROVE  Like(Handler(j, slot, v), Handler(k, slot, v))
<1>1. j.s = k.s /\ j.htbl = k.htbl /\ k.htbl # "prompt"
  BY DEF Like, Near, Playing
<1>2. Kept(Handler(j, slot, v), j) /\ Kept(Handler(k, slot, v), k)
  BY <1>1, HandlerKeeps
<1>3. /\ Handler(j, slot, v).s = Handler(k, slot, v).s
      /\ Handler(j, slot, v).htbl = Handler(k, slot, v).htbl
  BY <1>1, HandlerNear
<1> QED BY <1>2, <1>3, LikeKept

LEMMA DispatchLike ==
  ASSUME NEW j \in Console, NEW k \in Console, Like(j, k), NEW pg \in Pages,
         Good(j), Good(k), Running(k), k.seat = Nobody \/ k.htbl # "prompt"
  PROVE  Like(Dispatch(j, pg), Dispatch(k, pg))
<1>1. j.seat = k.seat /\ j.tick = k.tick /\ j.htbl = k.htbl
  BY DEF Like, Near
<1>2. CASE k.seat = Nobody
  BY <1>1, <1>2 DEF Dispatch
<1>3. CASE k.seat # Nobody
  <2> DEFINE was == pg[Slot(k.tick - 1)][k.seat]
             is  == pg[Slot(k.tick)][k.seat]
             r(q) == Release(q, was, is)
             h(q) == Hold(r(q), was, is)
             d(q) == Decode(h(q), was, is)
  <2>1. k.tick \in Nat /\ k.seat \in Seats /\ Playing(k) /\ Playing(j)
    BY <1>1, <1>3 DEF Console, Playing, Running
  <2>2. Slot(k.tick) \in 0 .. Byte - 1 /\ Slot(k.tick - 1) \in 0 .. Byte - 1
    BY <2>1, Params DEF Slot
  <2>3. was.kp \in Int /\ is.kp \in Int
    BY <2>1, <2>2 DEF Pages
  <2>0. Dispatch(j, pg) = d(j) /\ Dispatch(k, pg) = d(k)
    BY <1>1, <1>3 DEF Dispatch
  <2> HIDE DEF was, is
  <2>4. ASSUME NEW x \in Console, NEW y \in Console, Like(x, y), Good(x), Good(y), Playing(x), Playing(y),
               NEW slot \in Int, NEW v \in Int
        PROVE  /\ Like(Handler(x, slot, v), Handler(y, slot, v))
               /\ Handler(x, slot, v) \in Console /\ Handler(y, slot, v) \in Console
               /\ Good(Handler(x, slot, v)) /\ Good(Handler(y, slot, v))
               /\ Playing(Handler(x, slot, v)) /\ Playing(Handler(y, slot, v))
    BY <2>4, EventLike, EventGood, KeptChain
  <2>5. /\ Like(r(j), r(k)) /\ r(j) \in Console /\ r(k) \in Console
        /\ Good(r(j)) /\ Good(r(k)) /\ Playing(r(j)) /\ Playing(r(k))
    <3> DEFINE a == 2 * was.kp + 2
    <3>1. a \in Int /\ -1 \in Int
      BY <2>3
    <3>2. /\ r(j) = IF was.kp # 0 /\ is.kp # was.kp THEN Handler(j, a, -1) ELSE j
          /\ r(k) = IF was.kp # 0 /\ is.kp # was.kp THEN Handler(k, a, -1) ELSE k
      BY DEF Release
    <3> HIDE DEF a, r
    <3> QED BY <2>1, <2>4, <3>1, <3>2
  <2> HIDE DEF r
  <2>6. /\ Like(h(j), h(k)) /\ h(j) \in Console /\ h(k) \in Console
        /\ Good(h(j)) /\ Good(h(k)) /\ Playing(h(j)) /\ Playing(h(k))
    <3> DEFINE a == 2 * is.kp + 2
               v == IF is.kp = was.kp THEN 0 ELSE 1
    <3>1. a \in Int /\ v \in Int
      BY <2>3
    <3>2. /\ h(j) = IF is.kp # 0 THEN Handler(r(j), a, v) ELSE r(j)
          /\ h(k) = IF is.kp # 0 THEN Handler(r(k), a, v) ELSE r(k)
      BY DEF Hold
    <3> HIDE DEF a, v, h
    <3> QED BY <2>5, <2>4, <3>1, <3>2
  <2> HIDE DEF h
  <2>7. Like(d(j), d(k))
    <3>1. 0 \in Int /\ 4 \in Int /\ 2 \in Int /\ 9 \in Int /\ -1 \in Int
      OBVIOUS
    <3>2. /\ Like(Handler(h(j), 0, 4), Handler(h(k), 0, 4))
          /\ Like(Handler(h(j), 2, 9), Handler(h(k), 2, 9))
          /\ Like(Handler(h(j), 0, -1), Handler(h(k), 0, -1))
      BY <2>4, <2>6, <3>1
    <3>3. \/ d(j) = h(j) /\ d(k) = h(k)
          \/ d(j) = Handler(h(j), 0, 4) /\ d(k) = Handler(h(k), 0, 4)
          \/ d(j) = Handler(h(j), 2, 9) /\ d(k) = Handler(h(k), 2, 9)
          \/ d(j) = Handler(h(j), 0, -1) /\ d(k) = Handler(h(k), 0, -1)
      BY DEF Decode
    <3> HIDE DEF d
    <3> QED BY <2>6, <3>2, <3>3
  <2> QED BY <2>0, <2>7
<1> QED BY <1>2, <1>3

(* A console at its gate, in tick t.                                       *)
AtGate(k, t) == k \in Console /\ Good(k) /\ Parked(k) /\ k.tick = t

(* The cells of a console between its gate and the rings.                  *)
Decided(q) == Arbiter(Install(Adopt(FromPads(q))))

LEMMA DecidedGood ==
  ASSUME NEW k \in Console, Good(k), Parked(k)
  PROVE  /\ Decided(k) \in Console /\ Good(Decided(k)) /\ Running(Decided(k))
         /\ Decided(k).tick = k.tick /\ (Decided(k).seat = Nobody \/ Decided(k).htbl # "prompt")
<1> DEFINE p == FromPads(k)
           i == Install(Adopt(p))
<1>1. p \in Console /\ Good(p) /\ Parked(p) /\ p.tick = k.tick
  <2>1. /\ p \in Console /\ p.s = k.s /\ p.htbl = k.htbl /\ p.stock = k.stock /\ p.tick = k.tick
    BY DEF FromPads, Console, Decs
  <2>2. Good(p)
    BY <2>1, AlikeGood DEF Alike
  <2> QED BY <2>1, <2>2 DEF Parked
<1> HIDE DEF p
<1>2. Kept(i, p) /\ Good(i) /\ Running(i) /\ i.htbl = i.s.tbl
  BY <1>1, InstallGood
<1>3. i \in Console /\ i.tick = k.tick
  BY <1>1, <1>2, KeptChain DEF Kept
<1> HIDE DEF i
<1>4. Going(Arbiter(i), i) /\ Running(Arbiter(i)) /\ (Arbiter(i).seat = Nobody \/ Arbiter(i).htbl # "prompt")
  BY <1>2, <1>3, ArbiterGood
<1> QED BY <1>3, <1>4 DEF Going, Decided, i, p

LEMMA DecidedLike ==
  ASSUME NEW t, NEW j, NEW k, AtGate(j, t), AtGate(k, t), j.s = k.s
  PROVE  Near(Decided(j), Decided(k)) /\ Decided(j).seat = Decided(k).seat
<1> DEFINE p(q) == FromPads(q)
           a(q) == Adopt(p(q))
           i(q) == Install(a(q))
<1>1. j \in Console /\ k \in Console /\ j.tick = k.tick /\ j.htbl = k.htbl
  BY DEF AtGate, Parked
<1>2. /\ p(j) \in Console /\ p(j).s = j.s /\ p(j).htbl = j.htbl /\ p(j).tick = j.tick
      /\ p(k) \in Console /\ p(k).s = k.s /\ p(k).htbl = k.htbl /\ p(k).tick = k.tick
  BY <1>1 DEF FromPads, Console, Decs
<1> HIDE DEF p
<1>3. /\ a(j) \in Console /\ a(k) \in Console /\ a(j).s = a(k).s
      /\ a(j).htbl = a(k).htbl /\ a(j).tick = a(k).tick
  <2>1. /\ Kept(a(j), p(j)) /\ a(j).htbl = p(j).htbl
        /\ Kept(a(k), p(k)) /\ a(k).htbl = p(k).htbl
    BY <1>2, AdoptSets
  <2>2. a(j).s = a(k).s
    <3>1. CASE k.htbl = "net null"
      BY <1>1, <1>2, <3>1 DEF Adopt
    <3>2. CASE k.htbl # "net null"
      <4>1. a(j) = [p(j) EXCEPT !.s.tbl = p(j).htbl] /\ a(k) = [p(k) EXCEPT !.s.tbl = p(k).htbl]
        BY <1>1, <1>2, <3>2 DEF Adopt
      <4> QED BY <1>1, <1>2, <4>1 DEF Console
    <3> QED BY <3>1, <3>2
  <2> QED BY <1>1, <1>2, <2>1, <2>2, KeptChain DEF Kept
<1> HIDE DEF a
<1>4. Near(i(j), i(k))
  <2>1. CASE a(k).s.tbl = "none"
    BY <1>3, <2>1 DEF Install, Near
  <2>2. CASE a(k).s.tbl # "none"
    <3>1. i(j) = [a(j) EXCEPT !.htbl = a(k).s.tbl] /\ i(k) = [a(k) EXCEPT !.htbl = a(k).s.tbl]
      BY <1>3, <2>2 DEF Install
    <3> HIDE DEF i
    <3> QED BY <1>3, <3>1 DEF Near, Console
  <2> QED BY <2>1, <2>2
<1>5. i(j) \in Console /\ i(k) \in Console
  <2>1. ASSUME NEW q \in Console PROVE Install(q) \in Console
    <3>1. CASE q.s.tbl = "none"
      BY <3>1 DEF Install
    <3>2. CASE q.s.tbl # "none"
      <4>1. Install(q) = [q EXCEPT !.htbl = q.s.tbl]
        BY <3>2 DEF Install
      <4>2. q.s.tbl \in Tables
        BY <3>2, FieldTypes DEF Tables
      <4> QED BY <4>1, <4>2 DEF Console
    <3> QED BY <3>1, <3>2
  <2> QED BY <1>3, <2>1 DEF i
<1> HIDE DEF i
<1>6. Near(Arbiter(i(j)), Arbiter(i(k))) /\ Arbiter(i(j)).seat = Arbiter(i(k)).seat
  BY <1>4, <1>5, ArbiterLike
<1> QED BY <1>6 DEF Decided, i, a, p

LEMMA RingsSet ==
  ASSUME NEW a \in Console, NEW pg \in Pages
  PROVE  LET f == FromRings(a, pg) IN
         /\ f \in Console /\ f.s = a.s /\ f.htbl = a.htbl /\ f.stock = a.stock /\ f.seat = a.seat /\ f.tick = a.tick
         /\ f.shadow = <<pg[Slot(a.tick)][0].dec, pg[Slot(a.tick)][1].dec>>
         /\ (Good(a) => Good(f))
<1> DEFINE x == pg[Slot(a.tick)][0].dec
           y == pg[Slot(a.tick)][1].dec
           f == FromRings(a, pg)
<1>1. Slot(a.tick) \in 0 .. Byte - 1 /\ 0 \in Seats /\ 1 \in Seats
  BY Params DEF Slot, Seats, Console
<1>2. x \in Decs /\ y \in Decs
  BY <1>1 DEF Pages
<1>3. f = [a EXCEPT !.shadow = <<x, y>>]
  BY DEF FromRings
<1> HIDE DEF f, x, y
<1>4. /\ f \in Console /\ f.s = a.s /\ f.htbl = a.htbl /\ f.stock = a.stock /\ f.seat = a.seat /\ f.tick = a.tick
      /\ f.shadow = <<x, y>>
  BY <1>2, <1>3 DEF Console
<1>5. Good(a) => Good(f)
  BY <1>4, AlikeGood DEF Alike
<1> QED BY <1>4, <1>5 DEF f, x, y

(* From the same game and the same pages, the same tick.                   *)
LEMMA ReplayLike ==
  ASSUME NEW t, NEW j, NEW k, AtGate(j, t), AtGate(k, t), j.s = k.s, NEW pg \in Pages
  PROVE  Like(Replay(j, pg), Replay(k, pg))
<1> DEFINE f(q) == FromRings(Decided(q), pg)
<1>1. /\ Decided(j) \in Console /\ Good(Decided(j)) /\ Decided(k) \in Console /\ Good(Decided(k))
      /\ Running(Decided(k)) /\ (Decided(k).seat = Nobody \/ Decided(k).htbl # "prompt")
  BY DecidedGood DEF AtGate
<1>2. Near(Decided(j), Decided(k)) /\ Decided(j).seat = Decided(k).seat
  BY DecidedLike
<1>3. /\ f(j) \in Console /\ Good(f(j)) /\ f(k) \in Console /\ Good(f(k))
      /\ Like(f(j), f(k)) /\ f(k).htbl = Decided(k).htbl /\ f(k).seat = Decided(k).seat
  <2> DEFINE a == Decided(j)
             b == Decided(k)
  <2> HIDE DEF a, b, f
  <2>1. /\ a \in Console /\ Good(a) /\ b \in Console /\ Good(b)
        /\ a.s = b.s /\ a.htbl = b.htbl /\ a.tick = b.tick /\ a.seat = b.seat
    BY <1>1, <1>2 DEF a, b, Near
  <2>2. /\ f(j) \in Console /\ f(j).s = a.s /\ f(j).htbl = a.htbl /\ f(j).seat = a.seat
        /\ f(j).tick = a.tick /\ Good(f(j))
        /\ f(j).shadow = <<pg[Slot(a.tick)][0].dec, pg[Slot(a.tick)][1].dec>>
    BY <2>1, RingsSet DEF f, a
  <2>3. /\ f(k) \in Console /\ f(k).s = b.s /\ f(k).htbl = b.htbl /\ f(k).seat = b.seat
        /\ f(k).tick = b.tick /\ Good(f(k))
        /\ f(k).shadow = <<pg[Slot(b.tick)][0].dec, pg[Slot(b.tick)][1].dec>>
    BY <2>1, RingsSet DEF f, b
  <2>4. Like(f(j), f(k))
    BY <2>1, <2>2, <2>3 DEF Near, Like
  <2> QED BY <2>2, <2>3, <2>4 DEF b
<1> HIDE DEF f
<1>4. Like(Dispatch(f(j), pg), Dispatch(f(k), pg))
  BY <1>1, <1>3, DispatchLike DEF Running
<1> QED BY <1>4 DEF Replay, Decided, f

(* Of the pages a tick reads its own slot and the one before.              *)
LEMMA ReplayPage ==
  ASSUME NEW t \in Nat, NEW k, AtGate(k, t), NEW pg \in Pages, NEW qg \in Pages,
         pg[Slot(t)] = qg[Slot(t)], pg[Slot(t - 1)] = qg[Slot(t - 1)]
  PROVE  Replay(k, pg) = Replay(k, qg)
<1> DEFINE a == Decided(k)
           f == FromRings(a, pg)
<1>1. a \in Console /\ a.tick = t
  BY DecidedGood DEF AtGate
<1>2. Replay(k, pg) = Dispatch(f, pg) /\ Replay(k, qg) = Dispatch(FromRings(a, qg), qg)
  BY DEF Replay, Decided
<1> HIDE DEF a
<1>3. FromRings(a, qg) = f /\ f.tick = t
  BY <1>1, RingsSet DEF FromRings
<1> HIDE DEF f
<1>4. Dispatch(f, pg) = Dispatch(f, qg)
  BY <1>3 DEF Dispatch
<1> QED BY <1>2, <1>3, <1>4

(* Two ticks less than a page apart never share a slot.                    *)
LEMMA SlotsApart ==
  ASSUME NEW a \in Int, NEW b \in Int, a < b, b < a + Byte
  PROVE  Slot(a) # Slot(b)
<1> DEFINE m == a \div Byte
           n == b \div Byte
<1>0. Byte \in Nat /\ Byte > 0
  BY Params
<1>1. m \in Int /\ a = Byte * m + Slot(a) /\ Slot(a) \in Int
  BY <1>0 DEF Slot
<1>2. n \in Int /\ b = Byte * n + Slot(b) /\ Slot(b) \in Int
  BY <1>0 DEF Slot
<1> HIDE DEF m, n
<1>3. SUFFICES ASSUME Slot(a) = Slot(b) PROVE FALSE
  OBVIOUS
<1>4. \A x \in Int : (x >= 1 => Byte * x >= Byte) /\ (x <= 0 => Byte * x <= 0)
  BY <1>0
<1>5. /\ n - m \in Int /\ Byte * (n - m) = Byte * n - Byte * m
      /\ Byte * n \in Int /\ Byte * m \in Int
  BY <1>0, <1>1, <1>2
<1>6. b - a = Byte * (n - m)
  BY <1>1, <1>2, <1>3, <1>5
<1>7. Byte * (n - m) \in Int /\ (Byte * (n - m) >= Byte \/ Byte * (n - m) <= 0)
  BY <1>4, <1>5
<1> QED BY <1>0, <1>6, <1>7

-----------------------------------------------------------------------------
(* There is one history of games: st[t] is a console as it stands at the   *)
(* gate of tick t.  Every console is at its place in that history, and     *)
(* what one console has run while another has not is still a consequence   *)
(* of the inputs in the pages.                                             *)
Passed(t) == \E c, d \in Consoles : con[c].tick <= t /\ t < con[d].tick
Leads(st, t, pg) ==
  AtGate(st[t], t) /\ AtGate(st[t + 1], t + 1) /\ st[t + 1].s = Park(GameEntries(Replay(st[t], pg))).s
Abreast(k, st, pg) ==
  /\ AtGate(st[k.tick], k.tick)
  /\ IF k.pc = "gate" THEN k.s = st[k.tick].s ELSE Like(k, Replay(st[k.tick], pg))
History(st) ==
  /\ \A c \in Consoles : Abreast(con[c], st, page)
  /\ \A t \in Nat : Passed(t) => Leads(st, t, page)
SimInv == fault # "astray" => \E st \in [Nat -> Console] : History(st)

LEMMA SimHolds == SimInv => SimAgrees
<1> SUFFICES ASSUME SimInv, fault # "astray", NEW c \in Consoles, NEW d \in Consoles,
                    con[c].pc = "gate", con[d].pc = "gate", con[c].tick = con[d].tick
             PROVE  con[c].s = con[d].s
  BY DEF SimAgrees, Between
<1>1. PICK st : History(st)
  BY DEF SimInv
<1> QED BY <1>1 DEF History, Abreast

LEMMA SimInit == Init => SimInv
<1> SUFFICES ASSUME Init PROVE SimInv
  OBVIOUS
<1> DEFINE st == [n \in Nat |-> Start]
<1>1. \A c \in Consoles : con[c] = Start
  BY DEF Init
<1>2. AtGate(Start, 0)
  BY StartSane DEF Sane, AtGate
<1>3. st \in [Nat -> Console] /\ st[0] = Start
  BY StartSane
<1> HIDE DEF st
<1>4. \A c \in Consoles : Abreast(con[c], st, page)
  BY <1>1, <1>2, <1>3, StartSane DEF Abreast
<1>5. \A t \in Nat : ~Passed(t)
  BY <1>1, StartSane DEF Passed
<1> QED BY <1>3, <1>4, <1>5 DEF SimInv, History

(* A step that leaves tick, gate, table and game of a console alone.       *)
LEMMA SimAside ==
  ASSUME TypeInv, SimInv, NEW c \in Consoles, Scan(c) \/ Noise(c) \/ Stray(c)
  PROVE  SimInv'
<1>1. CASE Stray(c)
  BY <1>1 DEF Stray, SimInv
<1>2. CASE ~Stray(c)
  <2>1. page' = page /\ fault' = fault
    BY <1>2 DEF Scan, Noise
  <2>2. /\ con'[c].s = con[c].s /\ con'[c].tick = con[c].tick /\ con'[c].pc = con[c].pc
        /\ con'[c].htbl = con[c].htbl /\ con'[c].shadow = con[c].shadow
        /\ con'[c].seat = con[c].seat
        /\ \A d \in Consoles : d # c => con'[d] = con[d]
    BY <1>2, AsideType
  <2>3. ASSUME NEW st \in [Nat -> Console], History(st) PROVE History(st)'
    <3>1. \A d \in Consoles : con'[d].tick = con[d].tick
      BY <2>2
    <3>2. \A t \in Nat : Passed(t)' => Passed(t)
      BY <3>1 DEF Passed
    <3>3. \A d \in Consoles : Abreast(con'[d], st, page)
      BY <2>2, <2>3 DEF History, Abreast, Like, Near
    <3> QED BY <2>1, <2>3, <3>2, <3>3 DEF History
  <2> QED BY <2>1, <2>3 DEF SimInv
<1> QED BY <1>1, <1>2

LEMMA SimRebase ==
  ASSUME TypeInv, Rebase
  PROVE  SimInv'
<1> DEFINE h == con'[Host]
           st == [n \in Nat |-> h]
<1>1. /\ TypeInv' /\ Host \in Consoles
      /\ \A c \in Consoles : con'[c].s = h.s /\ con'[c].pc = "gate" /\ con'[c].tick = h.tick
  BY RebaseType, Params
<1>2. h \in Console /\ Sane(h) /\ h.pc = "gate" /\ h.tick \in Nat
  BY <1>1 DEF TypeInv, Typed, Console
<1>3. AtGate(h, h.tick)
  BY <1>2 DEF AtGate, Sane
<1> HIDE DEF h
<1>4. st \in [Nat -> Console] /\ st[h.tick] = h
  BY <1>2
<1> HIDE DEF st
<1>5. \A c \in Consoles : Abreast(con'[c], st, page')
  BY <1>1, <1>3, <1>4 DEF Abreast
<1>6. \A t \in Nat : ~Passed(t)'
  BY <1>1, <1>2 DEF Passed
<1> QED BY <1>4, <1>5, <1>6 DEF SimInv, History

(* The slot a new tick is written to is none that a console may yet read.  *)
LEMMA FreshSlot ==
  ASSUME TypeInv, NEW c \in Consoles, OpenGate(c), NEW t \in Nat,
         t < known, \E d \in Consoles : con[d].tick <= t
  PROVE  page'[Slot(t)] = page[Slot(t)] /\ page'[Slot(t - 1)] = page[Slot(t - 1)]
<1> USE Params
<1>1. /\ page \in Pages /\ known \in Nat
      /\ \A d \in Consoles : con[d].tick \in Nat /\ con[d].tick <= known
  BY DEF TypeInv, Typed, Apace, Console
<1>2. CASE con[c].tick < known
  BY <1>2 DEF OpenGate
<1>3. CASE ~(con[c].tick < known)
  <2>1. known <= t + MaxSkew
    BY <1>1, <1>3 DEF OpenGate, GateOpen
  <2>2. Slot(t) # Slot(known) /\ Slot(t - 1) # Slot(known)
    <3>1. /\ t \in Int /\ t - 1 \in Int /\ known \in Int
          /\ t < known /\ known < t + Byte /\ t - 1 < known /\ known < (t - 1) + Byte
      BY <1>1, <2>1
    <3> QED BY <3>1, SlotsApart
  <2>3. \E x : page' = [page EXCEPT ![Slot(known)] = x]
    BY <1>3 DEF OpenGate
  <2>4. Slot(t) \in 0 .. Byte - 1 /\ Slot(t - 1) \in 0 .. Byte - 1
    BY DEF Slot
  <2> QED BY <1>1, <2>2, <2>3, <2>4 DEF Pages
<1> QED BY <1>2, <1>3

LEMMA SimOpen ==
  ASSUME TypeInv, SimInv, NEW c \in Consoles, OpenGate(c)
  PROVE  SimInv'
<1>1. /\ con \in [Consoles -> Console] /\ page \in Pages /\ known \in Nat
      /\ \A d \in Consoles : con[d] \in Console /\ Sane(con[d]) /\ Apace(d)
                             /\ con[d].tick \in Nat /\ con[d].tick <= known
  BY DEF TypeInv, Typed, Apace, Console
<1>2. /\ TypeInv' /\ con[c].pc = "gate" /\ fault' = fault
      /\ Going(Replay(con[c], page'), con[c])
      /\ con'[c] = [Replay(con[c], page') EXCEPT !.pc = "tick"]
      /\ \A d \in Consoles : d # c => con'[d] = con[d]
  BY OpenGateType, <1>1 DEF OpenGate, GateOpen, Keep
<1>3. page' \in Pages
  BY <1>2 DEF TypeInv, Typed
<1> DEFINE r == Replay(con[c], page')
<1>4. r \in Console /\ r.tick = con[c].tick
  BY <1>2 DEF Going
<1> HIDE DEF r
<1>5. con'[c].pc = "tick" /\ con'[c].tick = con[c].tick /\ Like(con'[c], r)
  BY <1>2, <1>4 DEF r, Console, Like, Near
<1>6. ASSUME NEW st \in [Nat -> Console], History(st) PROVE History(st)'
  <2>1. ASSUME NEW t \in Nat, t < known, \E d \in Consoles : con[d].tick <= t, AtGate(st[t], t)
        PROVE  Replay(st[t], page') = Replay(st[t], page)
    BY <1>1, <1>3, <2>1, FreshSlot, ReplayPage
  <2>2. ASSUME NEW d \in Consoles, d # c PROVE Abreast(con'[d], st, page')
    <3>1. Abreast(con[d], st, page) /\ con'[d] = con[d]
      BY <1>2, <1>6, <2>2 DEF History
    <3>2. con[d].pc # "gate" => con[d].tick < known
      BY <1>1 DEF Apace, Console
    <3>3. con[d].pc # "gate" => Replay(st[con[d].tick], page') = Replay(st[con[d].tick], page)
      BY <1>1, <2>1, <3>1, <3>2 DEF Abreast
    <3> QED BY <3>1, <3>3 DEF Abreast
  <2>3. Abreast(con'[c], st, page')
    <3> DEFINE t == con[c].tick
    <3>1. AtGate(st[t], t) /\ con[c].s = st[t].s
      BY <1>2, <1>6 DEF History, Abreast
    <3>2. AtGate(con[c], t)
      BY <1>1, <1>2 DEF Sane, AtGate
    <3>3. Like(r, Replay(st[t], page'))
      BY <1>3, <3>1, <3>2, ReplayLike DEF r
    <3>4. Like(con'[c], Replay(st[t], page'))
      BY <1>5, <3>3 DEF Like, Near
    <3> QED BY <1>5, <3>1, <3>4 DEF Abreast
  <2>4. ASSUME NEW t \in Nat, Passed(t)' PROVE Leads(st, t, page')
    <3>1. \A d \in Consoles : con'[d].tick = con[d].tick
      BY <1>2, <1>5
    <3>2. Passed(t) /\ t < known /\ \E d \in Consoles : con[d].tick <= t
      <4>1. PICK a \in Consoles, b \in Consoles : con'[a].tick <= t /\ t < con'[b].tick
        BY <2>4 DEF Passed
      <4>2. con[a].tick <= t /\ t < con[b].tick
        BY <3>1, <4>1
      <4>3. t < known
        BY <1>1, <4>2
      <4> QED BY <4>2, <4>3 DEF Passed
    <3>3. Leads(st, t, page)
      BY <1>6, <3>2 DEF History
    <3>4. Replay(st[t], page') = Replay(st[t], page)
      BY <2>1, <3>2, <3>3 DEF Leads
    <3> QED BY <3>3, <3>4 DEF Leads
  <2> QED BY <2>2, <2>3, <2>4 DEF History
<1> QED BY <1>2, <1>6 DEF SimInv

LEMMA SimRun ==
  ASSUME TypeInv, SimInv, NEW c \in Consoles, RunTick(c)
  PROVE  SimInv'
<1> DEFINE n == con[c].tick
           k == con'[c]
<1>1. /\ con \in [Consoles -> Console] /\ page \in Pages
      /\ \A d \in Consoles : con[d] \in Console /\ Sane(con[d]) /\ con[d].tick \in Nat
  BY DEF TypeInv, Typed, Console
<1>2. /\ TypeInv' /\ con[c].pc = "tick" /\ page' = page /\ fault' = fault
      /\ k = [Park(GameEntries(con[c])) EXCEPT !.tick = n + 1, !.pc = "gate"]
      /\ \A d \in Consoles : d # c => con'[d] = con[d]
  BY RunTickType, <1>1 DEF RunTick, Keep
<1>3. k \in Console /\ Sane(k)
  BY <1>2 DEF TypeInv, Typed
<1>4. /\ k.tick = n + 1 /\ k.pc = "gate" /\ k.s = Park(GameEntries(con[c])).s
  <2> DEFINE q == Park(GameEntries(con[c]))
  <2>1. q \in Console
    <3>1. GameEntries(con[c]) \in Console
      BY RunTickType
    <3>2. Adopt(GameEntries(con[c])) \in Console
      BY <3>1, AdoptSets, KeptChain
    <3> QED BY <3>2 DEF Park, Console, Tables
  <2> HIDE DEF q
  <2> QED BY <1>2, <2>1 DEF Console
<1>5. AtGate(k, n + 1)
  BY <1>3, <1>4 DEF AtGate, Sane
<1>6. n \in Nat /\ con[c] \in Console /\ Good(con[c]) /\ Running(con[c])
  BY <1>1, <1>2 DEF Sane
<1> HIDE DEF n, k
<1>7. /\ con'[c].tick = n + 1 /\ con[c].tick = n
      /\ \A d \in Consoles : d # c => con'[d].tick = con[d].tick
  BY <1>2, <1>4 DEF k, n
<1>8. ASSUME NEW st \in [Nat -> Console], History(st)
      PROVE  AtGate(st[n], n) /\ k.s = Park(GameEntries(Replay(st[n], page))).s
  <2>1. AtGate(st[n], n) /\ Like(con[c], Replay(st[n], page))
    BY <1>2, <1>8 DEF History, Abreast, n
  <2> DEFINE r == Replay(st[n], page)
  <2>2. Going(r, st[n]) /\ Running(r)
    BY <1>1, <2>1, ReplayGood DEF AtGate
  <2>3. r \in Console /\ Good(r)
    BY <2>2 DEF Going
  <2> HIDE DEF r
  <2>4. Park(GameEntries(con[c])).s = Park(GameEntries(r)).s
    BY <1>6, <2>1, <2>2, <2>3, EntriesLike DEF r
  <2> QED BY <1>4, <2>1, <2>4 DEF r
<1>9. CASE \E d \in Consoles : n < con[d].tick
  (* Another console has been there: the history holds the tick already.   *)
  <2>1. Passed(n)
    BY <1>6, <1>7, <1>9 DEF Passed
  <2>2. ASSUME NEW st \in [Nat -> Console], History(st) PROVE History(st)'
    <3>1. AtGate(st[n + 1], n + 1) /\ st[n + 1].s = k.s
      BY <1>6, <1>8, <2>1, <2>2 DEF History, Leads
    <3>2. Abreast(k, st, page)
      BY <1>4, <3>1 DEF Abreast
    <3>3. \A d \in Consoles : d # c => Abreast(con'[d], st, page)
      BY <1>2, <2>2 DEF History
    <3>4. ASSUME NEW t \in Nat, Passed(t)' PROVE Passed(t)
      <4>1. PICK a \in Consoles, b \in Consoles : con'[a].tick <= t /\ t < con'[b].tick
        BY <3>4 DEF Passed
      <4>2. con[a].tick <= t
        BY <1>1, <1>6, <1>7, <4>1
      <4>3. \E d \in Consoles : t < con[d].tick
        BY <1>1, <1>6, <1>7, <1>9, <4>1
      <4> QED BY <4>2, <4>3 DEF Passed
    <3> QED BY <1>2, <2>2, <3>2, <3>3, <3>4 DEF History, k
  <2> QED BY <1>2, <2>2 DEF SimInv
<1>10. CASE ~ \E d \in Consoles : n < con[d].tick
  (* The first console to end the tick writes the history on.              *)
  <2>1. \A d \in Consoles : con[d].tick <= n
    <3> TAKE d \in Consoles
    <3>1. con[d].tick \in Nat /\ ~(n < con[d].tick)
      BY <1>1, <1>10
    <3> QED BY <1>6, <3>1
  <2>2. ASSUME NEW st \in [Nat -> Console], History(st)
        PROVE  \E ts \in [Nat -> Console] : History(ts)'
    <3>1. PICK ts \in [Nat -> Console] : ts[n + 1] = k /\ \A t \in Nat : t <= n => ts[t] = st[t]
      <4>1. [st EXCEPT ![n + 1] = k] \in [Nat -> Console]
        BY <1>3
      <4> WITNESS [st EXCEPT ![n + 1] = k] \in [Nat -> Console]
      <4> QED BY <1>6
    <3>2. Abreast(k, ts, page)
      BY <1>4, <1>5, <3>1 DEF Abreast
    <3>3. ASSUME NEW d \in Consoles, d # c PROVE Abreast(con'[d], ts, page)
      <4>1. Abreast(con[d], st, page) /\ con'[d] = con[d]
        BY <1>2, <2>2, <3>3 DEF History
      <4>2. ts[con[d].tick] = st[con[d].tick]
        BY <1>1, <2>1, <3>1
      <4> QED BY <4>1, <4>2 DEF Abreast
    <3>4. ASSUME NEW t \in Nat, Passed(t)' PROVE Leads(ts, t, page)
      <4>1. PICK a \in Consoles, b \in Consoles : con'[a].tick <= t /\ t < con'[b].tick
        BY <3>4 DEF Passed
      <4>2. t <= n
        BY <1>1, <1>6, <1>7, <2>1, <4>1
      <4>3. CASE t = n
        BY <1>5, <1>8, <2>2, <3>1, <4>3 DEF Leads
      <4>4. CASE t < n
        <5>1. con[a].tick <= t /\ t < con[c].tick
          BY <1>1, <1>6, <1>7, <4>1, <4>4
        <5>2. Leads(st, t, page)
          BY <2>2, <5>1 DEF History, Passed
        <5>3. ts[t] = st[t] /\ ts[t + 1] = st[t + 1]
          BY <1>6, <3>1, <4>4
        <5> QED BY <5>2, <5>3 DEF Leads
      <4> QED BY <1>6, <4>2, <4>3, <4>4
    <3>5. \A d \in Consoles : Abreast(con'[d], ts, page)
      BY <3>2, <3>3 DEF k
    <3>6. History(ts)'
      BY <1>2, <3>4, <3>5 DEF History
    <3> QED BY <3>1, <3>6
  <2> QED BY <1>2, <2>2 DEF SimInv
<1> QED BY <1>9, <1>10

LEMMA SimNext == TypeInv /\ SimInv /\ [Next]_vars => SimInv'
<1> SUFFICES ASSUME TypeInv, SimInv, [Next]_vars PROVE SimInv'
  OBVIOUS
<1>1. ASSUME NEW c \in Consoles, OpenGate(c) PROVE SimInv'
  BY <1>1, SimOpen
<1>2. ASSUME NEW c \in Consoles, RunTick(c) PROVE SimInv'
  BY <1>2, SimRun
<1>3. ASSUME NEW c \in Consoles, Scan(c) \/ Noise(c) \/ Stray(c) PROVE SimInv'
  BY <1>3, SimAside
<1>4. ASSUME Rebase PROVE SimInv'
  BY <1>4, SimRebase
<1>5. CASE UNCHANGED vars
  BY <1>5 DEF vars, SimInv, History, Passed
<1> QED BY <1>1, <1>2, <1>3, <1>4, <1>5, Params DEF Next, Step

(* Consoles that stand at the gate of the same tick are in the same game,  *)
(* whatever their pads, their scans, their sound and their pace have been, *)
(* and a push has made it so again after a cell went wrong by itself: for  *)
(* any number of consoles, any ring and any allowed lead of one of them.   *)
THEOREM GamesAgree == Spec => []SimAgrees
<1>1. Spec => []SimInv
  BY SimInit, SimNext, TypeHolds, PTL DEF Spec
<1> QED BY <1>1, SimHolds, PTL
=============================================================================
