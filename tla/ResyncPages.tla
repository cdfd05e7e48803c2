----------------------------- MODULE ResyncPages -----------------------------
(* The inputs of a room of two across a push: what each console holds of   *)
(* the other for the ticks it has still to run.  The invariant accounts    *)
(* for the frames on the way, cut into stretches by the ENDs in them: from *)
(* its re-baseline on the host is ahead of all the guest sends, until the  *)
(* guest has read the END too.                                             *)
EXTENDS ResyncRepair

(* What lies on the way, as a queue.                                       *)

EndAfter(q, i) == \E p \in 1 .. Len(q) : p > i /\ q[p].type = "END"
TwoEnds(q, i)  == \E p, r \in 1 .. Len(q) : i < p /\ p < r /\ q[p].type = "END" /\ q[r].type = "END"

(* The inputs behind the last END, and those beyond a watermark.           *)
Stored(f)   == <<f.tick, f.epoch>>
Live(q)     == {x \in Nat \X Nat : \E p \in 1 .. Len(q) :
                  q[p].type = "INPUT" /\ x = Stored(q[p]) /\ ~EndAfter(q, p)}
Fresh(q, w) == {x \in Nat \X Nat : \E p \in 1 .. Len(q) :
                  q[p].type = "INPUT" /\ x = Stored(q[p]) /\ q[p].tick > w}

(* A sequence and its tail, position by position.                          *)
LEMMA Shifted ==
  ASSUME NEW q \in Seq(Frames), q # <<>>
  PROVE  /\ 1 \in 1 .. Len(q) /\ Len(Tail(q)) \in Nat /\ Len(q) \in Nat
         /\ \A p \in 1 .. Len(Tail(q)) : p + 1 \in 1 .. Len(q) /\ Tail(q)[p] = q[p + 1]
         /\ \A p \in 1 .. Len(q) : p = 1 \/ (p - 1 \in 1 .. Len(Tail(q)) /\ q[p] = Tail(q)[p - 1])
<1> DEFINE t == Tail(q)
<1>1. /\ Len(q) \in Nat /\ Len(q) >= 1 /\ Len(t) = Len(q) - 1
      /\ \A p \in 1 .. Len(t) : t[p] = q[p + 1] /\ p + 1 \in 1 .. Len(q)
  BY TailFacts
<1> HIDE DEF t
<1>2. ASSUME NEW p \in 1 .. Len(q), p # 1 PROVE p - 1 \in 1 .. Len(t) /\ q[p] = t[p - 1]
  <2>1. p - 1 \in 1 .. Len(t) /\ (p - 1) + 1 = p
    BY <1>1, <1>2
  <2> QED BY <1>1, <2>1
<1> QED BY <1>1, <1>2 DEF t

LEMMA EndsOfTail ==
  ASSUME NEW q \in Seq(Frames), q # <<>>
  PROVE  /\ \A i \in Nat : EndAfter(Tail(q), i) <=> EndAfter(q, i + 1)
         /\ \A i \in Nat : TwoEnds(Tail(q), i) <=> TwoEnds(q, i + 1)
         /\ EndAfter(q, 0) <=> q[1].type = "END" \/ EndAfter(q, 1)
         /\ TwoEnds(q, 0) <=> (q[1].type = "END" /\ EndAfter(q, 1)) \/ TwoEnds(q, 1)
<1> DEFINE t == Tail(q)
<1>1. /\ 1 \in 1 .. Len(q) /\ Len(t) \in Nat /\ Len(q) \in Nat
      /\ \A p \in 1 .. Len(t) : p + 1 \in 1 .. Len(q) /\ t[p] = q[p + 1]
      /\ \A p \in 1 .. Len(q) : p = 1 \/ (p - 1 \in 1 .. Len(t) /\ q[p] = t[p - 1])
  BY Shifted
<1> HIDE DEF t
<1>2. ASSUME NEW i \in Nat PROVE EndAfter(t, i) <=> EndAfter(q, i + 1)
  <2>1. ASSUME NEW p \in 1 .. Len(t), p > i, t[p].type = "END" PROVE EndAfter(q, i + 1)
    <3>1. p + 1 \in 1 .. Len(q) /\ q[p + 1].type = "END" /\ p + 1 > i + 1
      BY <1>1, <2>1
    <3> QED BY <3>1 DEF EndAfter
  <2>2. ASSUME NEW p \in 1 .. Len(q), p > i + 1, q[p].type = "END" PROVE EndAfter(t, i)
    <3>1. p - 1 \in 1 .. Len(t) /\ t[p - 1].type = "END" /\ p - 1 > i
      BY <1>1, <2>2
    <3> QED BY <3>1 DEF EndAfter
  <2> QED BY <2>1, <2>2 DEF EndAfter
<1>3. ASSUME NEW i \in Nat PROVE TwoEnds(t, i) <=> TwoEnds(q, i + 1)
  <2>1. ASSUME NEW p \in 1 .. Len(t), NEW r \in 1 .. Len(t), i < p, p < r,
               t[p].type = "END", t[r].type = "END"
        PROVE  TwoEnds(q, i + 1)
    <3>1. /\ p + 1 \in 1 .. Len(q) /\ q[p + 1].type = "END" /\ i + 1 < p + 1
          /\ r + 1 \in 1 .. Len(q) /\ q[r + 1].type = "END" /\ p + 1 < r + 1
      BY <1>1, <2>1
    <3> QED BY <3>1 DEF TwoEnds
  <2>2. ASSUME NEW p \in 1 .. Len(q), NEW r \in 1 .. Len(q), i + 1 < p, p < r,
               q[p].type = "END", q[r].type = "END"
        PROVE  TwoEnds(t, i)
    <3>1. /\ p - 1 \in 1 .. Len(t) /\ t[p - 1].type = "END" /\ i < p - 1
          /\ r - 1 \in 1 .. Len(t) /\ t[r - 1].type = "END" /\ p - 1 < r - 1
      BY <1>1, <2>2
    <3> QED BY <3>1 DEF TwoEnds
  <2> QED BY <2>1, <2>2 DEF TwoEnds
<1>4. EndAfter(q, 0) <=> q[1].type = "END" \/ EndAfter(q, 1)
  <2>1. \A p \in 1 .. Len(q) : (p > 0) /\ (p > 1 \/ p = 1)
    BY <1>1
  <2> QED BY <1>1, <2>1 DEF EndAfter
<1>5. TwoEnds(q, 0) <=> (q[1].type = "END" /\ EndAfter(q, 1)) \/ TwoEnds(q, 1)
  <2>1. \A p \in 1 .. Len(q) : (0 < p) /\ (1 < p \/ p = 1) /\ (p > 1 <=> 1 < p)
    BY <1>1
  <2> QED BY <1>1, <2>1 DEF EndAfter, TwoEnds
<1> QED BY <1>2, <1>3, <1>4, <1>5 DEF t

LEMMA EndsOfAppend ==
  ASSUME NEW q \in Seq(Frames), NEW f \in Frames
  PROVE  /\ \A i \in 0 .. Len(q) : EndAfter(Append(q, f), i) <=> EndAfter(q, i) \/ f.type = "END"
         /\ ~EndAfter(Append(q, f), Len(q) + 1)
         /\ \A i \in 0 .. Len(q) : TwoEnds(Append(q, f), i) <=>
              TwoEnds(q, i) \/ (EndAfter(q, i) /\ f.type = "END")
<1> DEFINE a == Append(q, f)
           l == Len(q) + 1
<1>1. /\ Len(q) \in Nat /\ Len(a) = l /\ a[l] = f /\ l \in 1 .. Len(a)
      /\ \A p \in 1 .. Len(q) : a[p] = q[p] /\ p \in 1 .. Len(a) /\ p < l
      /\ \A p \in 1 .. Len(a) : p \in 1 .. Len(q) \/ p = l
      /\ \A i \in 0 .. Len(q) : l > i /\ i < l /\ i \in Nat
  BY AppendFacts
<1> HIDE DEF a, l
<1>2. ASSUME NEW i \in 0 .. Len(q) PROVE EndAfter(a, i) <=> EndAfter(q, i) \/ f.type = "END"
  BY <1>1 DEF EndAfter
<1>3. ~EndAfter(a, l)
  <2>1. \A p \in 1 .. Len(a) : ~(p > l)
    BY <1>1 DEF l
  <2> QED BY <2>1 DEF EndAfter
<1>4. ASSUME NEW i \in 0 .. Len(q)
      PROVE  TwoEnds(a, i) <=> TwoEnds(q, i) \/ (EndAfter(q, i) /\ f.type = "END")
  <2>1. \A p \in 1 .. Len(q) : p > i <=> i < p
    BY <1>1
  <2>2. ASSUME NEW p \in 1 .. Len(a), NEW r \in 1 .. Len(a), i < p, p < r,
               a[p].type = "END", a[r].type = "END"
        PROVE  TwoEnds(q, i) \/ (EndAfter(q, i) /\ f.type = "END")
    <3>1. p \in 1 .. Len(q)
      BY <1>1, <2>2 DEF l
    <3>2. CASE r = l
      BY <1>1, <2>1, <2>2, <3>1, <3>2 DEF EndAfter
    <3>3. CASE r \in 1 .. Len(q)
      BY <1>1, <2>2, <3>1, <3>3 DEF TwoEnds
    <3> QED BY <1>1, <3>2, <3>3
  <2>3. TwoEnds(q, i) => TwoEnds(a, i)
    BY <1>1 DEF TwoEnds
  <2>4. EndAfter(q, i) /\ f.type = "END" => TwoEnds(a, i)
    BY <1>1, <2>1 DEF EndAfter, TwoEnds
  <2> QED BY <2>2, <2>3, <2>4 DEF TwoEnds
<1> QED BY <1>2, <1>3, <1>4 DEF a, l

LEMMA StoredFacts ==
  ASSUME NEW f \in Frames, f.type = "INPUT"
  PROVE  Stored(f) \in Nat \X Nat /\ Stored(f)[1] = f.tick /\ f.tick \in Nat
BY FrameFacts DEF Stored

LEMMA LiveOfTail ==
  ASSUME NEW q \in Seq(Frames), q # <<>>
  PROVE  Live(q) = Live(Tail(q)) \cup
           (IF q[1].type = "INPUT" /\ ~EndAfter(q, 1) THEN {Stored(q[1])} ELSE {})
<1> DEFINE t == Tail(q)
           first == q[1].type = "INPUT" /\ ~EndAfter(q, 1)
<1>1. /\ 1 \in 1 .. Len(q) /\ Len(t) \in Nat /\ Len(q) \in Nat /\ q[1] \in Frames
      /\ \A p \in 1 .. Len(t) : p + 1 \in 1 .. Len(q) /\ t[p] = q[p + 1]
      /\ \A p \in 1 .. Len(q) : p = 1 \/ (p - 1 \in 1 .. Len(t) /\ q[p] = t[p - 1])
  BY Shifted
<1>2. \A p \in 1 .. Len(t) : EndAfter(t, p) <=> EndAfter(q, p + 1)
  BY <1>1, EndsOfTail
<1> HIDE DEF t
<1>3. ASSUME NEW x \in Live(q) PROVE x \in Live(t) \/ (first /\ x = Stored(q[1]))
  <2>1. PICK p \in 1 .. Len(q) : q[p].type = "INPUT" /\ x = Stored(q[p]) /\ ~EndAfter(q, p)
    BY <1>3 DEF Live
  <2>2. CASE p = 1
    BY <2>1, <2>2
  <2>3. CASE p # 1
    <3>1. p - 1 \in 1 .. Len(t) /\ q[p] = t[p - 1] /\ (p - 1) + 1 = p
      BY <1>1, <2>3
    <3>2. ~EndAfter(t, p - 1)
      BY <1>2, <2>1, <3>1
    <3> QED BY <1>3, <2>1, <3>1, <3>2 DEF Live
  <2> QED BY <2>2, <2>3
<1>4. ASSUME NEW x \in Live(t) PROVE x \in Live(q)
  <2>1. PICK p \in 1 .. Len(t) : t[p].type = "INPUT" /\ x = Stored(t[p]) /\ ~EndAfter(t, p)
    BY <1>4 DEF Live
  <2>2. p + 1 \in 1 .. Len(q) /\ t[p] = q[p + 1] /\ ~EndAfter(q, p + 1)
    BY <1>1, <1>2, <2>1
  <2> QED BY <1>4, <2>1, <2>2 DEF Live
<1>5. first => Stored(q[1]) \in Live(q)
  BY <1>1, StoredFacts DEF Live
<1> QED BY <1>3, <1>4, <1>5 DEF t

LEMMA LiveOfAppend ==
  ASSUME NEW q \in Seq(Frames), NEW f \in Frames
  PROVE  /\ f.type = "END" => Live(Append(q, f)) = {}
         /\ f.type = "INPUT" => Live(Append(q, f)) = Live(q) \cup {Stored(f)}
         /\ f.type \notin {"END", "INPUT"} => Live(Append(q, f)) = Live(q)
<1> DEFINE a == Append(q, f)
           l == Len(q) + 1
<1>1. /\ Len(q) \in Nat /\ Len(a) = l /\ a[l] = f /\ l \in 1 .. Len(a)
      /\ \A p \in 1 .. Len(q) : a[p] = q[p] /\ p \in 1 .. Len(a)
      /\ \A p \in 1 .. Len(a) : p \in 1 .. Len(q) \/ p = l
  BY AppendFacts
<1>2. /\ \A p \in 1 .. Len(q) : EndAfter(a, p) <=> EndAfter(q, p) \/ f.type = "END"
      /\ ~EndAfter(a, l)
  BY <1>1, EndsOfAppend
<1> HIDE DEF a, l
<1>3. ASSUME f.type = "END" PROVE Live(a) = {}
  BY <1>1, <1>2, <1>3 DEF Live
<1>4. ASSUME f.type = "INPUT" PROVE Live(a) = Live(q) \cup {Stored(f)}
  <2>1. Live(a) \subseteq Live(q) \cup {Stored(f)}
    BY <1>1, <1>2, <1>4 DEF Live
  <2>2. Live(q) \subseteq Live(a)
    BY <1>1, <1>2, <1>4 DEF Live
  <2>3. Stored(f) \in Live(a)
    BY <1>1, <1>2, <1>4, StoredFacts DEF Live
  <2> QED BY <2>1, <2>2, <2>3
<1>5. ASSUME f.type \notin {"END", "INPUT"} PROVE Live(a) = Live(q)
  <2>1. Live(a) \subseteq Live(q)
    BY <1>1, <1>2, <1>5 DEF Live
  <2>2. Live(q) \subseteq Live(a)
    BY <1>1, <1>2, <1>5 DEF Live
  <2> QED BY <2>1, <2>2
<1> QED BY <1>3, <1>4, <1>5 DEF a

(* Inputs up to tick m, each later than the ones before it that lie beyond *)
(* watermark w.                                                            *)
Increasing(q, w, m) ==
  \A p \in 1 .. Len(q) : q[p].type = "INPUT" =>
    /\ q[p].tick <= m
    /\ \A r \in 1 .. Len(q) : r < p /\ q[r].type = "INPUT" /\ q[r].tick > w => q[r].tick < q[p].tick
Above(q, w)  == \A p \in 1 .. Len(q) : q[p].type = "INPUT" => w < q[p].tick
Within(q, w) == \A p \in 1 .. Len(q) : q[p].type = "INPUT" => q[p].tick <= w

LEMMA FreshOfTail ==
  ASSUME NEW q \in Seq(Frames), q # <<>>, NEW w \in Int
  PROVE  Fresh(q, w) = Fresh(Tail(q), w) \cup
           (IF q[1].type = "INPUT" /\ q[1].tick > w THEN {Stored(q[1])} ELSE {})
<1> DEFINE t == Tail(q)
           first == q[1].type = "INPUT" /\ q[1].tick > w
<1>1. /\ 1 \in 1 .. Len(q) /\ q[1] \in Frames
      /\ \A p \in 1 .. Len(t) : p + 1 \in 1 .. Len(q) /\ t[p] = q[p + 1]
      /\ \A p \in 1 .. Len(q) : p = 1 \/ (p - 1 \in 1 .. Len(t) /\ q[p] = t[p - 1])
  BY Shifted
<1> HIDE DEF t
<1>2. ASSUME NEW x \in Fresh(q, w) PROVE x \in Fresh(t, w) \/ (first /\ x = Stored(q[1]))
  <2>1. PICK p \in 1 .. Len(q) : q[p].type = "INPUT" /\ x = Stored(q[p]) /\ q[p].tick > w
    BY <1>2 DEF Fresh
  <2>2. CASE p = 1
    BY <2>1, <2>2
  <2>3. CASE p # 1
    <3>1. p - 1 \in 1 .. Len(t) /\ q[p] = t[p - 1]
      BY <1>1, <2>3
    <3> QED BY <1>2, <2>1, <3>1 DEF Fresh
  <2> QED BY <2>2, <2>3
<1>3. ASSUME NEW x \in Fresh(t, w) PROVE x \in Fresh(q, w)
  <2>1. PICK p \in 1 .. Len(t) : t[p].type = "INPUT" /\ x = Stored(t[p]) /\ t[p].tick > w
    BY <1>3 DEF Fresh
  <2>2. p + 1 \in 1 .. Len(q) /\ t[p] = q[p + 1]
    BY <1>1
  <2> QED BY <1>3, <2>1, <2>2 DEF Fresh
<1>4. first => Stored(q[1]) \in Fresh(q, w)
  BY <1>1, StoredFacts DEF Fresh
<1> QED BY <1>2, <1>3, <1>4 DEF t

LEMMA FreshOfAppend ==
  ASSUME NEW q \in Seq(Frames), NEW f \in Frames, NEW w \in Int
  PROVE  /\ f.type = "INPUT" /\ f.tick > w => Fresh(Append(q, f), w) = Fresh(q, w) \cup {Stored(f)}
         /\ f.type # "INPUT" => Fresh(Append(q, f), w) = Fresh(q, w)
<1> DEFINE a == Append(q, f)
           l == Len(q) + 1
<1>1. /\ Len(q) \in Nat /\ Len(a) = l /\ a[l] = f /\ l \in 1 .. Len(a)
      /\ \A p \in 1 .. Len(q) : a[p] = q[p] /\ p \in 1 .. Len(a)
      /\ \A p \in 1 .. Len(a) : p \in 1 .. Len(q) \/ p = l
  BY AppendFacts
<1> HIDE DEF a, l
<1>2. Fresh(q, w) \subseteq Fresh(a, w)
  BY <1>1 DEF Fresh
<1>3. Fresh(a, w) \subseteq Fresh(q, w) \cup (IF f.type = "INPUT" THEN {Stored(f)} ELSE {})
  BY <1>1 DEF Fresh
<1>4. f.type = "INPUT" /\ f.tick > w => Stored(f) \in Fresh(a, w)
  BY <1>1, StoredFacts DEF Fresh
<1> QED BY <1>2, <1>3, <1>4 DEF a

LEMMA InputsOfTail ==
  ASSUME NEW q \in Seq(Frames), q # <<>>, NEW w \in Int, NEW m \in Int
  PROVE  /\ Increasing(q, w, m) => Increasing(Tail(q), w, m)
         /\ Above(q, w) => Above(Tail(q), w)
         /\ Within(q, w) => Within(Tail(q), w)
         /\ Increasing(q, w, m) /\ q[1].type = "INPUT" /\ q[1].tick > w =>
              /\ q[1].tick <= m /\ q[1].tick \in Nat
              /\ Increasing(Tail(q), q[1].tick, m)
              /\ Above(Tail(q), q[1].tick)
              /\ Fresh(Tail(q), q[1].tick) = Fresh(Tail(q), w)
<1> DEFINE t == Tail(q)
           h == q[1]
<1>1. /\ 1 \in 1 .. Len(q) /\ h \in Frames
      /\ \A p \in 1 .. Len(t) : p + 1 \in 1 .. Len(q) /\ t[p] = q[p + 1] /\ 1 < p + 1
      /\ \A p, r \in 1 .. Len(t) : r < p => r + 1 < p + 1
  <2>1. Len(q) \in Nat /\ Len(t) \in Nat
    BY Shifted
  <2> QED BY <2>1, Shifted
<1>2. \A p \in 1 .. Len(t) : t[p].type = "INPUT" => t[p].tick \in Nat
  <2>1. \A p \in 1 .. Len(t) : t[p] \in Frames
    BY <1>1
  <2> QED BY <2>1, FrameFacts
<1> HIDE DEF t
<1>3. ASSUME Increasing(q, w, m) PROVE Increasing(t, w, m)
  <2>1. ASSUME NEW p \in 1 .. Len(t), t[p].type = "INPUT" PROVE t[p].tick <= m
    BY <1>1, <1>3, <2>1 DEF Increasing
  <2>2. ASSUME NEW p \in 1 .. Len(t), t[p].type = "INPUT",
               NEW r \in 1 .. Len(t), r < p, t[r].type = "INPUT", t[r].tick > w
        PROVE  t[r].tick < t[p].tick
    <3>1. /\ p + 1 \in 1 .. Len(q) /\ t[p] = q[p + 1]
          /\ r + 1 \in 1 .. Len(q) /\ t[r] = q[r + 1] /\ r + 1 < p + 1
      BY <1>1, <2>2
    <3> QED BY <1>3, <2>2, <3>1 DEF Increasing
  <2> QED BY <2>1, <2>2 DEF Increasing
<1>4. /\ Above(q, w) => Above(t, w)
      /\ Within(q, w) => Within(t, w)
  BY <1>1 DEF Above, Within
<1>5. ASSUME Increasing(q, w, m), h.type = "INPUT", h.tick > w
      PROVE  /\ h.tick <= m /\ h.tick \in Nat
             /\ Increasing(t, h.tick, m)
             /\ Above(t, h.tick)
             /\ Fresh(t, h.tick) = Fresh(t, w)
  <2>1. h.tick <= m /\ h.tick \in Nat
    BY <1>1, <1>5, FrameFacts DEF Increasing
  <2>2. \A p \in 1 .. Len(t) : t[p].type = "INPUT" => h.tick < t[p].tick
    BY <1>1, <1>5 DEF Increasing
  <2>3. Above(t, h.tick)
    BY <2>2 DEF Above
  <2>4. Increasing(t, w, m)
    BY <1>3, <1>5
  <2>5. \A r \in 1 .. Len(t) : t[r].type = "INPUT" => (t[r].tick > h.tick /\ t[r].tick > w)
    BY <1>2, <1>5, <2>1, <2>2
  <2> HIDE DEF h
  <2>6. Increasing(t, h.tick, m)
    BY <2>4, <2>5 DEF Increasing
  <2>7. Fresh(t, h.tick) = Fresh(t, w)
    BY <2>5 DEF Fresh
  <2> QED BY <2>1, <2>3, <2>6, <2>7
<1> QED BY <1>3, <1>4, <1>5 DEF t

LEMMA InputsOfAppend ==
  ASSUME NEW q \in Seq(Frames), NEW f \in Frames, NEW w \in Int, NEW m \in Int
  PROVE  /\ f.type # "INPUT" => /\ Increasing(q, w, m) => Increasing(Append(q, f), w, m)
                                /\ Above(q, w) => Above(Append(q, f), w)
                                /\ Within(q, w) => Within(Append(q, f), w)
         /\ f.type = "INPUT" => /\ Increasing(q, w, m) /\ f.tick = m + 1 => Increasing(Append(q, f), w, m + 1)
                                /\ Above(q, w) /\ w < f.tick => Above(Append(q, f), w)
                                /\ Within(q, w) /\ f.tick <= w => Within(Append(q, f), w)
<1> DEFINE a == Append(q, f)
           l == Len(q) + 1
<1>1. /\ Len(q) \in Nat /\ Len(a) = l /\ a[l] = f /\ l \in 1 .. Len(a)
      /\ \A p \in 1 .. Len(q) : a[p] = q[p] /\ p \in 1 .. Len(a) /\ ~(l < p) /\ q[p] \in Frames
      /\ \A p \in 1 .. Len(a) : p \in 1 .. Len(q) \/ p = l
      /\ ~(l < l)
  BY AppendFacts
<1> HIDE DEF a, l
<1>2. \A p \in 1 .. Len(q) : q[p].type = "INPUT" => q[p].tick \in Nat
  BY <1>1, FrameFacts
<1>3. ASSUME f.type # "INPUT"
      PROVE  /\ Increasing(q, w, m) => Increasing(a, w, m)
             /\ Above(q, w) => Above(a, w)
             /\ Within(q, w) => Within(a, w)
  <2>1. Increasing(q, w, m) => Increasing(a, w, m)
    BY <1>1, <1>3 DEF Increasing
  <2>2. (Above(q, w) => Above(a, w)) /\ (Within(q, w) => Within(a, w))
    BY <1>1, <1>3 DEF Above, Within
  <2> QED BY <2>1, <2>2
<1>4. ASSUME f.type = "INPUT", Increasing(q, w, m), f.tick = m + 1 PROVE Increasing(a, w, m + 1)
  <2>1. \A p \in 1 .. Len(q) : q[p].type = "INPUT" => q[p].tick <= m + 1 /\ q[p].tick < m + 1
    BY <1>2, <1>4 DEF Increasing
  <2>2. m + 1 <= m + 1
    OBVIOUS
  <2>3. ASSUME NEW p \in 1 .. Len(a), a[p].type = "INPUT"
        PROVE  /\ a[p].tick <= m + 1
               /\ \A r \in 1 .. Len(a) : r < p /\ a[r].type = "INPUT" /\ a[r].tick > w => a[r].tick < a[p].tick
    <3>1. CASE p = l
      BY <1>1, <1>4, <2>1, <2>2, <3>1
    <3>2. CASE p \in 1 .. Len(q)
      BY <1>1, <1>4, <2>1, <2>3, <3>2 DEF Increasing
    <3> QED BY <1>1, <3>1, <3>2
  <2> QED BY <2>3 DEF Increasing
<1>5. ASSUME f.type = "INPUT"
      PROVE  /\ Above(q, w) /\ w < f.tick => Above(a, w)
             /\ Within(q, w) /\ f.tick <= w => Within(a, w)
  BY <1>1, <1>5 DEF Above, Within
<1> QED BY <1>3, <1>4, <1>5 DEF a

-----------------------------------------------------------------------------
(* What the guest sees of the host's inputs.  Its watermark is never more  *)
(* than one tick behind its own tick, and all it still hears of are inputs *)
(* of the host, in order, beyond the watermark.                            *)
Ahead(g) ==
  /\ tick[g] <= wm[g][Host] + 1 /\ wm[g][Host] <= Captured(Host)
  /\ \A x \in page[g][Host] : x[1] <= wm[g][Host]
Arriving(g) ==
  /\ \A p \in 1 .. Len(down[g]) : down[g][p].type = "INPUT" => down[g][p].seat = Host
  /\ Increasing(down[g], wm[g][Host], Captured(Host)) /\ Above(down[g], wm[g][Host])

(* A hold, or a BEGIN at i, that resumes at r: what comes behind it is of  *)
(* the ticks after r; the END comes, or the host is still writing; the     *)
(* host has got past r, and if there was another push since, far past it.  *)
Owed(g, q, i, r) ==
  /\ \A p \in 1 .. Len(q) : p > i /\ q[p].type = "INPUT" => r.tick + D <= q[p].tick
  /\ IF EndAfter(q, i)
     THEN /\ r.tick <= tick[Host] /\ r.push <= epoch[Host]
          /\ IF TwoEnds(q, i)
             THEN r.push < epoch[Host] /\ r.tick + 2 * D <= wm[Host][g]
             ELSE r.push = epoch[Host] /\ wm[Host][g] = r.tick + D - 1
     ELSE pc[Host] = "push" /\ r = resume[Host]
Debts(g, q) ==
  /\ hold[g] => Owed(g, q, 0, resume[g])
  /\ \A i \in 1 .. Len(q) : q[i].type = "BEGIN" => Owed(g, q, i, q[i].resume)

(* The guest is behind the host by the ENDs on their way to it.            *)
Behind(g) == /\ epoch[g] <= epoch[Host]
             /\ EndAfter(down[g], 0) <=> epoch[g] < epoch[Host]

(* What the host has captured since its last re-baseline has arrived or is *)
(* on its way.                                                             *)
Mirrored(g) ==
  (strayed => epoch[Host] > 0) =>
    page[Host][Host] = Live(down[g]) \cup (IF EndAfter(down[g], 0) THEN {} ELSE page[g][Host])

(* As long as the guest is behind the host hears nothing new of it: all it *)
(* sends is of ticks the host has left.                                    *)
Late(q, w) ==
  \A p \in 1 .. Len(q) : q[p].type = "INPUT" /\ EndAfter(q, p) => q[p].tick + 1 + D <= w
Stale(g) ==
  /\ page[Host][g] = {}
  /\ wm[g][Host] + 1 + D <= wm[Host][g] /\ wm[Host][g] <= tick[Host] + D - 1
  /\ Within(down[Host], wm[Host][g])
  /\ Late(down[g], wm[Host][g])

(* Once they are on the same push what the guest has captured is with the  *)
(* host or on its way.                                                     *)
Current(g) ==
  /\ wm[Host][g] <= Captured(g)
  /\ Increasing(down[Host], wm[Host][g], Captured(g))
  /\ \A x \in page[Host][g] : x[1] <= wm[Host][g]
  /\ (strayed => epoch[g] > 0) => page[g][g] = page[Host][g] \cup Fresh(down[Host], wm[Host][g])

Exchange(g) ==
  /\ Ahead(g) /\ Arriving(g) /\ Debts(g, down[g]) /\ Behind(g) /\ Mirrored(g)
  /\ epoch[g] < epoch[Host] => Stale(g)
  /\ epoch[g] = epoch[Host] => Current(g)

PageInv == cut = {} => \A g \in Guests : ~dropped[g] /\ ~dropped[Host] => Exchange(g)

LEMMA NothingLost == ASSUME cut' = {}, NEW c, NEW f, Written(c, f) PROVE down' = Sent(c, f)
BY DEF Written

LEMMA Basics ==
  ASSUME TypeInv, TwoSeats, NEW g \in Guests
  PROVE  /\ Typed /\ g \in Seats /\ Host \in Seats /\ g # Host /\ Host # g
         /\ \A c \in Seats : c = Host \/ c = g
         /\ \A c \in Seats : c # Host => c = g
         /\ down[g] \in Seq(Frames) /\ down[Host] \in Seq(Frames)
         /\ tick[g] \in Nat /\ tick[Host] \in Nat /\ epoch[g] \in Nat /\ epoch[Host] \in Nat
         /\ wm[g][Host] \in Int /\ wm[Host][g] \in Int
         /\ resume[g] \in Resumes /\ resume[Host] \in Resumes
         /\ resume[Host].tick \in Nat /\ resume[Host].push \in Nat
         /\ D \in Nat /\ Margin \in Nat
<1> USE Params
<1>1. Typed /\ g \in Seats /\ Host \in Seats /\ g # Host
  BY DEF TypeInv, Guests
<1>2. \A c \in Seats : c = Host \/ c = g
  BY <1>1 DEF TwoSeats, Guests
<1>3. /\ down[g] \in Seq(Frames) /\ down[Host] \in Seq(Frames)
      /\ tick[g] \in Nat /\ tick[Host] \in Nat /\ epoch[g] \in Nat /\ epoch[Host] \in Nat
      /\ wm[g][Host] \in Int /\ wm[Host][g] \in Int
  BY <1>1, Typings
<1>4. resume[g] \in Resumes /\ resume[Host] \in Resumes
  BY <1>1 DEF Typed
<1>5. resume[Host].tick \in Nat /\ resume[Host].push \in Nat
  BY <1>4 DEF Resumes
<1> QED BY <1>1, <1>2, <1>3, <1>4, <1>5

LEMMA CapturedFacts ==
  ASSUME Typed, NEW c \in Seats
  PROVE  /\ Captured(c) \in Int
         /\ AtGate(c) => Captured(c) = tick[c] + D
         /\ ~AtGate(c) => Captured(c) = tick[c] + D - 1
         /\ tick[c] + D - 1 <= Captured(c) /\ Captured(c) <= tick[c] + D
<1>1. tick[c] \in Nat /\ D \in Nat
  BY Typings, Params
<1> QED BY <1>1 DEF Captured

(* Owed outlives what the host does short of a re-baseline, and what it    *)
(* sends meanwhile.                                                        *)
HostGoesOn(g) ==
  /\ tick'[Host] \in Nat /\ tick[Host] <= tick'[Host] /\ epoch'[Host] = epoch[Host]
  /\ wm'[Host][g] = wm[Host][g]
  /\ pc[Host] = "push" => pc'[Host] = "push" /\ resume'[Host] = resume[Host]

LEMMA OwedKept ==
  ASSUME TypeInv, TwoSeats, NEW g \in Guests, HostGoesOn(g), NEW q, NEW i, NEW r \in Resumes,
         Owed(g, q, i, r)
  PROVE  Owed(g, q, i, r)'
<1>1. tick[Host] \in Nat /\ r.tick \in Nat
  BY Basics DEF Resumes
<1>2. r.tick <= tick[Host] => r.tick <= tick'[Host]
  BY <1>1 DEF HostGoesOn
<1>3. EndAfter(q, i)' = EndAfter(q, i) /\ TwoEnds(q, i)' = TwoEnds(q, i)
  BY DEF EndAfter, TwoEnds
<1> QED BY <1>2, <1>3 DEF Owed, HostGoesOn

LEMMA OwedAppend ==
  ASSUME TypeInv, TwoSeats, NEW g \in Guests, NEW q \in Seq(Frames), NEW i \in 0 .. Len(q),
         NEW r \in Resumes, Owed(g, q, i, r), NEW f \in Frames, f.type # "END",
         f.type = "INPUT" => pc[Host] # "push" /\ f.tick = tick[Host] + D
  PROVE  Owed(g, Append(q, f), i, r)
<1> DEFINE a == Append(q, f)
           l == Len(q) + 1
<1>1. /\ a[l] = f
      /\ \A p \in 1 .. Len(q) : a[p] = q[p]
      /\ \A p \in 1 .. Len(a) : p \in 1 .. Len(q) \/ p = l
  BY AppendFacts
<1>2. (EndAfter(a, i) <=> EndAfter(q, i)) /\ (TwoEnds(a, i) <=> TwoEnds(q, i))
  BY EndsOfAppend
<1>3. r.tick \in Nat /\ tick[Host] \in Nat /\ D \in Nat
  BY Basics DEF Resumes
<1> HIDE DEF a, l
<1>4. f.type = "INPUT" => r.tick + D <= f.tick
  <2>1. SUFFICES ASSUME f.type = "INPUT" PROVE r.tick + D <= f.tick
    OBVIOUS
  <2>2. r.tick <= tick[Host]
    BY <2>1 DEF Owed
  <2> QED BY <1>3, <2>1, <2>2
<1>5. \A p \in 1 .. Len(a) : p > i /\ a[p].type = "INPUT" => r.tick + D <= a[p].tick
  BY <1>1, <1>4 DEF Owed
<1> QED BY <1>2, <1>5 DEF Owed, a

LEMMA OwedTail ==
  ASSUME NEW g, NEW q \in Seq(Frames), q # <<>>, NEW r
  PROVE  /\ \A i \in Nat : Owed(g, q, i + 1, r) => Owed(g, Tail(q), i, r)
         /\ q[1].type # "END" /\ Owed(g, q, 0, r) => Owed(g, Tail(q), 0, r)
<1> DEFINE t == Tail(q)
<1>1. /\ \A p \in 1 .. Len(t) : p + 1 \in 1 .. Len(q) /\ t[p] = q[p + 1]
      /\ \A i \in Nat : \A p \in 1 .. Len(t) : p > i => p + 1 > i + 1 /\ p + 1 > 0
  <2>1. Len(t) \in Nat
    BY Shifted
  <2> QED BY <2>1, Shifted
<1>2. /\ \A i \in Nat : EndAfter(t, i) <=> EndAfter(q, i + 1)
      /\ \A i \in Nat : TwoEnds(t, i) <=> TwoEnds(q, i + 1)
      /\ EndAfter(q, 0) <=> q[1].type = "END" \/ EndAfter(q, 1)
      /\ TwoEnds(q, 0) <=> (q[1].type = "END" /\ EndAfter(q, 1)) \/ TwoEnds(q, 1)
  BY EndsOfTail
<1> HIDE DEF t
<1>3. ASSUME NEW i \in Nat, Owed(g, q, i + 1, r) PROVE Owed(g, t, i, r)
  <2>1. \A p \in 1 .. Len(t) : p > i /\ t[p].type = "INPUT" => r.tick + D <= t[p].tick
    BY <1>1, <1>3 DEF Owed
  <2> QED BY <1>2, <1>3, <2>1 DEF Owed
<1>4. ASSUME q[1].type # "END", Owed(g, q, 0, r) PROVE Owed(g, t, 0, r)
  <2>1. \A p \in 1 .. Len(t) : p > 0 /\ t[p].type = "INPUT" => r.tick + D <= t[p].tick
    BY <1>1, <1>4 DEF Owed
  <2>2. (EndAfter(t, 0) <=> EndAfter(q, 0)) /\ (TwoEnds(t, 0) <=> TwoEnds(q, 0))
    <3>1. 0 \in Nat /\ 0 + 1 = 1
      OBVIOUS
    <3> QED BY <1>2, <1>4, <3>1
  <2> QED BY <1>4, <2>1, <2>2 DEF Owed
<1> QED BY <1>3, <1>4 DEF t

LEMMA DebtsKept ==
  ASSUME TypeInv, TwoSeats, NEW g \in Guests, HostGoesOn(g), NEW q \in Seq(Frames), Debts(g, q),
         hold'[g] = hold[g], resume'[g] = resume[g]
  PROVE  Debts(g, q)'
<1>1. resume[g] \in Resumes
  BY Basics
<1>2. ASSUME hold[g] PROVE Owed(g, q, 0, resume[g])'
  <2>1. Owed(g, q, 0, resume[g])
    BY <1>2 DEF Debts
  <2>2. PICK r \in Resumes : r = resume[g]
    BY <1>1
  <2>3. Owed(g, q, 0, r)'
    BY <2>1, <2>2, OwedKept
  <2> QED BY <2>2, <2>3 DEF Owed
<1>3. ASSUME NEW i \in 1 .. Len(q), q[i].type = "BEGIN" PROVE Owed(g, q, i, q[i].resume)'
  <2>1. q[i].resume \in Resumes
    BY <1>3, FrameFacts
  <2>2. Owed(g, q, i, q[i].resume)
    BY <1>3 DEF Debts
  <2> QED BY <2>1, <2>2, OwedKept
<1> QED BY <1>2, <1>3 DEF Debts

LEMMA DebtsThere ==
  ASSUME TypeInv, TwoSeats, NEW g \in Guests, HostGoesOn(g), NEW q \in Seq(Frames), Debts(g, q),
         hold'[g] = hold[g], resume'[g] = resume[g], down'[g] = q
  PROVE  Debts(g, down[g])'
<1>1. Debts(g, q)'
  BY DebtsKept
<1> QED BY <1>1 DEF Debts, Owed, EndAfter, TwoEnds

LEMMA DebtsAppend ==
  ASSUME TypeInv, TwoSeats, NEW g \in Guests, NEW q \in Seq(Frames), Debts(g, q),
         NEW f \in Frames, f.type \notin {"BEGIN", "END"},
         f.type = "INPUT" => pc[Host] # "push" /\ f.tick = tick[Host] + D
  PROVE  Debts(g, Append(q, f))
<1> DEFINE a == Append(q, f)
           l == Len(q) + 1
<1>1. /\ a[l] = f /\ Len(q) \in Nat
      /\ \A p \in 1 .. Len(q) : a[p] = q[p] /\ p \in 0 .. Len(q) /\ q[p] \in Frames
      /\ \A p \in 1 .. Len(a) : p \in 1 .. Len(q) \/ p = l
  BY AppendFacts
<1>2. resume[g] \in Resumes /\ 0 \in 0 .. Len(q)
  BY <1>1, Basics
<1>3. hold[g] => Owed(g, a, 0, resume[g])
  BY <1>2, OwedAppend DEF Debts
<1> HIDE DEF a
<1>4. ASSUME NEW i \in 1 .. Len(a), a[i].type = "BEGIN" PROVE Owed(g, a, i, a[i].resume)
  <2>1. i \in 1 .. Len(q) /\ q[i].type = "BEGIN" /\ a[i] = q[i]
    BY <1>1, <1>4
  <2>2. q[i].resume \in Resumes /\ i \in 0 .. Len(q)
    BY <1>1, <2>1, FrameFacts
  <2>3. Owed(g, q, i, q[i].resume)
    BY <2>1 DEF Debts
  <2> QED BY <2>1, <2>2, <2>3, OwedAppend DEF a
<1> QED BY <1>3, <1>4 DEF Debts, a

LEMMA DebtsTail ==
  ASSUME NEW g \in Guests, NEW q \in Seq(Frames), q # <<>>, Debts(g, q)
  PROVE  /\ \A i \in 1 .. Len(Tail(q)) :
              Tail(q)[i].type = "BEGIN" => Owed(g, Tail(q), i, Tail(q)[i].resume)
         /\ q[1].type # "END" => Debts(g, Tail(q))
         /\ q[1].type = "BEGIN" => Owed(g, Tail(q), 0, q[1].resume)
<1> DEFINE t == Tail(q)
<1>1. /\ 1 \in 1 .. Len(q) /\ Len(t) \in Nat
      /\ \A p \in 1 .. Len(t) : p + 1 \in 1 .. Len(q) /\ t[p] = q[p + 1]
  BY Shifted
<1> HIDE DEF t
<1>2. ASSUME NEW i \in 1 .. Len(t), t[i].type = "BEGIN" PROVE Owed(g, t, i, t[i].resume)
  <2>1. i \in Nat /\ i + 1 \in 1 .. Len(q) /\ t[i] = q[i + 1]
    BY <1>1
  <2>2. Owed(g, q, i + 1, t[i].resume)
    BY <1>2, <2>1 DEF Debts
  <2> QED BY <2>1, <2>2, OwedTail DEF t
<1>3. hold[g] /\ q[1].type # "END" => Owed(g, t, 0, resume[g])
  BY OwedTail DEF Debts, t
<1>4. ASSUME q[1].type = "BEGIN" PROVE Owed(g, t, 0, q[1].resume)
  <2>1. Owed(g, q, 0 + 1, q[1].resume)
    BY <1>1, <1>4 DEF Debts
  <2> QED BY <2>1, OwedTail DEF t
<1> QED BY <1>2, <1>3, <1>4 DEF Debts, t

LEMMA LateAppend ==
  ASSUME NEW q \in Seq(Frames), NEW f \in Frames, f.type # "END", NEW w, Late(q, w)
  PROVE  Late(Append(q, f), w)
<1> DEFINE a == Append(q, f)
           l == Len(q) + 1
<1>1. /\ \A p \in 1 .. Len(q) : a[p] = q[p] /\ p \in 0 .. Len(q)
      /\ \A p \in 1 .. Len(a) : p \in 1 .. Len(q) \/ p = l
  BY AppendFacts
<1>2. /\ \A p \in 0 .. Len(q) : EndAfter(a, p) <=> EndAfter(q, p)
      /\ ~EndAfter(a, l)
  BY EndsOfAppend
<1> HIDE DEF a, l
<1>3. Late(a, w)
  BY <1>1, <1>2 DEF Late
<1> QED BY <1>3 DEF a

LEMMA LateTail ==
  ASSUME NEW q \in Seq(Frames), q # <<>>, NEW w, Late(q, w)
  PROVE  Late(Tail(q), w) /\ (q[1].type = "INPUT" /\ EndAfter(q, 1) => q[1].tick + 1 + D <= w)
<1> DEFINE t == Tail(q)
<1>1. /\ 1 \in 1 .. Len(q) /\ Len(t) \in Nat
      /\ \A p \in 1 .. Len(t) : p + 1 \in 1 .. Len(q) /\ t[p] = q[p + 1]
  BY Shifted
<1>2. \A p \in 1 .. Len(t) : EndAfter(t, p) <=> EndAfter(q, p + 1)
  BY <1>1, EndsOfTail
<1> HIDE DEF t
<1>3. Late(t, w)
  BY <1>1, <1>2 DEF Late
<1> QED BY <1>1, <1>3 DEF Late, t

(* With every input ordered up to m, all of them before the next END.      *)
LEMMA WiderRange ==
  ASSUME NEW q \in Seq(Frames), NEW w \in Int, NEW m \in Int, NEW n \in Int, m <= n,
         Increasing(q, w, m)
  PROVE  Increasing(q, w, n) /\ Within(q, m) /\ Within(q, n)
<1>1. ASSUME NEW p \in 1 .. Len(q), q[p].type = "INPUT" PROVE q[p].tick <= m /\ q[p].tick <= n
  <2>1. q[p] \in Frames
    OBVIOUS
  <2>2. q[p].tick \in Nat /\ q[p].tick <= m
    BY <1>1, <2>1, FrameFacts DEF Increasing
  <2> QED BY <2>2
<1> QED BY <1>1 DEF Increasing, Within

-----------------------------------------------------------------------------
(* Step by step.                                                           *)

(* Nothing is stored, sent or read; something may have gone wrong.         *)
LEMMA ExchangeIdle ==
  ASSUME TypeInv, TwoSeats, NEW g \in Guests, Exchange(g),
         UNCHANGED <<tick, wm, page, epoch, hold, resume, down>>,
         Captured(g)' = Captured(g), Captured(Host)' = Captured(Host),
         pc[Host] = "push" => pc'[Host] = "push", strayed' = strayed \/ ~strayed
  PROVE  Exchange(g)'
<1>1. HostGoesOn(g) /\ down[g] \in Seq(Frames)
  BY Basics DEF HostGoesOn
<1>2. Debts(g, down[g])'
  <2>1. PICK q \in Seq(Frames) : q = down[g]
    BY <1>1
  <2>2. Debts(g, q) /\ down'[g] = q
    BY <2>1 DEF Exchange
  <2> QED BY <1>1, <2>2, DebtsThere
<1>3. Ahead(g)' /\ Arriving(g)' /\ Behind(g)'
  BY DEF Exchange, Ahead, Arriving, Behind, Increasing, Above, EndAfter
<1>4. Mirrored(g)'
  BY DEF Exchange, Mirrored, Live, EndAfter
<1>5. epoch'[g] < epoch'[Host] => Stale(g)'
  BY DEF Exchange, Stale, Late, Within, EndAfter
<1>6. epoch'[g] = epoch'[Host] => Current(g)'
  BY DEF Exchange, Current, Increasing, Fresh
<1> QED BY <1>2, <1>3, <1>4, <1>5, <1>6 DEF Exchange

(* The host stores an input and sends it, or fails to send it.             *)
LEMMA ExchangeHostCapture ==
  ASSUME TypeInv, HostInv, TwoSeats, NEW g \in Guests, ~dropped[g], Exchange(g), Capture(Host)
  PROVE  Exchange(g)'
<1> DEFINE t == tick[Host] + D
           f == Input(Host, t, epoch[Host])
           q == down[g]
           w == wm[g][Host]
<1>1. /\ Typed /\ g \in Seats /\ Host \in Seats /\ g # Host /\ Host # g
      /\ q \in Seq(Frames) /\ t \in Nat /\ epoch[Host] \in Nat /\ w \in Int /\ tick[Host] \in Nat
  BY Basics
<1>2. /\ pc[Host] = "top" /\ pc' = [pc EXCEPT ![Host] = "gate"]
      /\ page' = [page EXCEPT ![Host][Host] = page[Host][Host] \cup {<<t, epoch[Host]>>}]
      /\ \/ down' = Sent(Host, f) /\ strayed' = strayed
         \/ down' = down /\ Fault(Host)
      /\ UNCHANGED <<tick, wm, dropped, rsv, game, epoch>>
  BY DEF Capture
<1>3. f \in Frames /\ f.type = "INPUT" /\ f.seat = Host /\ f.tick = t /\ Stored(f) = <<t, epoch[Host]>>
  BY <1>1, MadeFrames DEF Input, Stored
<1>4. Same(g)
  BY <1>1, OthersSame DEF Step
<1>5. /\ page'[Host][Host] = page[Host][Host] \cup {<<t, epoch[Host]>>}
      /\ page'[Host][g] = page[Host][g]
  BY <1>1, <1>2 DEF Typed
<1>6. UNCHANGED <<tick, wm, hold, resume, epoch>>
  BY <1>2 DEF rsv
<1>7. ~AtGate(Host) /\ AtGate(Host)'
  BY <1>1, <1>2 DEF AtGate, Typed
<1>8. Captured(Host) = t - 1 /\ Captured(Host)' = t /\ Captured(g)' = Captured(g)
  <2>1. Captured(Host) = t - 1
    BY <1>1, <1>7, Params DEF Captured
  <2>2. Captured(Host)' = tick'[Host] + D
    BY <1>7 DEF Captured
  <2>3. tick'[Host] + D = t
    BY <1>6
  <2>4. Captured(g)' = Captured(g)
    BY <1>4 DEF Captured, AtGate, Same
  <2> QED BY <2>1, <2>2, <2>3, <2>4
<1>9. /\ down'[Host] = down[Host]
      /\ \/ down'[g] = Append(q, f) /\ strayed' = strayed
         \/ down'[g] = q /\ epoch[Host] = 0 /\ strayed'
  BY <1>1, <1>2, <1>3, HostSends DEF Sent, Fault
<1>10. HostGoesOn(g)
  BY <1>1, <1>2, <1>6 DEF HostGoesOn
<1>11. Ahead(g)'
  <2>1. w <= t - 1 /\ tick[g] <= w + 1
    BY <1>8 DEF Exchange, Ahead
  <2>2. w <= t
    BY <1>1, <2>1
  <2> QED BY <1>4, <1>6, <1>8, <2>1, <2>2 DEF Exchange, Ahead, Same
<1>12. Increasing(q, w, t - 1) /\ Above(q, w) /\ w <= t - 1
  BY <1>8 DEF Exchange, Ahead, Arriving
<1>13. CASE down'[g] = Append(q, f) /\ strayed' = strayed
  <2> DEFINE a == Append(q, f)
  <2>0. a \in Seq(Frames)
    BY <1>1, <1>3, AppendFacts
  <2>1. /\ \A p \in 1 .. Len(q) : a[p] = q[p]
        /\ \A p \in 1 .. Len(a) : a[p] = f \/ p \in 1 .. Len(q)
    BY <1>1, <1>3, AppendFacts
  <2>2. Increasing(a, w, t) /\ Above(a, w)
    <3>1. t - 1 \in Int /\ f.tick = (t - 1) + 1 /\ w < f.tick /\ (t - 1) + 1 = t
      BY <1>1, <1>3, <1>12
    <3> HIDE DEF t, f
    <3> QED BY <1>1, <1>3, <1>12, <3>1, InputsOfAppend
  <2>3. Debts(g, a)
    BY <1>1, <1>2, <1>3, DebtsAppend DEF Exchange
  <2>4. (EndAfter(a, 0) <=> EndAfter(q, 0)) /\ Live(a) = Live(q) \cup {Stored(f)}
    <3>1. 0 \in 0 .. Len(q)
      BY <1>1
    <3> QED BY <1>1, <1>3, <3>1, EndsOfAppend, LiveOfAppend
  <2>5. Late(q, wm[Host][g]) => Late(a, wm[Host][g])
    BY <1>1, <1>3, LateAppend
  <2> HIDE DEF a, f
  <2>6. Arriving(g)'
    <3>1. \A p \in 1 .. Len(a) : a[p].type = "INPUT" => a[p].seat = Host
      BY <1>3, <2>1 DEF Exchange, Arriving
    <3>2. down'[g] = a
      BY <1>13 DEF a
    <3> QED BY <1>6, <1>8, <2>2, <3>1, <3>2 DEF Arriving, Increasing, Above
  <2>7. Debts(g, down[g])'
    <3>1. PICK b \in Seq(Frames) : b = a
      BY <2>0
    <3>2. down'[g] = b /\ Debts(g, b)
      BY <1>13, <2>3, <3>1 DEF a
    <3> QED BY <1>6, <1>10, <3>2, DebtsThere
  <2>8. Behind(g)'
    <3>1. EndAfter(down'[g], 0) <=> EndAfter(q, 0)
      BY <1>13, <2>4 DEF a
    <3> QED BY <1>6, <3>1 DEF Exchange, Behind, EndAfter
  <2>9. Mirrored(g)'
    <3>1. /\ Live(down'[g]) = Live(q) \cup {Stored(f)}
          /\ EndAfter(down'[g], 0) <=> EndAfter(q, 0)
      BY <1>13, <2>4 DEF a
    <3>2. page'[g][Host] = page[g][Host] /\ epoch' = epoch /\ strayed' = strayed
      BY <1>4, <1>6, <1>13 DEF Same
    <3>3. \/ strayed /\ epoch[Host] = 0
          \/ page[Host][Host] = Live(q) \cup (IF EndAfter(q, 0) THEN {} ELSE page[g][Host])
          \/ ~(epoch[Host] > 0) /\ strayed
      BY <1>1 DEF Exchange, Mirrored
    <3>4. (strayed' => epoch'[Host] > 0) =>
             page'[Host][Host] = Live(down'[g]) \cup (IF EndAfter(down'[g], 0) THEN {} ELSE page'[g][Host])
      BY <1>3, <1>5, <3>1, <3>2, <3>3
    <3> QED BY <3>4 DEF Mirrored, Live, EndAfter
  <2>10. epoch'[g] < epoch'[Host] => Stale(g)'
    <3>1. Late(q, wm[Host][g]) => Late(down'[g], wm[Host][g])
      BY <1>13, <2>5 DEF a
    <3> QED BY <1>5, <1>6, <1>9, <3>1 DEF Exchange, Stale, Late, EndAfter, Within
  <2>11. epoch'[g] = epoch'[Host] => Current(g)'
    BY <1>4, <1>5, <1>6, <1>8, <1>9, <1>13 DEF Exchange, Current, Same, Increasing, Fresh
  <2> QED BY <1>11, <2>6, <2>7, <2>8, <2>9, <2>10, <2>11 DEF Exchange
<1>14. CASE down'[g] = q /\ epoch[Host] = 0 /\ strayed'
  <2>1. Increasing(q, w, t)
    <3>1. t - 1 \in Int /\ t \in Int /\ t - 1 <= t
      BY <1>1
    <3> HIDE DEF t
    <3> QED BY <1>1, <1>12, <3>1, WiderRange
  <2>2. Arriving(g)'
    BY <1>6, <1>8, <1>14, <2>1 DEF Exchange, Arriving, Increasing, Above
  <2>3. Debts(g, down[g])'
    <3>1. PICK b \in Seq(Frames) : b = q
      BY <1>1
    <3>2. down'[g] = b /\ Debts(g, b)
      BY <1>14, <3>1 DEF Exchange
    <3> QED BY <1>6, <1>10, <3>2, DebtsThere
  <2>4. Behind(g)'
    BY <1>6, <1>14 DEF Exchange, Behind, EndAfter
  <2>5. Mirrored(g)'
    BY <1>1, <1>6, <1>14 DEF Mirrored
  <2>6. epoch'[g] < epoch'[Host] => Stale(g)'
    BY <1>5, <1>6, <1>9, <1>14 DEF Exchange, Stale, Late, EndAfter, Within
  <2>7. epoch'[g] = epoch'[Host] => Current(g)'
    <3>1. SUFFICES ASSUME epoch'[g] = epoch'[Host] PROVE Current(g)'
      OBVIOUS
    <3>2. epoch'[g] = 0 /\ strayed' /\ ~(epoch'[g] > 0)
      BY <1>6, <1>14, <3>1
    <3>3. Current(g)
      BY <1>6, <3>1 DEF Exchange
    <3> QED BY <1>5, <1>6, <1>8, <1>9, <3>2, <3>3 DEF Current, Increasing
  <2> QED BY <1>11, <2>2, <2>3, <2>4, <2>5, <2>6, <2>7 DEF Exchange
<1> QED BY <1>9, <1>13, <1>14

(* Two queues with the same inputs and the same ENDs in them.              *)
Alike(q, r) ==
  /\ \A w, m \in Int : Increasing(q, w, m) => Increasing(r, w, m)
  /\ \A w \in Int : Above(q, w) => Above(r, w)
  /\ \A w \in Int : Within(q, w) => Within(r, w)
  /\ \A w \in Int : Late(q, w) => Late(r, w)
  /\ \A w \in Int : Fresh(r, w) = Fresh(q, w)
  /\ Live(r) = Live(q) /\ (EndAfter(r, 0) <=> EndAfter(q, 0))
  /\ \A s : (\A p \in 1 .. Len(q) : q[p].type = "INPUT" => q[p].seat = s)
             => \A p \in 1 .. Len(r) : r[p].type = "INPUT" => r[p].seat = s

LEMMA AlikeAppend ==
  ASSUME NEW q \in Seq(Frames), NEW f \in Frames, f.type \notin {"INPUT", "END"}
  PROVE  Alike(q, Append(q, f))
<1> DEFINE a == Append(q, f)
<1>1. /\ \A p \in 1 .. Len(q) : a[p] = q[p]
      /\ \A p \in 1 .. Len(a) : a[p] = f \/ p \in 1 .. Len(q)
      /\ 0 \in 0 .. Len(q)
  BY AppendFacts
<1>2. \A w, m \in Int : Increasing(q, w, m) => Increasing(a, w, m)
  BY InputsOfAppend
<1>3. \A w \in Int : (Above(q, w) => Above(a, w)) /\ (Within(q, w) => Within(a, w))
  <2>1. 0 \in Int
    OBVIOUS
  <2> QED BY <2>1, InputsOfAppend
<1>4. \A w \in Int : Late(q, w) => Late(a, w)
  BY LateAppend
<1>5. \A w \in Int : Fresh(a, w) = Fresh(q, w)
  BY FreshOfAppend
<1>6. Live(a) = Live(q) /\ (EndAfter(a, 0) <=> EndAfter(q, 0))
  BY <1>1, LiveOfAppend, EndsOfAppend
<1> HIDE DEF a
<1>7. ASSUME NEW s, \A p \in 1 .. Len(q) : q[p].type = "INPUT" => q[p].seat = s
      PROVE  \A p \in 1 .. Len(a) : a[p].type = "INPUT" => a[p].seat = s
  BY <1>1, <1>7
<1> QED BY <1>2, <1>3, <1>4, <1>5, <1>6, <1>7 DEF Alike, a

LEMMA AlikeTail ==
  ASSUME NEW q \in Seq(Frames), q # <<>>, q[1].type \notin {"INPUT", "END"}
  PROVE  Alike(q, Tail(q))
<1> DEFINE t == Tail(q)
<1>1. \A p \in 1 .. Len(t) : p + 1 \in 1 .. Len(q) /\ t[p] = q[p + 1]
  BY Shifted
<1>2. \A w, m \in Int : Increasing(q, w, m) => Increasing(t, w, m)
  BY InputsOfTail
<1>3. \A w \in Int : (Above(q, w) => Above(t, w)) /\ (Within(q, w) => Within(t, w))
  BY InputsOfTail
<1>4. \A w \in Int : Late(q, w) => Late(t, w)
  BY LateTail
<1>5. \A w \in Int : Fresh(t, w) = Fresh(q, w)
  BY FreshOfTail
<1>6. Live(t) = Live(q) /\ (EndAfter(t, 0) <=> EndAfter(q, 0))
  <2>1. 0 \in Nat /\ 0 + 1 = 1
    OBVIOUS
  <2>2. EndAfter(t, 0) <=> EndAfter(q, 0 + 1)
    BY <2>1, EndsOfTail
  <2>3. EndAfter(q, 0) <=> EndAfter(q, 1)
    BY EndsOfTail
  <2>4. Live(t) = Live(q)
    BY LiveOfTail
  <2> QED BY <2>1, <2>2, <2>3, <2>4
<1> HIDE DEF t
<1>7. ASSUME NEW s, \A p \in 1 .. Len(q) : q[p].type = "INPUT" => q[p].seat = s
      PROVE  \A p \in 1 .. Len(t) : t[p].type = "INPUT" => t[p].seat = s
  BY <1>1, <1>7
<1> QED BY <1>2, <1>3, <1>4, <1>5, <1>6, <1>7 DEF Alike, t

(* No input is stored, captured or read, and nobody re-baselines.          *)
LEMMA ExchangeQuiet ==
  ASSUME TypeInv, TwoSeats, NEW g \in Guests, Exchange(g),
         UNCHANGED <<wm, page, epoch, strayed>>,
         tick'[g] <= wm[g][Host] + 1, tick'[Host] \in Nat, tick[Host] <= tick'[Host],
         Captured(g)' = Captured(g), Captured(Host)' = Captured(Host),
         Alike(down[g], down'[g]), Alike(down[Host], down'[Host]), Debts(g, down[g])'
  PROVE  Exchange(g)'
<1>1. /\ g \in Seats /\ Host \in Seats
      /\ wm[g][Host] \in Int /\ wm[Host][g] \in Int /\ tick[Host] \in Nat /\ D \in Nat
      /\ Captured(g) \in Int /\ Captured(Host) \in Int
  BY Basics, CapturedFacts
<1>2. PICK q, r, qH, rH : q = down[g] /\ r = down'[g] /\ qH = down[Host] /\ rH = down'[Host]
  OBVIOUS
<1>3. Alike(q, r) /\ Alike(qH, rH)
  BY <1>2
<1>4. Ahead(g)'
  BY DEF Exchange, Ahead
<1>5. Arriving(g)'
  <2>1. \A p \in 1 .. Len(r) : r[p].type = "INPUT" => r[p].seat = Host
    BY <1>2, <1>3 DEF Exchange, Arriving, Alike
  <2>2. Increasing(r, wm[g][Host], Captured(Host)) /\ Above(r, wm[g][Host])
    BY <1>1, <1>2, <1>3 DEF Exchange, Arriving, Alike
  <2> QED BY <1>2, <2>1, <2>2 DEF Arriving, Increasing, Above
<1>6. EndAfter(down'[g], 0) <=> EndAfter(down[g], 0)
  BY DEF Alike
<1>7. Behind(g)'
  BY <1>6 DEF Exchange, Behind, EndAfter
<1>8. Mirrored(g)'
  <2>1. Live(down'[g]) = Live(down[g])
    BY DEF Alike
  <2>2. (strayed' => epoch'[Host] > 0) =>
          page'[Host][Host] = Live(down'[g]) \cup (IF EndAfter(down'[g], 0) THEN {} ELSE page'[g][Host])
    BY <1>6, <2>1 DEF Exchange, Mirrored
  <2> QED BY <2>2 DEF Mirrored, Live, EndAfter
<1>9. epoch'[g] < epoch'[Host] => Stale(g)'
  <2>1. SUFFICES ASSUME Stale(g) PROVE Stale(g)'
    BY DEF Exchange
  <2>2. Late(r, wm[Host][g]) /\ Within(rH, wm[Host][g])
    BY <1>1, <1>2, <1>3, <2>1 DEF Stale, Alike
  <2>3. wm[Host][g] <= tick'[Host] + D - 1
    BY <1>1, <2>1 DEF Stale
  <2> QED BY <1>2, <2>1, <2>2, <2>3 DEF Stale, Late, Within, EndAfter
<1>10. epoch'[g] = epoch'[Host] => Current(g)'
  <2>1. SUFFICES ASSUME Current(g) PROVE Current(g)'
    BY DEF Exchange
  <2>2. Increasing(rH, wm[Host][g], Captured(g)) /\ Fresh(rH, wm[Host][g]) = Fresh(qH, wm[Host][g])
    BY <1>1, <1>2, <1>3, <2>1 DEF Current, Alike
  <2>3. Increasing(down[Host], wm[Host][g], Captured(g))'
    BY <1>2, <2>2 DEF Increasing
  <2>4. (strayed' => epoch'[g] > 0) => page'[g][g] = page'[Host][g] \cup Fresh(rH, wm'[Host][g])
    BY <1>2, <2>1, <2>2 DEF Current
  <2>5. wm'[Host][g] <= Captured(g)' /\ \A x \in page'[Host][g] : x[1] <= wm'[Host][g]
    BY <2>1 DEF Current
  <2> QED BY <1>2, <2>3, <2>4, <2>5 DEF Current, Fresh
<1> QED BY <1>4, <1>5, <1>7, <1>8, <1>9, <1>10 DEF Exchange

LEMMA AlikeSame == ASSUME NEW q PROVE Alike(q, q)
BY DEF Alike

(* The BEGIN of a push: its END is still to be written.                    *)
LEMMA DebtsBegin ==
  ASSUME TypeInv, TwoSeats, NEW g \in Guests, NEW q \in Seq(Frames), Debts(g, q),
         pc[Host] = "push"
  PROVE  Debts(g, Append(q, Begin(resume[Host])))
<1> DEFINE f == Begin(resume[Host])
           a == Append(q, f)
           l == Len(q) + 1
<1>1. f \in Frames /\ f.type = "BEGIN" /\ f.resume = resume[Host]
  BY Basics, MadeFrames DEF Begin
<1> HIDE DEF f
<1>2. /\ a[l] = f /\ Len(q) \in Nat /\ Len(a) = l
      /\ \A p \in 1 .. Len(q) : a[p] = q[p] /\ p \in 0 .. Len(q) /\ q[p] \in Frames
      /\ \A p \in 1 .. Len(a) : (p \in 1 .. Len(q) \/ p = l) /\ ~(p > l)
  BY <1>1, AppendFacts
<1>3. resume[g] \in Resumes /\ 0 \in 0 .. Len(q)
  BY <1>2, Basics
<1>4. hold[g] => Owed(g, a, 0, resume[g])
  BY <1>1, <1>3, OwedAppend DEF Debts
<1>5. ~EndAfter(a, l)
  BY <1>1, EndsOfAppend
<1> HIDE DEF a, l
<1>6. Owed(g, a, l, f.resume)
  BY <1>1, <1>2, <1>5 DEF Owed
<1>7. ASSUME NEW i \in 1 .. Len(a), a[i].type = "BEGIN" PROVE Owed(g, a, i, a[i].resume)
  <2>1. CASE i = l
    BY <1>2, <1>6, <2>1
  <2>2. CASE i \in 1 .. Len(q)
    <3>1. q[i].type = "BEGIN" /\ a[i] = q[i] /\ q[i].resume \in Resumes /\ i \in 0 .. Len(q)
      BY <1>2, <1>7, <2>2, FrameFacts
    <3>2. Owed(g, q, i, q[i].resume)
      BY <2>2, <3>1 DEF Debts
    <3> QED BY <1>1, <3>1, <3>2, OwedAppend DEF a
  <2> QED BY <1>2, <2>1, <2>2
<1> QED BY <1>4, <1>7 DEF Debts, a, f

(* The host runs a tick, or writes a part of its push that is not the END. *)
LEMMA ExchangeHostSends ==
  ASSUME TypeInv, HostInv, TwoSeats, NEW g \in Guests, ~dropped[g], Exchange(g),
         cut' = {}, RunTick(Host) \/ PushWrite(Host)
  PROVE  Exchange(g)'
<1> DEFINE q == down[g]
<1>1. /\ Typed /\ g \in Seats /\ Host \in Seats /\ g # Host /\ q \in Seq(Frames)
      /\ tick[Host] \in Nat /\ tick[g] \in Nat /\ wm[g][Host] \in Int
  BY Basics
<1>2. Same(g)
  BY <1>1, OthersSame DEF Step
<1>3. UNCHANGED <<wm, page, epoch, strayed>>
  BY DEF RunTick, PushWrite, sim
<1>4. /\ tick'[Host] \in Nat /\ tick[Host] <= tick'[Host]
      /\ Captured(Host)' = Captured(Host) /\ HostGoesOn(g)
  <2>1. CASE RunTick(Host)
    <3>1. /\ AtGate(Host) /\ tick' = [tick EXCEPT ![Host] = tick[Host] + 1]
          /\ pc'[Host] \in {"push", "entry"} /\ pc[Host] # "push"
      BY <1>1, <2>1 DEF RunTick, StartPush, KeepWaiting, AtGate, Typed
    <3>2. tick'[Host] = tick[Host] + 1 /\ ~AtGate(Host)'
      BY <1>1, <3>1 DEF AtGate, Typed
    <3>3. Captured(Host) = tick[Host] + D /\ Captured(Host)' = (tick[Host] + 1) + D - 1
      BY <3>1, <3>2 DEF Captured
    <3>4. /\ tick[Host] + 1 \in Nat /\ tick[Host] <= tick[Host] + 1
          /\ tick[Host] + D = (tick[Host] + 1) + D - 1
      <4>1. tick[Host] \in Nat /\ D \in Nat
        BY <1>1, Params
      <4> QED BY <4>1
    <3> QED BY <1>3, <3>1, <3>2, <3>3, <3>4 DEF HostGoesOn
  <2>2. CASE PushWrite(Host)
    <3>1. UNCHANGED <<pc, tick, resume>> /\ tick[Host] <= tick[Host]
      BY <1>1, <2>2 DEF PushWrite
    <3> QED BY <1>1, <1>3, <3>1 DEF HostGoesOn, Captured, AtGate
  <2> QED BY <2>1, <2>2
<1>5. down'[Host] = down[Host]
  <2>1. \A f : Sent(Host, f)[Host] = down[Host]
    BY <1>1 DEF Sent
  <2>2. (\E f : down' = Sent(Host, f)) \/ down' = down
    BY <1>1, TickSends DEF PushWrite, Written
  <2> QED BY <2>1, <2>2
<1>6. \/ q = down'[g] /\ Debts(g, down'[g])
      \/ \E f \in Frames : /\ f.type \notin {"INPUT", "END"} /\ down'[g] = Append(q, f)
                           /\ Debts(g, Append(q, f))
  <2>0. Debts(g, q)
    BY DEF Exchange
  <2>1. CASE RunTick(Host)
    <3>1. PICK f \in Frames : f.type = "CRC" /\ (down' = Sent(Host, f) \/ down' = down)
      BY <1>1, <2>1, TickSends
    <3>2. Debts(g, Append(q, f))
      BY <1>1, <2>0, <3>1, DebtsAppend
    <3>3. down'[g] = q \/ down'[g] = Append(q, f)
      BY <3>1, HostSends
    <3> QED BY <2>0, <3>1, <3>2, <3>3
  <2>2. CASE PushWrite(Host) /\ pos = 0
    <3> DEFINE f == Begin(resume[Host])
    <3>1. f \in Frames /\ f.type = "BEGIN"
      BY Basics, MadeFrames DEF Begin
    <3>4. down' = Sent(Host, f)
      BY <2>2, NothingLost DEF PushWrite
    <3>2. Debts(g, Append(q, f))
      BY <1>1, <2>0, <2>2, DebtsBegin DEF PushWrite
    <3> HIDE DEF f
    <3>3. down'[g] = Append(q, f)
      BY <3>1, <3>4, HostSends
    <3> QED BY <3>1, <3>2, <3>3
  <2>3. CASE PushWrite(Host) /\ pos # 0
    <3> DEFINE f == Chunk(pos, resume[Host].push)
    <3>1. pos \in Chunks
      BY <2>3 DEF PushWrite, TypeInv, Typed, Counted, Chunks
    <3>2. f \in Frames /\ f.type = "CHUNK"
      BY <3>1, Basics, MadeFrames DEF Chunk
    <3>5. down' = Sent(Host, f)
      BY <2>3, NothingLost DEF PushWrite
    <3> HIDE DEF f
    <3>3. Debts(g, Append(q, f))
      BY <1>1, <2>0, <3>2, DebtsAppend
    <3>4. down'[g] = Append(q, f)
      BY <3>2, <3>5, HostSends
    <3> QED BY <3>2, <3>3, <3>4
  <2> QED BY <2>1, <2>2, <2>3
<1>7. Alike(down[g], down'[g]) /\ Alike(down[Host], down'[Host])
  BY <1>1, <1>5, <1>6, AlikeAppend, AlikeSame
<1>8. Debts(g, down[g])'
  <2>1. down'[g] \in Seq(Frames) /\ Debts(g, down'[g])
    <3>1. CASE q = down'[g] /\ Debts(g, down'[g])
      BY <1>1, <3>1
    <3>2. ASSUME NEW f \in Frames, down'[g] = Append(q, f), Debts(g, Append(q, f))
          PROVE  down'[g] \in Seq(Frames) /\ Debts(g, down'[g])
      BY <1>1, <3>2, AppendFacts
    <3> QED BY <1>6, <3>1, <3>2
  <2>2. PICK b \in Seq(Frames) : b = down'[g]
    BY <2>1
  <2> QED BY <1>2, <1>4, <2>1, <2>2, DebtsThere DEF Same
<1>9. Captured(g)' = Captured(g) /\ tick'[g] <= wm[g][Host] + 1
  BY <1>2 DEF Same, Captured, AtGate, Exchange, Ahead
<1> QED BY <1>3, <1>4, <1>7, <1>8, <1>9, ExchangeQuiet

(* The other way: what a guest sends reaches the host.                     *)
LEMMA HostHears ==
  ASSUME TypeInv, HostInv, TwoSeats, NEW g \in Guests, ~dropped[Host], NEW f \in Frames,
         down' = Sent(g, f)
  PROVE  down'[Host] = Append(down[Host], f) /\ down'[g] = down[g]
<1>1. Typed /\ g \in Seats /\ Host \in Seats /\ g # Host /\ pc[Host] # "parked"
  BY Basics DEF HostInv
<1> QED BY <1>1, SentFacts

LEMMA HostStays ==
  ASSUME TypeInv, TwoSeats, NEW g \in Guests, Same(Host)
  PROVE  /\ HostGoesOn(g) /\ Captured(Host)' = Captured(Host)
         /\ tick'[Host] \in Nat /\ tick[Host] <= tick'[Host]
<1>1. tick[Host] \in Nat /\ tick[Host] <= tick[Host]
  BY Basics
<1> QED BY <1>1 DEF HostGoesOn, Same, Captured, AtGate

LEMMA ExchangeGuestTick ==
  ASSUME TypeInv, HostInv, TwoSeats, NEW g \in Guests, ~dropped[g], ~dropped[Host], Exchange(g),
         RunTick(g)
  PROVE  Exchange(g)'
<1>1. /\ Typed /\ g \in Seats /\ Host \in Seats /\ g # Host
      /\ down[g] \in Seq(Frames) /\ down[Host] \in Seq(Frames)
      /\ tick[g] \in Nat /\ wm[g][Host] \in Int
  BY Basics
<1>2. Same(Host)
  BY <1>1, OthersSame DEF Step
<1>3. /\ UNCHANGED <<wm, page, epoch, strayed>>
      /\ AtGate(g) /\ GateOpen(g) /\ tick' = [tick EXCEPT ![g] = tick[g] + 1]
      /\ pc' = [pc EXCEPT ![g] = "entry"] /\ hold' = hold /\ resume' = resume
  BY <1>1 DEF RunTick, StartPush, KeepWaiting
<1>4. Captured(g)' = Captured(g)
  <2>1. tick'[g] = tick[g] + 1 /\ ~AtGate(g)'
    BY <1>1, <1>3 DEF AtGate, Typed
  <2>2. Captured(g) = tick[g] + D
    BY <1>3 DEF Captured
  <2>3. Captured(g)' = tick'[g] + D - 1
    BY <2>1 DEF Captured
  <2>4. tick[g] + D = (tick[g] + 1) + D - 1
    <3>1. tick[g] \in Nat /\ D \in Nat
      BY <1>1, Params
    <3> QED BY <3>1
  <2> QED BY <2>1, <2>2, <2>3, <2>4
<1>5. tick'[g] <= wm[g][Host] + 1
  <2>1. tick[g] <= wm[g][Host] /\ tick'[g] = tick[g] + 1
    BY <1>1, <1>3 DEF GateOpen, Typed
  <2> QED BY <1>1, <2>1
<1>6. /\ down'[g] = down[g]
      /\ \/ down'[Host] = down[Host]
         \/ \E f \in Frames : f.type = "CRC" /\ down'[Host] = Append(down[Host], f)
  <2>1. PICK f \in Frames : f.type = "CRC" /\ (down' = Sent(g, f) \/ down' = down)
    BY <1>1, TickSends
  <2> QED BY <2>1, HostHears
<1>7. Alike(down[g], down'[g]) /\ Alike(down[Host], down'[Host])
  BY <1>1, <1>6, AlikeAppend, AlikeSame
<1>8. Debts(g, down[g])'
  <2>1. PICK b \in Seq(Frames) : b = down[g]
    BY <1>1
  <2>2. Debts(g, b) /\ down'[g] = b
    BY <1>6, <2>1 DEF Exchange
  <2> QED BY <1>2, <1>3, <2>2, DebtsThere, HostStays
<1> QED BY <1>2, <1>3, <1>4, <1>5, <1>7, <1>8, HostStays, ExchangeQuiet

(* The guest stores an input and sends it, or fails to send it.            *)
LEMMA ExchangeGuestCapture ==
  ASSUME TypeInv, HostInv, TwoSeats, NEW g \in Guests, ~dropped[g], ~dropped[Host], Exchange(g),
         Capture(g)
  PROVE  Exchange(g)'
<1> DEFINE t == tick[g] + D
           f == Input(g, t, epoch[g])
           q == down[Host]
           w == wm[Host][g]
<1>1. /\ Typed /\ g \in Seats /\ Host \in Seats /\ g # Host
      /\ down[g] \in Seq(Frames) /\ q \in Seq(Frames) /\ t \in Nat /\ D \in Nat
      /\ epoch[g] \in Nat /\ w \in Int /\ tick[g] \in Nat /\ wm[g][Host] \in Int
  BY Basics
<1>2. /\ pc[g] = "top" /\ pc' = [pc EXCEPT ![g] = "gate"]
      /\ page' = [page EXCEPT ![g][g] = page[g][g] \cup {<<t, epoch[g]>>}]
      /\ \/ down' = Sent(g, f) /\ strayed' = strayed
         \/ down' = down /\ Fault(g)
      /\ UNCHANGED <<tick, wm, dropped, rsv, game, epoch>>
  BY DEF Capture
<1>3. f \in Frames /\ f.type = "INPUT" /\ f.tick = t /\ Stored(f) = <<t, epoch[g]>>
  BY <1>1, MadeFrames DEF Input, Stored
<1>4. Same(Host)
  BY <1>1, OthersSame DEF Step
<1>5. /\ page'[g][g] = page[g][g] \cup {<<t, epoch[g]>>}
      /\ page'[g][Host] = page[g][Host] /\ page'[Host] = page[Host]
  BY <1>1, <1>2 DEF Typed
<1>6. UNCHANGED <<tick, wm, hold, resume, epoch>>
  BY <1>2 DEF rsv
<1>7. Captured(g) = t - 1 /\ Captured(g)' = t
  <2>1. ~AtGate(g) /\ AtGate(g)'
    BY <1>1, <1>2 DEF AtGate, Typed
  <2>2. Captured(g) = tick[g] + D - 1 /\ Captured(g)' = tick'[g] + D
    BY <2>1 DEF Captured
  <2> QED BY <1>1, <1>6, <2>2
<1>8. /\ down'[g] = down[g]
      /\ \/ down'[Host] = Append(q, f) /\ strayed' = strayed
         \/ down'[Host] = q /\ epoch[g] = 0 /\ strayed' /\ ~strayed
  BY <1>1, <1>2, <1>3, HostHears DEF Fault
<1>9. Captured(Host)' = Captured(Host) /\ HostGoesOn(g)
  BY <1>4, HostStays
<1>10. Ahead(g)' /\ Arriving(g)' /\ Behind(g)'
  BY <1>5, <1>6, <1>8, <1>9 DEF Exchange, Ahead, Arriving, Behind, Increasing, Above, EndAfter
<1>11. Debts(g, down[g])'
  <2>1. PICK b \in Seq(Frames) : b = down[g]
    BY <1>1
  <2>2. Debts(g, b) /\ down'[g] = b
    BY <1>8, <2>1 DEF Exchange
  <2> QED BY <1>6, <1>9, <2>2, DebtsThere
<1>12. Mirrored(g)'
  <2>1. (strayed' => epoch'[Host] > 0) =>
          page[Host][Host] = Live(down[g]) \cup (IF EndAfter(down[g], 0) THEN {} ELSE page[g][Host])
    BY <1>6, <1>8 DEF Exchange, Mirrored
  <2> QED BY <1>5, <1>8, <2>1 DEF Mirrored, Live, EndAfter
<1>13. epoch'[g] < epoch'[Host] => Stale(g)'
  <2>1. SUFFICES ASSUME Stale(g) PROVE Stale(g)'
    BY <1>6 DEF Exchange
  <2>2. Within(down'[Host], w)
    <3>1. f.tick <= w
      <4>1. tick[g] <= wm[g][Host] + 1 /\ wm[g][Host] + 1 + D <= w
        BY <2>1 DEF Exchange, Ahead, Stale
      <4>2. PICK n \in Nat, v \in Int, u \in Int : n = tick[g] /\ v = wm[g][Host] /\ u = w
        BY <1>1
      <4>3. n <= v + 1 /\ v + 1 + D <= u
        BY <4>1, <4>2
      <4>4. n + D <= u
        BY <4>3, Params
      <4> QED BY <1>3, <4>2, <4>4
    <3>2. Within(q, w) => Within(Append(q, f), w)
      BY <1>1, <1>3, <3>1, InputsOfAppend
    <3> QED BY <1>8, <2>1, <3>2 DEF Stale
  <2> QED BY <1>4, <1>5, <1>6, <1>8, <2>1, <2>2 DEF Stale, Same, Late, Within, EndAfter
<1>14. epoch'[g] = epoch'[Host] => Current(g)'
  <2>1. SUFFICES ASSUME Current(g) PROVE Current(g)'
    BY <1>6 DEF Exchange
  <2>2. w <= t - 1 /\ w <= t /\ Increasing(q, w, t - 1)
    <3>1. w <= t - 1 /\ Increasing(q, w, t - 1)
      BY <1>7, <2>1 DEF Current
    <3> QED BY <1>1, <3>1
  <2>3. CASE down'[Host] = Append(q, f) /\ strayed' = strayed
    <3> DEFINE a == Append(q, f)
    <3>1. t - 1 \in Int /\ t = (t - 1) + 1 /\ w < t
      BY <1>1, <2>2
    <3>2. Increasing(a, w, t) /\ Fresh(a, w) = Fresh(q, w) \cup {Stored(f)}
      <4> HIDE DEF t, f
      <4> QED BY <1>1, <1>3, <2>2, <3>1, InputsOfAppend, FreshOfAppend
    <3>3. Increasing(down'[Host], w, t) /\ Fresh(down'[Host], w) = Fresh(q, w) \cup {<<t, epoch[g]>>}
      BY <1>3, <2>3, <3>2
    <3>4. (strayed' => epoch'[g] > 0) => page'[g][g] = page'[Host][g] \cup Fresh(down'[Host], w)
      BY <1>5, <1>6, <2>1, <2>3, <3>3 DEF Current
    <3>5. Increasing(down[Host], wm[Host][g], Captured(g))'
      BY <1>6, <1>7, <3>3 DEF Increasing
    <3> QED BY <1>5, <1>6, <1>7, <2>1, <2>2, <3>4, <3>5 DEF Current, Fresh
  <2>4. CASE down'[Host] = q /\ epoch[g] = 0 /\ strayed'
    <3>1. Increasing(q, w, t)
      <4>1. t - 1 \in Int /\ t \in Int /\ t - 1 <= t
        BY <1>1
      <4> HIDE DEF t
      <4> QED BY <1>1, <2>2, <4>1, WiderRange
    <3>2. Increasing(down[Host], wm[Host][g], Captured(g))'
      BY <1>6, <1>7, <2>4, <3>1 DEF Increasing
    <3>3. strayed' /\ ~(epoch'[g] > 0)
      BY <1>6, <2>4
    <3> QED BY <1>5, <1>6, <1>7, <2>1, <2>2, <3>2, <3>3 DEF Current
  <2> QED BY <1>8, <2>3, <2>4
<1> QED BY <1>10, <1>11, <1>12, <1>13, <1>14 DEF Exchange

(* With no END on the way it does not matter what the host has heard.      *)
LEMMA DebtsOpen ==
  ASSUME NEW g \in Guests, NEW q \in Seq(Frames), Debts(g, q), ~EndAfter(q, 0),
         pc[Host] = "push" => pc'[Host] = "push" /\ resume'[Host] = resume[Host],
         hold'[g] = hold[g], resume'[g] = resume[g], down'[g] = q
  PROVE  Debts(g, down[g])'
<1>1. \A i \in 1 .. Len(q) : ~EndAfter(q, i)
  BY DEF EndAfter
<1>2. hold[g] => Owed(g, q, 0, resume[g])'
  <2>1. SUFFICES ASSUME hold[g] PROVE Owed(g, q, 0, resume[g])'
    OBVIOUS
  <2>2. Owed(g, q, 0, resume[g])
    BY <2>1 DEF Debts
  <2> QED BY <2>2 DEF Owed, EndAfter
<1>3. ASSUME NEW i \in 1 .. Len(q), q[i].type = "BEGIN" PROVE Owed(g, q, i, q[i].resume)'
  <2>1. Owed(g, q, i, q[i].resume) /\ ~EndAfter(q, i)
    BY <1>1, <1>3 DEF Debts
  <2> QED BY <2>1 DEF Owed, EndAfter
<1> QED BY <1>2, <1>3 DEF Debts, Owed, EndAfter, TwoEnds

(* The host reads.  A guest that is behind has nothing new for it.         *)
LEMMA ExchangeHostRecv ==
  ASSUME TypeInv, HostInv, TwoSeats, NEW g \in Guests, ~dropped[g], ~dropped[Host], Exchange(g),
         Recv(Host)
  PROVE  Exchange(g)'
<1> DEFINE q == down[Host]
           f == Head(q)
           w == wm[Host][g]
           m == Captured(g)
<1>1. /\ Typed /\ g \in Seats /\ Host \in Seats /\ g # Host /\ \A c \in Seats : c # Host => c = g
      /\ down[g] \in Seq(Frames) /\ q \in Seq(Frames) /\ w \in Int /\ m \in Int
      /\ tick[Host] \in Nat
  BY Basics, CapturedFacts
<1>2. /\ q # <<>> /\ f = q[1] /\ f \in Frames /\ Pumping(Host)
      /\ pc'[Host] = (IF AtGate(Host) THEN "pump" ELSE pc[Host])
      /\ down'[Host] = Tail(q) /\ down'[g] = down[g]
  BY <1>1, RecvFacts
<1>3. OnInput(Host, f) \/ OnCrc(Host, f) \/ OnReq(Host, f)
  BY HostReads
<1>4. f.type = "INPUT" => f.seat = g /\ f.tick \in Nat
  <2>1. 1 \in 1 .. Len(q)
    BY <1>1, <1>2, Shifted
  <2>2. FromGuest(f)
    BY <1>2, <2>1 DEF HostInv
  <2> HIDE DEF f
  <2> QED BY <1>1, <1>2, <2>2, FrameFacts DEF FromGuest
<1>5. UNCHANGED <<tick, hold, resume, epoch, strayed>>
  BY <1>3 DEF OnInput, OnCrc, OnReq, rsv, sim
<1>6. Same(g)
  BY <1>1, OthersSame DEF Step
<1>7. Captured(g)' = m /\ Captured(Host)' = Captured(Host)
  <2>1. AtGate(Host)' <=> AtGate(Host)
    BY <1>2 DEF AtGate
  <2> QED BY <1>5, <1>6, <2>1 DEF Captured, AtGate, Same
<1>8. pc[Host] # "push"
  BY <1>1, <1>2, NoPumpInPush
<1> DEFINE taken == f.type = "INPUT" /\ f.tick > w
<1>9. ~taken => UNCHANGED <<wm, page>>
  BY <1>3, <1>4 DEF OnInput, OnCrc, OnReq
<1>10. taken => /\ page' = [page EXCEPT ![Host][g] = page[Host][g] \cup {Stored(f)}]
                /\ wm' = [wm EXCEPT ![Host][g] = f.tick]
  BY <1>3, <1>4 DEF OnInput, OnCrc, OnReq, Stored
<1> HIDE DEF taken, f
<1>11. page'[Host][Host] = page[Host][Host]
  <2>1. CASE taken
    BY <1>1, <1>10, <2>1 DEF Typed
  <2> QED BY <1>9, <2>1
<1>12. Ahead(g)' /\ Arriving(g)' /\ Behind(g)'
  BY <1>2, <1>5, <1>6, <1>7 DEF Exchange, Ahead, Arriving, Behind, Increasing, Above, EndAfter, Same
<1>13. Mirrored(g)'
  <2>1. page'[g] = page[g]
    BY <1>6 DEF Same
  <2> QED BY <1>2, <1>5, <1>11, <2>1 DEF Exchange, Mirrored, Live, EndAfter
<1>14. CASE ~taken
  <2>1. Debts(g, down[g])'
    <3>1. HostGoesOn(g)
      BY <1>1, <1>5, <1>8, <1>9, <1>14 DEF HostGoesOn
    <3>2. PICK b \in Seq(Frames) : b = down[g]
      BY <1>1
    <3>3. Debts(g, b) /\ down'[g] = b
      BY <1>2, <3>2 DEF Exchange
    <3> QED BY <1>5, <3>1, <3>3, DebtsThere
  <2>2. epoch'[g] < epoch'[Host] => Stale(g)'
    <3>1. SUFFICES ASSUME Stale(g) PROVE Stale(g)'
      BY <1>5 DEF Exchange
    <3>2. Within(down'[Host], w)
      BY <1>1, <1>2, <3>1, InputsOfTail DEF Stale
    <3> QED BY <1>2, <1>5, <1>9, <1>14, <3>1, <3>2 DEF Stale, Late, Within, EndAfter
  <2>3. epoch'[g] = epoch'[Host] => Current(g)'
    <3>1. SUFFICES ASSUME Current(g) PROVE Current(g)'
      BY <1>5 DEF Exchange
    <3>2. Increasing(down'[Host], w, m)
      BY <1>1, <1>2, <3>1, InputsOfTail DEF Current
    <3>3. Fresh(down'[Host], w) = Fresh(q, w)
      <4>1. ~(q[1].type = "INPUT" /\ q[1].tick > w)
        BY <1>2, <1>14 DEF taken
      <4>2. Fresh(q, w) = Fresh(Tail(q), w) \cup
              (IF q[1].type = "INPUT" /\ q[1].tick > w THEN {Stored(q[1])} ELSE {})
        BY <1>1, <1>2, FreshOfTail
      <4>3. Fresh(q, w) = Fresh(Tail(q), w)
        BY <4>1, <4>2
      <4> QED BY <1>2, <4>3
    <3> QED BY <1>5, <1>7, <1>9, <1>14, <3>1, <3>2, <3>3 DEF Current, Increasing, Fresh
  <2> QED BY <1>12, <1>13, <2>1, <2>2, <2>3 DEF Exchange
<1>15. CASE taken
  <2>1. epoch[g] = epoch[Host] /\ Current(g)
    <3>1. f.tick > w /\ f.type = "INPUT" /\ f.tick \in Nat
      BY <1>4, <1>15 DEF taken
    <3>2. ~Within(q, w)
      <4>1. 1 \in 1 .. Len(q)
        BY <1>1, <1>2, Shifted
      <4> QED BY <1>1, <1>2, <3>1, <4>1 DEF Within
    <3>3. epoch[g] \in Nat /\ epoch[Host] \in Nat /\ epoch[g] <= epoch[Host] /\ ~(epoch[g] < epoch[Host])
      BY <3>2, Basics DEF Exchange, Stale, Behind
    <3> QED BY <3>3 DEF Exchange
  <2>2. ~EndAfter(down[g], 0)
    BY <2>1, Basics DEF Exchange, Behind
  <2>3. Debts(g, down[g])'
    <3>1. PICK b \in Seq(Frames) : b = down[g]
      BY <1>1
    <3>2. Debts(g, b) /\ down'[g] = b /\ ~EndAfter(b, 0)
      BY <1>2, <2>2, <3>1 DEF Exchange
    <3> QED BY <1>5, <1>8, <3>2, DebtsOpen
  <2>4. f.type = "INPUT" /\ f.tick > w /\ f = q[1] /\ f.tick \in Nat
    BY <1>2, <1>4, <1>15 DEF taken
  <2>5. /\ f.tick <= m /\ Increasing(Tail(q), f.tick, m)
        /\ Fresh(Tail(q), f.tick) = Fresh(Tail(q), w)
        /\ Fresh(q, w) = Fresh(Tail(q), w) \cup {Stored(f)}
    <3>1. Increasing(q, w, m)
      BY <2>1 DEF Current
    <3> QED BY <1>1, <1>2, <2>4, <3>1, InputsOfTail, FreshOfTail
  <2>6. /\ page'[Host][g] = page[Host][g] \cup {Stored(f)} /\ wm'[Host][g] = f.tick
        /\ page'[g] = page[g]
    BY <1>1, <1>10, <1>15 DEF Typed
  <2>7. \A x \in page'[Host][g] : x[1] <= f.tick
    <3>1. ASSUME NEW x \in page[Host][g] PROVE x[1] <= f.tick
      <4>1. x \in Nat \X Nat /\ x[1] <= w
        BY <1>1, <2>1, Typings DEF Current
      <4> QED BY <1>1, <2>4, <4>1
    <3>2. Stored(f)[1] <= f.tick
      BY <1>2, <2>4, StoredFacts
    <3> QED BY <2>6, <3>1, <3>2
  <2>8. (strayed' => epoch'[g] > 0) =>
          page'[g][g] = page'[Host][g] \cup Fresh(down'[Host], wm'[Host][g])
    BY <1>2, <1>5, <2>1, <2>5, <2>6 DEF Current
  <2>9. Increasing(down[Host], wm[Host][g], Captured(g))'
    BY <1>2, <1>7, <2>5, <2>6 DEF Increasing
  <2>10. Current(g)'
    BY <1>7, <2>5, <2>6, <2>7, <2>8, <2>9 DEF Current, Fresh
  <2>11. ~(epoch'[g] < epoch'[Host])
    BY <1>5, <2>1, Basics
  <2> QED BY <1>12, <1>13, <2>3, <2>10, <2>11 DEF Exchange
<1> QED BY <1>14, <1>15

(* The host writes the END and re-baselines: every debt up to here gets an *)
(* END more, and the host is now so far ahead that all the guest has sent  *)
(* it, or will send before it reads the END, is late.                      *)
LEMMA OwedEnd ==
  ASSUME TypeInv, TwoSeats, Margin > D, NEW g \in Guests, NEW q \in Seq(Frames),
         NEW i \in 0 .. Len(q), NEW r \in Resumes, Owed(g, q, i, r), pc[Host] = "push",
         resume[Host].tick = tick[Host] + Margin, resume[Host].push = epoch[Host] + 1,
         tick'[Host] = resume[Host].tick, epoch'[Host] = resume[Host].push,
         wm'[Host][g] = resume[Host].tick + D - 1
  PROVE  Owed(g, Append(q, End), i, r)'
<1> DEFINE a == Append(q, End)
           l == Len(q) + 1
<1>1. /\ a[l] = End /\ End.type = "END" /\ End \in Frames
      /\ \A p \in 1 .. Len(q) : a[p] = q[p]
      /\ \A p \in 1 .. Len(a) : p \in 1 .. Len(q) \/ p = l
  BY MadeFrames, AppendFacts DEF End
<1>2. EndAfter(a, i) /\ (TwoEnds(a, i) <=> TwoEnds(q, i) \/ EndAfter(q, i))
  BY <1>1, EndsOfAppend
<1>3. TwoEnds(q, i) => EndAfter(q, i)
  <2>1. \A p \in 1 .. Len(q) : p \in Int
    OBVIOUS
  <2> QED BY <2>1 DEF TwoEnds, EndAfter
<1>4. /\ r.tick \in Nat /\ r.push \in Nat /\ tick[Host] \in Nat /\ epoch[Host] \in Nat
      /\ D \in Nat /\ Margin \in Nat
  BY Basics DEF Resumes
<1> HIDE DEF a, l
<1>5. \A p \in 1 .. Len(a) : p > i /\ a[p].type = "INPUT" => r.tick + D <= a[p].tick
  BY <1>1 DEF Owed
<1>6. CASE EndAfter(q, i)
  <2>1. r.tick <= tick[Host] /\ r.push <= epoch[Host] /\ TwoEnds(a, i)
    BY <1>2, <1>6 DEF Owed
  <2>2. /\ r.tick <= tick'[Host] /\ r.push <= epoch'[Host]
        /\ r.push < epoch'[Host] /\ r.tick + 2 * D <= wm'[Host][g]
    <3>1. /\ tick'[Host] = tick[Host] + Margin /\ epoch'[Host] = epoch[Host] + 1
          /\ wm'[Host][g] = tick[Host] + Margin + D - 1
      OBVIOUS
    <3>2. r.tick <= tick[Host] + Margin
      BY <1>4, <2>1
    <3>3. r.push <= epoch[Host] + 1 /\ r.push < epoch[Host] + 1
      BY <1>4, <2>1
    <3>4. r.tick + 2 * D <= tick[Host] + Margin + D - 1
      <4>1. D + 1 <= Margin
        BY <1>4
      <4> QED BY <1>4, <2>1, <4>1
    <3> QED BY <3>1, <3>2, <3>3, <3>4
  <2>3. Owed(g, a, i, r)'
    BY <1>2, <1>5, <2>1, <2>2 DEF Owed, EndAfter, TwoEnds
  <2> QED BY <2>3 DEF a
<1>7. CASE ~EndAfter(q, i)
  <2>1. r = resume[Host] /\ ~TwoEnds(a, i)
    BY <1>2, <1>3, <1>7 DEF Owed
  <2>2. /\ r.tick <= tick'[Host] /\ r.push <= epoch'[Host]
        /\ r.push = epoch'[Host] /\ wm'[Host][g] = r.tick + D - 1
    BY <1>4, <2>1
  <2>3. Owed(g, a, i, r)'
    BY <1>2, <1>5, <2>1, <2>2 DEF Owed, EndAfter, TwoEnds
  <2> QED BY <2>3 DEF a
<1> QED BY <1>6, <1>7

LEMMA DebtsEnd ==
  ASSUME TypeInv, TwoSeats, Margin > D, NEW g \in Guests, NEW q \in Seq(Frames), Debts(g, q),
         pc[Host] = "push",
         resume[Host].tick = tick[Host] + Margin, resume[Host].push = epoch[Host] + 1,
         tick'[Host] = resume[Host].tick, epoch'[Host] = resume[Host].push,
         wm'[Host][g] = resume[Host].tick + D - 1,
         hold'[g] = hold[g], resume'[g] = resume[g], down'[g] = Append(q, End)
  PROVE  Debts(g, down[g])'
<1> DEFINE a == Append(q, End)
           l == Len(q) + 1
<1>1. /\ a[l] = End /\ End.type = "END" /\ Len(q) \in Nat
      /\ \A p \in 1 .. Len(q) : a[p] = q[p] /\ p \in 0 .. Len(q) /\ q[p] \in Frames
      /\ \A p \in 1 .. Len(a) : p \in 1 .. Len(q) \/ p = l
  BY MadeFrames, AppendFacts DEF End
<1>2. hold[g] => Owed(g, a, 0, resume[g])'
  <2>1. SUFFICES ASSUME hold[g] PROVE Owed(g, a, 0, resume[g])'
    OBVIOUS
  <2>2. PICK r \in Resumes : r = resume[g]
    BY Basics
  <2>3. Owed(g, q, 0, r) /\ 0 \in 0 .. Len(q)
    BY <1>1, <2>1, <2>2 DEF Debts
  <2>4. Owed(g, a, 0, r)'
    BY <2>3, OwedEnd
  <2> HIDE DEF a
  <2> QED BY <2>2, <2>4 DEF Owed
<1>3. ASSUME NEW i \in 1 .. Len(a), a[i].type = "BEGIN" PROVE Owed(g, a, i, a[i].resume)'
  <2>1. i \in 1 .. Len(q) /\ a[i] = q[i]
    <3> HIDE DEF a
    <3> QED BY <1>1, <1>3
  <2>2. q[i].type = "BEGIN" /\ q[i].resume \in Resumes /\ i \in 0 .. Len(q)
    BY <1>1, <1>3, <2>1, FrameFacts
  <2>3. Owed(g, q, i, q[i].resume)
    BY <2>1, <2>2 DEF Debts
  <2>4. Owed(g, a, i, q[i].resume)'
    BY <2>2, <2>3, OwedEnd
  <2> HIDE DEF a
  <2> QED BY <2>1, <2>4
<1>4. down'[g] = a
  OBVIOUS
<1> HIDE DEF a
<1> QED BY <1>2, <1>3, <1>4 DEF Debts, Owed, EndAfter, TwoEnds

LEMMA ExchangeHostEnd ==
  ASSUME TypeInv, HostInv, TwoSeats, Margin > D, NEW g \in Guests, ~dropped[g], ~dropped[Host],
         Exchange(g), cut' = {}, PushEnd(Host)
  PROVE  Exchange(g)'
<1> DEFINE q == down[g]
           a == Append(q, End)
           t == tick[Host]
           w == t + Margin + D - 1
<1>1. /\ Typed /\ g \in Seats /\ Host \in Seats /\ g # Host
      /\ q \in Seq(Frames) /\ down[Host] \in Seq(Frames)
      /\ t \in Nat /\ tick[g] \in Nat /\ epoch[g] \in Nat /\ epoch[Host] \in Nat
      /\ wm[g][Host] \in Int /\ wm[Host][g] \in Int /\ D \in Nat /\ Margin \in Nat
  BY Basics
<1>2. /\ pc[Host] = "push" /\ pc' = [pc EXCEPT ![Host] = "entry"] /\ down' = Sent(Host, End)
      /\ Rebase(Host) /\ strayed' = strayed /\ resume' = resume
  BY NothingLost DEF PushEnd, Rebase
<1>3. resume[Host].tick = t + Margin /\ resume[Host].push = epoch[Host] + 1
  BY <1>2 DEF HostInv
<1>4. Same(g)
  BY <1>1, OthersSame DEF Step
<1>5. /\ tick'[Host] = resume[Host].tick /\ epoch'[Host] = resume[Host].push
      /\ wm'[Host][g] = resume[Host].tick + D - 1
      /\ page'[Host][Host] = {} /\ page'[Host][g] = {}
  BY <1>1, <1>2 DEF Rebase, Typed
<1>6. /\ tick'[Host] = t + Margin /\ epoch'[Host] = epoch[Host] + 1 /\ wm'[Host][g] = w
  BY <1>3, <1>5
<1>7. End \in Frames /\ End.type = "END"
  BY MadeFrames DEF End
<1>8. down'[g] = a /\ down'[Host] = down[Host]
  BY <1>1, <1>2, <1>7, HostSends, SentFacts
<1>9. Captured(Host) = t + D - 1 /\ Captured(Host)' = w
  <2>1. ~AtGate(Host) /\ ~AtGate(Host)'
    BY <1>1, <1>2 DEF AtGate, Typed
  <2> QED BY <1>1, <1>6, <2>1 DEF Captured
<1>10. /\ t + D - 1 \in Int /\ w \in Int /\ t + D - 1 <= w /\ t + D + D <= w
  <2>1. t \in Nat /\ D \in Nat /\ Margin \in Nat /\ D + 1 <= Margin
    BY <1>1
  <2> HIDE DEF t
  <2> QED BY <2>1
<1>11. /\ tick[g] <= wm[g][Host] + 1 /\ wm[g][Host] <= t + D - 1
       /\ Increasing(q, wm[g][Host], t + D - 1) /\ Above(q, wm[g][Host])
  BY <1>9 DEF Exchange, Ahead, Arriving
<1> HIDE DEF w
<1>12. Ahead(g)'
  <2>1. wm[g][Host] <= w
    BY <1>1, <1>10, <1>11
  <2> QED BY <1>4, <1>9, <2>1 DEF Exchange, Ahead, Same
<1>13. /\ 0 \in 0 .. Len(q)
       /\ \A p \in 1 .. Len(q) : a[p] = q[p] /\ q[p] \in Frames /\ p \in 0 .. Len(q)
       /\ \A p \in 1 .. Len(a) : p \in 1 .. Len(q) \/ a[p] = End
  BY <1>1, <1>7, AppendFacts
<1>14. Increasing(a, wm[g][Host], w) /\ Above(a, wm[g][Host])
  <2>1. Increasing(q, wm[g][Host], w)
    BY <1>1, <1>10, <1>11, WiderRange
  <2> QED BY <1>1, <1>7, <1>10, <1>11, <2>1, InputsOfAppend
<1>15. EndAfter(a, 0) /\ Live(a) = {}
  BY <1>1, <1>7, <1>13, EndsOfAppend, LiveOfAppend
<1> HIDE DEF a
<1>16. Arriving(g)'
  <2>1. \A p \in 1 .. Len(a) : a[p].type = "INPUT" => a[p].seat = Host
    BY <1>7, <1>13 DEF Exchange, Arriving
  <2> QED BY <1>4, <1>8, <1>9, <1>14, <2>1 DEF Arriving, Increasing, Above, Same
<1>17. Debts(g, down[g])'
  <2>1. PICK b \in Seq(Frames) : b = q
    BY <1>1
  <2>2. Debts(g, b) /\ down'[g] = Append(b, End)
    BY <1>8, <2>1 DEF Exchange, a
  <2> QED BY <1>2, <1>3, <1>4, <1>5, <2>2, DebtsEnd DEF Same
<1>18. epoch'[g] = epoch[g] /\ epoch[g] < epoch'[Host] /\ epoch'[Host] > 0
  <2>1. epoch[g] <= epoch[Host]
    BY DEF Exchange, Behind
  <2> QED BY <1>1, <1>4, <1>6, <2>1 DEF Same
<1>19. epoch'[g] <= epoch'[Host] /\ epoch'[g] < epoch'[Host] /\ epoch'[g] # epoch'[Host]
  BY <1>1, <1>6, <1>18
<1>20. Behind(g)'
  BY <1>8, <1>15, <1>19 DEF Behind, EndAfter
<1>21. Mirrored(g)'
  BY <1>5, <1>8, <1>15 DEF Mirrored, Live, EndAfter
<1>22. Within(down[Host], w)
  <2>1. CASE Stale(g)
    <3>1. wm[Host][g] <= t + D - 1 /\ Within(down[Host], wm[Host][g])
      BY <2>1 DEF Stale
    <3>2. ASSUME NEW p \in 1 .. Len(down[Host]), down[Host][p].type = "INPUT"
          PROVE  down[Host][p].tick <= w
      <4>1. down[Host][p].tick \in Nat /\ down[Host][p].tick <= wm[Host][g]
        BY <1>1, <3>1, <3>2, FrameFacts DEF Within
      <4>2. wm[Host][g] \in Int
        BY <1>1
      <4>3. wm[Host][g] <= w
        BY <1>10, <3>1, <4>2
      <4> QED BY <1>10, <4>1, <4>2, <4>3
    <3> QED BY <3>2 DEF Within
  <2>2. CASE Current(g)
    <3>1. Captured(g) \in Int /\ Captured(g) <= tick[g] + D
      BY <1>1, CapturedFacts
    <3>2. Captured(g) <= w
      <4>1. PICK n \in Nat, v \in Int, u \in Int : n = tick[g] /\ v = wm[g][Host] /\ u = Captured(g)
        BY <1>1, <3>1
      <4>2. n <= v + 1 /\ v <= t + D - 1 /\ u <= n + D
        BY <1>11, <3>1, <4>1
      <4>3. t \in Nat /\ D \in Nat
        BY <1>1
      <4> HIDE DEF t
      <4> QED BY <1>10, <4>1, <4>2, <4>3
    <3> QED BY <1>1, <1>10, <2>2, <3>1, <3>2, WiderRange DEF Current
  <2>3. epoch[g] < epoch[Host] \/ epoch[g] = epoch[Host]
    BY <1>1 DEF Exchange, Behind
  <2> QED BY <2>1, <2>2, <2>3 DEF Exchange
<1>23. Late(a, w)
  <2>1. ASSUME NEW p \in 1 .. Len(a), a[p].type = "INPUT" PROVE a[p].tick + 1 + D <= w
    <3>1. p \in 1 .. Len(q) /\ a[p] = q[p] /\ q[p] \in Frames
      BY <1>7, <1>13, <2>1
    <3>2. q[p].tick \in Nat /\ q[p].tick <= t + D - 1
      BY <1>11, <2>1, <3>1, FrameFacts DEF Increasing
    <3>3. PICK n \in Nat : n = q[p].tick /\ n = a[p].tick /\ n <= t + D - 1
      BY <3>1, <3>2
    <3>4. t \in Nat /\ D \in Nat
      BY <1>1
    <3>5. n + 1 + D <= w
      <4> HIDE DEF t, q
      <4> QED BY <1>10, <3>3, <3>4
    <3> QED BY <3>3, <3>5
  <2> QED BY <2>1 DEF Late
<1>24. Stale(g)'
  <2>1. wm[g][Host] + 1 + D <= w
    <3>1. PICK v \in Int : v = wm[g][Host] /\ v <= t + D - 1
      BY <1>1, <1>11
    <3>2. t \in Nat /\ D \in Nat
      BY <1>1
    <3>3. v + 1 + D <= w
      <4> HIDE DEF t
      <4> QED BY <1>10, <3>1, <3>2
    <3> QED BY <3>1, <3>3
  <2>2. w <= tick'[Host] + D - 1
    BY <1>1, <1>6 DEF w
  <2>3. wm'[g] = wm[g]
    BY <1>4 DEF Same
  <2> QED BY <1>5, <1>6, <1>8, <1>22, <1>23, <2>1, <2>2, <2>3 DEF Stale, Within, Late, EndAfter
<1> QED BY <1>12, <1>16, <1>17, <1>19, <1>20, <1>21, <1>24 DEF Exchange

(* What a guest reads, apart from its END.                                 *)
GuestReads(g, f) ==
  /\ down[g] # <<>> /\ f = down[g][1] /\ f \in Frames /\ down'[g] = Tail(down[g])
  /\ down'[Host] = down[Host] \/ (f.type = "CRC" /\ down'[Host] = Append(down[Host], Req))
  /\ AtGate(g)' = AtGate(g)

LEMMA GuestReadsFacts ==
  ASSUME TypeInv, TwoSeats, NEW g \in Guests, Recv(g)
  PROVE  LET f == Head(down[g]) IN
         /\ GuestReads(g, f)
         /\ \/ OnInput(g, f) \/ OnCrc(g, f) \/ OnReq(g, f) \/ OnBegin(g, f)
            \/ OnChunk(g, f) \/ OnEnd(g, f)
<1> DEFINE f == Head(down[g])
<1>1. Typed /\ g \in Seats /\ Host \in Seats \ {g}
  BY Basics
<1>2. /\ down[g] # <<>> /\ f \in Frames /\ f = down[g][1]
      /\ pc'[g] = (IF AtGate(g) THEN "pump" ELSE pc[g])
      /\ OnInput(g, f) \/ OnCrc(g, f) \/ OnReq(g, f) \/ OnBegin(g, f) \/ OnChunk(g, f) \/ OnEnd(g, f)
      /\ down'[g] = Tail(down[g])
      /\ down'[Host] = down[Host] \/ (f.type = "CRC" /\ down'[Host] = Append(down[Host], Req))
  BY <1>1, RecvFacts
<1> HIDE DEF f
<1>3. AtGate(g)' = AtGate(g)
  BY <1>2 DEF AtGate
<1> QED BY <1>2, <1>3 DEF GuestReads, f

LEMMA DebtsBegun ==
  ASSUME TypeInv, TwoSeats, NEW g \in Guests, HostGoesOn(g), NEW q \in Seq(Frames),
         \A i \in 1 .. Len(q) : q[i].type = "BEGIN" => Owed(g, q, i, q[i].resume),
         NEW r \in Resumes, hold'[g] => Owed(g, q, 0, r) /\ resume'[g] = r, down'[g] = q
  PROVE  Debts(g, down[g])'
<1>1. hold'[g] => Owed(g, q, 0, r)'
  BY OwedKept
<1>2. hold'[g] => Owed(g, q, 0, resume[g])'
  BY <1>1 DEF Owed
<1>3. ASSUME NEW i \in 1 .. Len(q), q[i].type = "BEGIN" PROVE Owed(g, q, i, q[i].resume)'
  <2>1. q[i].resume \in Resumes
    BY <1>3, FrameFacts
  <2> QED BY <1>3, <2>1, OwedKept
<1> QED BY <1>2, <1>3 DEF Debts, Owed, EndAfter, TwoEnds

LEMMA ExchangeGuestHears ==
  ASSUME TypeInv, HostInv, TwoSeats, NEW g \in Guests, Exchange(g), Recv(g),
         Head(down[g]).type \notin {"INPUT", "END"}
  PROVE  Exchange(g)'
<1> DEFINE q == down[g]
           f == Head(q)
<1>1. /\ Typed /\ g \in Seats /\ g # Host /\ Host \in Seats
      /\ q \in Seq(Frames) /\ down[Host] \in Seq(Frames)
  BY Basics
<1>2. /\ GuestReads(g, f)
      /\ OnCrc(g, f) \/ OnReq(g, f) \/ OnBegin(g, f) \/ OnChunk(g, f)
  BY GuestReadsFacts DEF OnInput, OnEnd
<1> HIDE DEF f
<1>3. q # <<>> /\ f = q[1] /\ f \in Frames /\ f.type \notin {"INPUT", "END"} /\ down'[g] = Tail(q)
  BY <1>2 DEF GuestReads, f
<1>4. UNCHANGED <<tick, wm, page, epoch, strayed>>
  BY <1>2 DEF OnCrc, OnReq, OnBegin, OnChunk, sim
<1>5. Same(Host)
  BY <1>1, OthersSame DEF Step
<1>6. Captured(g)' = Captured(g) /\ tick'[g] <= wm[g][Host] + 1
  <2>1. tick'[g] = tick[g] /\ AtGate(g)' = AtGate(g)
    BY <1>2, <1>4 DEF GuestReads
  <2> QED BY <2>1 DEF Captured, Exchange, Ahead
<1>7. Alike(q, down'[g])
  BY <1>1, <1>3, AlikeTail
<1>8. Alike(down[Host], down'[Host])
  <2>1. Req \in Frames /\ Req.type = "RESYNC_REQ"
    BY MadeFrames DEF Req
  <2> QED BY <1>1, <1>2, <2>1, AlikeAppend, AlikeSame DEF GuestReads
<1>9. Debts(g, down[g])'
  <2>1. PICK b \in Seq(Frames) : b = Tail(q)
    BY <1>1, <1>3, TailFacts
  <2>2. /\ \A i \in 1 .. Len(b) : b[i].type = "BEGIN" => Owed(g, b, i, b[i].resume)
        /\ Debts(g, b)
        /\ f.type = "BEGIN" => Owed(g, b, 0, f.resume)
    BY <1>1, <1>3, <2>1, DebtsTail DEF Exchange
  <2>3. HostGoesOn(g) /\ down'[g] = b
    BY <1>3, <1>5, <2>1, HostStays
  <2>4. CASE OnBegin(g, f)
    <3>1. f.type = "BEGIN" /\ resume'[g] = f.resume
      BY <1>1, <2>4 DEF OnBegin, EnterHold, Typed
    <3>2. PICK r \in Resumes : r = f.resume
      BY <1>3, <3>1, FrameFacts
    <3> QED BY <2>2, <2>3, <3>1, <3>2, DebtsBegun
  <2>5. CASE ~OnBegin(g, f)
    <3>1. hold'[g] = hold[g] /\ resume'[g] = resume[g]
      BY <1>2, <2>5 DEF OnCrc, OnReq, OnChunk, rsv
    <3> QED BY <2>2, <2>3, <3>1, DebtsThere
  <2> QED BY <2>4, <2>5
<1> QED BY <1>4, <1>5, <1>6, <1>7, <1>8, <1>9, HostStays, ExchangeQuiet

(* The guest stores an input of the host: it is always a new one.          *)
LEMMA ExchangeGuestInput ==
  ASSUME TypeInv, HostInv, TwoSeats, NEW g \in Guests, Exchange(g), Recv(g),
         Head(down[g]).type = "INPUT"
  PROVE  Exchange(g)'
<1> DEFINE q == down[g]
           f == Head(q)
           t == Tail(q)
           m == Captured(Host)
<1>1. /\ Typed /\ g \in Seats /\ g # Host /\ Host \in Seats /\ q \in Seq(Frames)
      /\ tick[g] \in Nat /\ wm[g][Host] \in Int /\ m \in Int /\ D \in Nat
      /\ epoch[g] \in Nat /\ epoch[Host] \in Nat /\ wm[Host][g] \in Int
  BY Basics, CapturedFacts
<1>2. GuestReads(g, f) /\ OnInput(g, f)
  BY GuestReadsFacts DEF OnCrc, OnReq, OnBegin, OnChunk, OnEnd
<1> HIDE DEF f
<1>3. q # <<>> /\ f = q[1] /\ f \in Frames /\ f.type = "INPUT" /\ down'[g] = t /\ f.tick \in Nat
  BY <1>2, FrameFacts DEF GuestReads, f
<1>4. t \in Seq(Frames) /\ 1 \in 1 .. Len(q)
  BY <1>1, <1>3, Shifted, TailFacts
<1>5. /\ \A p \in 1 .. Len(q) : q[p].type = "INPUT" => q[p].seat = Host
      /\ Increasing(q, wm[g][Host], m) /\ Above(q, wm[g][Host])
  BY DEF Exchange, Arriving
<1>6. f.seat = Host /\ f.tick > wm[g][Host]
  BY <1>1, <1>3, <1>4, <1>5 DEF Above
<1>7. /\ page' = [page EXCEPT ![g][Host] = page[g][Host] \cup {Stored(f)}]
      /\ wm' = [wm EXCEPT ![g][Host] = f.tick] /\ UNCHANGED <<tick, hold, resume, epoch, strayed>>
  BY <1>2, <1>6 DEF OnInput, Stored, rsv, sim
<1>8. /\ page'[g][Host] = page[g][Host] \cup {Stored(f)} /\ page'[g][g] = page[g][g]
      /\ wm'[g][Host] = f.tick
  BY <1>1, <1>7 DEF Typed
<1>9. Same(Host) /\ HostGoesOn(g) /\ Captured(Host)' = m
  <2>1. Same(Host)
    BY <1>1, OthersSame DEF Step
  <2> QED BY <2>1, HostStays
<1>10. Captured(g)' = Captured(g) /\ down'[Host] = down[Host]
  <2>1. AtGate(g)' = AtGate(g)
    BY <1>2 DEF GuestReads
  <2> QED BY <1>2, <1>3, <1>7, <2>1 DEF GuestReads, Captured
<1>11. /\ f.tick <= m /\ Increasing(t, f.tick, m) /\ Above(t, f.tick)
  BY <1>1, <1>3, <1>5, <1>6, InputsOfTail
<1>12. Ahead(g)'
  <2>1. tick[g] <= f.tick + 1
    <3>1. tick[g] <= wm[g][Host] + 1
      BY DEF Exchange, Ahead
    <3> QED BY <1>1, <1>3, <1>6, <3>1
  <2>2. \A x \in page'[g][Host] : x[1] <= f.tick
    <3>1. ASSUME NEW x \in page[g][Host] PROVE x[1] <= f.tick
      <4>1. x \in Nat \X Nat
        BY <1>1, Typings
      <4>2. x[1] <= wm[g][Host]
        BY DEF Exchange, Ahead
      <4> QED BY <1>1, <1>3, <1>6, <4>1, <4>2
    <3>2. Stored(f)[1] <= f.tick
      BY <1>3, StoredFacts
    <3> QED BY <1>8, <3>1, <3>2
  <2> QED BY <1>7, <1>8, <1>9, <1>11, <2>1, <2>2 DEF Ahead
<1>13. Arriving(g)'
  <2>1. \A p \in 1 .. Len(t) : t[p].type = "INPUT" => t[p].seat = Host
    <3>1. \A p \in 1 .. Len(t) : p + 1 \in 1 .. Len(q) /\ t[p] = q[p + 1]
      BY <1>1, <1>3, Shifted
    <3> QED BY <1>5, <3>1
  <2> HIDE DEF t
  <2> QED BY <1>3, <1>8, <1>9, <1>11, <2>1 DEF Arriving, Increasing, Above
<1>14. Debts(g, down[g])'
  <2>1. PICK b \in Seq(Frames) : b = t
    BY <1>4
  <2>2. Debts(g, b) /\ down'[g] = b
    BY <1>1, <1>3, <2>1, DebtsTail DEF Exchange
  <2> QED BY <1>7, <1>9, <2>2, DebtsThere
<1>15. /\ EndAfter(t, 0) <=> EndAfter(q, 1)
       /\ EndAfter(q, 0) <=> EndAfter(q, 1)
  <2>1. 0 \in Nat /\ 0 + 1 = 1
    OBVIOUS
  <2>2. EndAfter(t, 0) <=> EndAfter(q, 0 + 1)
    BY <1>1, <1>3, <2>1, EndsOfTail
  <2>3. EndAfter(q, 0) <=> EndAfter(q, 1)
    BY <1>1, <1>3, EndsOfTail
  <2> QED BY <2>1, <2>2, <2>3
<1>16. Live(q) = Live(t) \cup (IF ~EndAfter(q, 1) THEN {Stored(f)} ELSE {})
  BY <1>1, <1>3, LiveOfTail
<1> HIDE DEF t
<1>17. Behind(g)'
  BY <1>3, <1>7, <1>15 DEF Exchange, Behind, EndAfter
<1>18. Mirrored(g)'
  <2>1. (strayed' => epoch'[Host] > 0) =>
          page[Host][Host] = Live(t) \cup (IF EndAfter(t, 0) THEN {} ELSE page'[g][Host])
    <3>1. SUFFICES ASSUME strayed' => epoch'[Host] > 0
          PROVE  page[Host][Host] = Live(t) \cup (IF EndAfter(t, 0) THEN {} ELSE page'[g][Host])
      OBVIOUS
    <3>2. page[Host][Host] = Live(q) \cup (IF EndAfter(q, 0) THEN {} ELSE page[g][Host])
      BY <1>7, <3>1 DEF Exchange, Mirrored
    <3>3. CASE EndAfter(q, 0)
      BY <1>15, <1>16, <3>2, <3>3
    <3>4. CASE ~EndAfter(q, 0)
      BY <1>8, <1>15, <1>16, <3>2, <3>4
    <3> QED BY <3>3, <3>4
  <2>2. page'[Host][Host] = page[Host][Host]
    BY <1>9 DEF Same
  <2>3. PICK r : r = t /\ down'[g] = r
    BY <1>3
  <2>4. (strayed' => epoch'[Host] > 0) =>
          page'[Host][Host] = Live(r) \cup (IF EndAfter(r, 0) THEN {} ELSE page'[g][Host])
    BY <2>1, <2>2, <2>3
  <2> QED BY <2>3, <2>4 DEF Mirrored, Live, EndAfter
<1>19. epoch'[g] < epoch'[Host] => Stale(g)'
  <2>1. SUFFICES ASSUME epoch[g] < epoch[Host] PROVE Stale(g)'
    BY <1>7
  <2>2. Stale(g) /\ EndAfter(q, 1)
    BY <1>15, <2>1 DEF Exchange, Behind
  <2>3. Late(t, wm[Host][g]) /\ f.tick + 1 + D <= wm[Host][g]
    BY <1>1, <1>3, <2>2, LateTail DEF Stale, t
  <2>4. wm'[Host] = wm[Host] /\ page'[Host] = page[Host]
    BY <1>9 DEF Same
  <2> QED BY <1>3, <1>7, <1>8, <1>10, <2>2, <2>3, <2>4 DEF Stale, Late, Within, EndAfter
<1>20. epoch'[g] = epoch'[Host] => Current(g)'
  <2>1. wm'[Host] = wm[Host] /\ page'[Host] = page[Host]
    BY <1>9 DEF Same
  <2> QED BY <1>7, <1>8, <1>10, <2>1 DEF Exchange, Current, Increasing, Fresh
<1> QED BY <1>12, <1>13, <1>14, <1>17, <1>18, <1>19, <1>20 DEF Exchange

(* Inputs that are all new come in order whatever the watermark; inputs    *)
(* that are all old bring nothing.                                         *)
LEMMA AnyWatermark ==
  ASSUME NEW q, NEW w, NEW v, NEW m, Increasing(q, w, m), Above(q, w)
  PROVE  Increasing(q, v, m)
BY DEF Increasing, Above

LEMMA NothingNew ==
  ASSUME NEW q \in Seq(Frames), NEW w \in Int, NEW m \in Int, w <= m, Within(q, w)
  PROVE  Increasing(q, w, m) /\ Fresh(q, w) = {}
<1>1. ASSUME NEW p \in 1 .. Len(q), q[p].type = "INPUT"
      PROVE  q[p].tick <= w /\ q[p].tick <= m /\ ~(q[p].tick > w)
  <2>1. q[p].tick \in Nat /\ q[p].tick <= w
    BY <1>1, FrameFacts DEF Within
  <2> QED BY <2>1
<1> QED BY <1>1 DEF Increasing, Fresh

(* The guest reads the END, in its hold: it re-baselines.  If that was the *)
(* last END on the way it is where the host is, and starts from nothing.   *)
LEMMA ExchangeGuestEnd ==
  ASSUME TypeInv, HostInv, TwoSeats, NEW g \in Guests, Exchange(g), Recv(g), hold[g],
         Head(down[g]).type = "END"
  PROVE  Exchange(g)'
<1> DEFINE q == down[g]
           f == Head(q)
           t == Tail(q)
           m == Captured(Host)
           r == resume[g]
           w == r.tick + D - 1
<1>1. /\ Typed /\ g \in Seats /\ g # Host /\ Host \in Seats /\ q \in Seq(Frames)
      /\ down[Host] \in Seq(Frames)
      /\ tick[Host] \in Nat /\ wm[g][Host] \in Int /\ m \in Int /\ D \in Nat
      /\ epoch[g] \in Nat /\ epoch[Host] \in Nat /\ wm[Host][g] \in Int
      /\ tick[Host] + D - 1 <= m
  BY Basics, CapturedFacts
<1>2. r \in Resumes /\ r.tick \in Nat /\ r.push \in Nat /\ w \in Int
  <2>1. r \in Resumes /\ D \in Nat
    BY Basics
  <2> QED BY <2>1 DEF Resumes
<1>3. GuestReads(g, f) /\ OnEnd(g, f)
  BY GuestReadsFacts DEF OnCrc, OnReq, OnBegin, OnChunk, OnInput
<1> HIDE DEF f
<1>4. /\ q # <<>> /\ q[1] \in Frames /\ q[1].type = "END"
      /\ down'[g] = t /\ down'[Host] = down[Host] /\ AtGate(g)' = AtGate(g)
  BY <1>3 DEF GuestReads, f
<1>5. Rebase(g) /\ strayed' = strayed
  BY <1>3 DEF OnEnd
<1>6. /\ tick'[g] = r.tick /\ epoch'[g] = r.push /\ hold'[g] = FALSE
      /\ page'[g] = [s \in Seats |-> {}] /\ wm'[g] = [s \in Seats |-> w]
  BY <1>1, <1>5 DEF Rebase, Typed
<1>7. page'[g][g] = {} /\ page'[g][Host] = {} /\ wm'[g][Host] = w
  BY <1>1, <1>6
<1>8. Same(Host) /\ HostGoesOn(g) /\ Captured(Host)' = m
  <2>1. Same(Host)
    BY <1>1, OthersSame DEF Step
  <2> QED BY <2>1, HostStays
<1>9. /\ tick'[Host] = tick[Host] /\ epoch'[Host] = epoch[Host]
      /\ wm'[Host] = wm[Host] /\ page'[Host] = page[Host]
  BY <1>8 DEF Same
<1>10. t \in Seq(Frames)
  BY <1>1, <1>4, TailFacts
<1>11. /\ EndAfter(q, 0)
       /\ EndAfter(t, 0) <=> EndAfter(q, 1)
       /\ TwoEnds(q, 0) <=> EndAfter(q, 1)
  <2>1. 0 \in Nat /\ 0 + 1 = 1
    OBVIOUS
  <2>2. EndAfter(t, 0) <=> EndAfter(q, 0 + 1)
    BY <1>1, <1>4, <2>1, EndsOfTail
  <2>3. EndAfter(q, 0) /\ (TwoEnds(q, 0) <=> EndAfter(q, 1) \/ TwoEnds(q, 1))
    BY <1>1, <1>4, EndsOfTail
  <2>4. TwoEnds(q, 1) => EndAfter(q, 1)
    <3>1. \A p \in 1 .. Len(q) : p \in Int
      OBVIOUS
    <3> QED BY <3>1 DEF TwoEnds, EndAfter
  <2> QED BY <2>1, <2>2, <2>3, <2>4
<1>12. Owed(g, q, 0, r)
  BY DEF Exchange, Debts
<1>13. epoch[g] < epoch[Host] /\ Stale(g)
  BY <1>11 DEF Exchange, Behind
<1>14. /\ r.tick <= tick[Host]
       /\ EndAfter(t, 0) => r.push < epoch[Host] /\ r.tick + 2 * D <= wm[Host][g]
       /\ ~EndAfter(t, 0) => r.push = epoch[Host] /\ wm[Host][g] = w
  BY <1>11, <1>12 DEF Owed
<1>15. w <= m /\ r.tick <= w + 1
  <2>1. PICK n \in Nat, u \in Nat, v \in Int : n = r.tick /\ u = tick[Host] /\ v = m
    BY <1>1, <1>2
  <2>2. n <= u /\ u + D - 1 <= v
    BY <1>1, <1>14, <2>1
  <2>3. n + D - 1 <= v /\ n <= n + D - 1 + 1
    BY <2>2, Params
  <2> QED BY <2>1, <2>3
<1>16. \A p \in 1 .. Len(t) : p + 1 \in 1 .. Len(q) /\ p + 1 > 0 /\ t[p] = q[p + 1] /\ t[p] \in Frames
  <2>1. Len(t) \in Nat /\ \A p \in 1 .. Len(t) : p + 1 \in 1 .. Len(q) /\ t[p] = q[p + 1]
    BY <1>1, <1>4, Shifted
  <2> QED BY <1>10, <2>1
<1> HIDE DEF w
<1>17. Ahead(g)'
  BY <1>6, <1>7, <1>8, <1>15 DEF Ahead
<1>18. Arriving(g)'
  <2>1. Increasing(t, wm[g][Host], m) /\ Above(t, wm[g][Host])
    BY <1>1, <1>4, InputsOfTail DEF Exchange, Arriving
  <2>2. Increasing(t, w, m)
    BY <2>1, AnyWatermark
  <2>3. ASSUME NEW p \in 1 .. Len(t), t[p].type = "INPUT" PROVE w < t[p].tick /\ t[p].seat = Host
    <3>1. r.tick + D <= t[p].tick /\ t[p].seat = Host
      BY <1>12, <1>16, <2>3 DEF Owed, Exchange, Arriving
    <3>2. t[p].tick \in Nat
      BY <1>16, <2>3, FrameFacts
    <3>3. PICK n \in Nat : n = t[p].tick
      BY <3>2
    <3>4. r.tick + D <= n
      BY <3>1, <3>3
    <3>5. w < n
      <4> HIDE DEF r, t
      <4> QED BY <1>1, <1>2, <3>4 DEF w
    <3> QED BY <3>1, <3>3, <3>5
  <2> HIDE DEF t
  <2> QED BY <1>4, <1>7, <1>8, <2>2, <2>3 DEF Arriving, Increasing, Above
<1>19. Debts(g, down[g])'
  <2>1. PICK b \in Seq(Frames) : b = t
    BY <1>10
  <2>2. \A i \in 1 .. Len(b) : b[i].type = "BEGIN" => Owed(g, b, i, b[i].resume)
    BY <1>1, <1>4, <2>1, DebtsTail DEF Exchange
  <2>3. PICK x \in Resumes : x = r
    BY <1>2
  <2>4. ~hold'[g] /\ down'[g] = b
    BY <1>4, <1>6, <2>1
  <2> QED BY <1>8, <2>2, <2>3, <2>4, DebtsBegun
<1>20. Behind(g)'
  <2>1. r.push <= epoch[Host] /\ (EndAfter(t, 0) <=> r.push < epoch[Host])
    <3>1. PICK e \in Nat, h \in Nat : e = r.push /\ h = epoch[Host]
      BY <1>1, <1>2
    <3>2. e <= h /\ (EndAfter(t, 0) <=> e < h)
      <4>1. CASE EndAfter(t, 0)
        BY <1>14, <3>1, <4>1
      <4>2. CASE ~EndAfter(t, 0)
        BY <1>14, <3>1, <4>2
      <4> QED BY <4>1, <4>2
    <3> QED BY <3>1, <3>2
  <2> HIDE DEF t
  <2> QED BY <1>4, <1>6, <1>9, <2>1 DEF Behind, EndAfter
<1>21. Live(t) = Live(q)
  <2>1. Live(q) = Live(t) \cup
          (IF q[1].type = "INPUT" /\ ~EndAfter(q, 1) THEN {Stored(q[1])} ELSE {})
    BY <1>1, <1>4, LiveOfTail
  <2> QED BY <1>4, <2>1
<1>22. Late(t, wm[Host][g])
  BY <1>1, <1>4, <1>13, LateTail DEF Stale
<1> HIDE DEF t
<1>23. Mirrored(g)'
  <2>1. (strayed => epoch[Host] > 0) => page[Host][Host] = Live(t) \cup {}
    BY <1>11, <1>21 DEF Exchange, Mirrored
  <2>2. (strayed' => epoch'[Host] > 0) =>
          page'[Host][Host] = Live(t) \cup (IF EndAfter(t, 0) THEN {} ELSE page'[g][Host])
    BY <1>5, <1>7, <1>9, <2>1
  <2> QED BY <1>4, <2>2 DEF Mirrored, Live, EndAfter
<1>24. epoch'[g] < epoch'[Host] => Stale(g)'
  <2>1. SUFFICES ASSUME r.push < epoch[Host] PROVE Stale(g)'
    BY <1>6, <1>9
  <2>2. r.tick + 2 * D <= wm[Host][g]
    BY <1>1, <1>2, <1>14, <2>1
  <2>3. w + 1 + D <= wm[Host][g]
    <3> HIDE DEF r
    <3> QED BY <1>1, <1>2, <2>2 DEF w
  <2> QED BY <1>4, <1>7, <1>9, <1>13, <1>22, <2>3 DEF Stale, Late, Within, EndAfter
<1>25. epoch'[g] = epoch'[Host] => Current(g)'
  <2>1. SUFFICES ASSUME r.push = epoch[Host] PROVE Current(g)'
    BY <1>6, <1>9
  <2>2. wm[Host][g] = w
    BY <1>1, <1>2, <1>14, <2>1
  <2>3. Captured(g)' \in Int /\ w <= Captured(g)'
    <3>1. \/ Captured(g)' = r.tick + D
          \/ Captured(g)' = r.tick + D - 1
      BY <1>6 DEF Captured
    <3>2. r.tick + D \in Int /\ r.tick + D - 1 \in Int /\ w <= r.tick + D /\ w <= r.tick + D - 1
      <4> HIDE DEF r
      <4> QED BY <1>2, Params DEF w
    <3> QED BY <3>1, <3>2
  <2>4. PICK n \in Int : n = Captured(g)'
    BY <2>3
  <2>5. Increasing(down[Host], w, n) /\ Fresh(down[Host], w) = {}
    BY <1>1, <1>2, <1>13, <2>2, <2>3, <2>4, NothingNew DEF Stale
  <2>6. page[Host][g] = {}
    BY <1>13 DEF Stale
  <2> QED BY <1>4, <1>7, <1>9, <2>2, <2>3, <2>4, <2>5, <2>6 DEF Current, Increasing, Fresh
<1> QED BY <1>17, <1>18, <1>19, <1>20, <1>23, <1>24, <1>25 DEF Exchange

-----------------------------------------------------------------------------
LEMMA PageInit == Init => PageInv
<1> SUFFICES ASSUME Init, NEW g \in Guests PROVE Exchange(g)
  BY DEF PageInv
<1> USE Params
<1>1. g \in Seats /\ Host \in Seats /\ D \in Nat
  BY DEF Guests
<1>2. /\ \A c \in Seats : /\ pc[c] = "entry" /\ tick[c] = 0 /\ epoch[c] = 0 /\ ~hold[c]
                          /\ down[c] = <<>> /\ \A s \in Seats : wm[c][s] = D - 1 /\ page[c][s] = {}
      /\ ~strayed
  BY DEF Init
<1>3. Captured(g) = D - 1 /\ Captured(Host) = D - 1
  <2>1. ~AtGate(g) /\ ~AtGate(Host)
    BY <1>1, <1>2 DEF AtGate
  <2> QED BY <1>1, <1>2, <2>1 DEF Captured
<1>4. down[g] = <<>> /\ down[Host] = <<>> /\ Len(<<>>) = 0
  BY <1>1, <1>2
<1>5. \A p \in 1 .. Len(<<>>) : FALSE
  OBVIOUS
<1>6. ~EndAfter(<<>>, 0) /\ Live(<<>>) = {} /\ Fresh(<<>>, wm[Host][g]) = {}
  BY <1>5 DEF EndAfter, Live, Fresh
<1>7. 0 <= (D - 1) + 1 /\ D - 1 <= D - 1 /\ 0 <= 0 /\ ~(0 < 0)
  BY <1>1
<1>8. Ahead(g) /\ Arriving(g)
  BY <1>1, <1>2, <1>3, <1>4, <1>5, <1>7 DEF Ahead, Arriving, Increasing, Above
<1>9. Debts(g, down[g]) /\ Behind(g)
  BY <1>1, <1>2, <1>4, <1>5, <1>6, <1>7 DEF Debts, Behind
<1>10. Mirrored(g) /\ Current(g)
  BY <1>1, <1>2, <1>3, <1>4, <1>5, <1>6, <1>7 DEF Mirrored, Current, Increasing
<1> QED BY <1>1, <1>2, <1>7, <1>8, <1>9, <1>10 DEF Exchange

(* A console starts a pass, or its game state goes wrong.                  *)
LEMMA ExchangeStart ==
  ASSUME TypeInv, TwoSeats, NEW g \in Guests, Exchange(g), NEW c \in Seats, EnterPass(c) \/ Stray(c)
  PROVE  Exchange(g)'
<1>1. Typed /\ g \in Seats /\ Host \in Seats
  BY Basics
<1>2. UNCHANGED <<tick, wm, page, epoch, hold, resume, down>> /\ (strayed' = strayed \/ ~strayed)
  BY DEF EnterPass, Stray, Fault, rsv, sim
<1>3. pc[c] = "entry" /\ (pc' = pc \/ pc' = [pc EXCEPT ![c] = "top"])
  BY DEF EnterPass, Stray
<1>4. \A p \in Seats : AtGate(p)' = AtGate(p) /\ (pc[p] = "push" => pc'[p] = "push")
  <2>1. ASSUME NEW p \in Seats PROVE pc'[p] = pc[p] \/ (pc[p] = "entry" /\ pc'[p] = "top")
    BY <1>1, <1>3 DEF Typed
  <2>2. ASSUME NEW p \in Seats PROVE AtGate(p)' <=> AtGate(p)
    BY <2>1 DEF AtGate
  <2>3. \A p \in Seats : AtGate(p)' = AtGate(p)
    BY <2>2 DEF AtGate
  <2> QED BY <2>1, <2>3
<1>5. Captured(g)' = Captured(g) /\ Captured(Host)' = Captured(Host)
  BY <1>1, <1>2, <1>4 DEF Captured
<1> QED BY <1>1, <1>2, <1>4, <1>5, ExchangeIdle

LEMMA PageStep ==
  TwoSeats /\ Margin > D /\ TypeInv /\ CutInv /\ HostInv /\ PushInv /\ PageInv /\ [Next]_vars
    => PageInv'
<1> SUFFICES ASSUME TwoSeats, Margin > D, TypeInv, CutInv, HostInv, PushInv, PageInv,
                    [Next]_vars, cut' = {}, NEW g \in Guests, ~dropped'[g], ~dropped'[Host]
             PROVE  Exchange(g)'
  BY DEF PageInv
<1>1. /\ Typed /\ g \in Seats /\ Host \in Seats /\ g # Host
      /\ \A c \in Seats : c = Host \/ c = g
  BY Basics
<1>2. ~dropped[g] /\ ~dropped[Host] /\ cut = {}
  BY <1>1, DroppedStays, CutStep
<1>3. Exchange(g)
  BY <1>2 DEF PageInv
<1>4. CASE UNCHANGED vars
  <2>1. /\ UNCHANGED <<tick, wm, page, epoch, hold, resume, down>> /\ pc' = pc
        /\ strayed' = strayed
    BY <1>4 DEF vars, rsv, sim
  <2>2. Captured(g)' = Captured(g) /\ Captured(Host)' = Captured(Host)
    BY <2>1 DEF Captured, AtGate
  <2> QED BY <1>3, <2>1, <2>2, ExchangeIdle
<1>5. ASSUME NEW c \in Seats, Step(c) PROVE Exchange(g)'
  <2>1. ~Park(c) /\ ~GiveUp(c)
    BY <1>1, <1>2 DEF Park, GiveUp, Typed
  <2>2. CASE c = Host
    BY <1>2, <1>3, <1>5, <2>1, <2>2, ExchangeStart, ExchangeHostCapture, ExchangeHostSends,
       ExchangeHostEnd, ExchangeHostRecv DEF Step
  <2>3. CASE c = g
    <3>1. ~PushWrite(c) /\ ~PushEnd(c)
      BY <1>1, <2>3 DEF PushWrite, PushEnd, HostInv
    <3>2. CASE Recv(c)
      <4>1. CASE Head(down[g]).type = "END"
        <5>1. down[g] # <<>> /\ down[g] \in Seq(Frames)
          BY <1>1, <2>3, <3>2, Typings DEF Recv
        <5>2. down[g] \in Seq(Items) /\ NextWrite \in Items
          BY <1>1, LineTyped
        <5>3. Line(g)[1] = Head(down[g])
          BY <5>1, <5>2, HeadOfLine DEF Line
        <5>4. hold[g]
          BY <1>2, <4>1, <5>3 DEF PushInv, Applied
        <5> QED BY <1>3, <2>3, <3>2, <4>1, <5>4, ExchangeGuestEnd
      <4>2. CASE Head(down[g]).type = "INPUT"
        BY <1>3, <2>3, <3>2, <4>2, ExchangeGuestInput
      <4>3. CASE Head(down[g]).type \notin {"INPUT", "END"}
        BY <1>3, <2>3, <3>2, <4>3, ExchangeGuestHears
      <4> QED BY <4>1, <4>2, <4>3
    <3> QED BY <1>2, <1>3, <1>5, <2>1, <2>3, <3>1, <3>2, ExchangeStart, ExchangeGuestCapture,
               ExchangeGuestTick DEF Step
  <2> QED BY <1>1, <2>2, <2>3
<1> QED BY <1>4, <1>5 DEF Next, Step

(* What the invariant says of the pages of consoles on the same side of a  *)
(* push: what is not there yet lies beyond the watermark.                  *)
LEMMA PagesFollow == TwoSeats /\ TypeInv /\ PageInv => (cut = {} => PagesAgree)
<1> SUFFICES ASSUME TwoSeats, TypeInv, PageInv, cut = {}, NEW c \in Seats, NEW s \in Seats,
                    epoch[c] = epoch[s], ~dropped[c], ~dropped[s], strayed => epoch[c] > 0,
                    NEW t \in tick[c] .. wm[c][s]
             PROVE  {x \in page[c][s] : x[1] = t} = {x \in page[s][s] : x[1] = t}
  BY DEF PagesAgree
<1>1. CASE c = s
  BY <1>1
<1>2. ASSUME NEW g \in Guests, c = g, s = Host
      PROVE  {x \in page[c][s] : x[1] = t} = {x \in page[s][s] : x[1] = t}
  <2>1. Exchange(g) /\ wm[g][Host] \in Int /\ epoch[g] \in Nat /\ down[g] \in Seq(Frames)
    BY <1>2, Basics DEF PageInv
  <2>2. ~EndAfter(down[g], 0)
    BY <1>2, <2>1 DEF Exchange, Behind
  <2>3. page[Host][Host] = Live(down[g]) \cup page[g][Host]
    BY <1>2, <2>1, <2>2 DEF Exchange, Mirrored
  <2>4. ASSUME NEW x \in Live(down[g]) PROVE x[1] # t
    <3>1. PICK p \in 1 .. Len(down[g]) : down[g][p].type = "INPUT" /\ x = Stored(down[g][p])
      BY DEF Live
    <3>2. wm[g][Host] < x[1] /\ x[1] \in Nat
      BY <2>1, <3>1, StoredFacts DEF Exchange, Arriving, Above
    <3>3. t \in Int /\ t <= wm[g][Host]
      BY <1>2, <2>1
    <3> QED BY <2>1, <3>2, <3>3
  <2> QED BY <1>2, <2>3, <2>4
<1>3. ASSUME NEW g \in Guests, c = Host, s = g
      PROVE  {x \in page[c][s] : x[1] = t} = {x \in page[s][s] : x[1] = t}
  <2>1. Exchange(g) /\ wm[Host][g] \in Int
    BY <1>3, Basics DEF PageInv
  <2>2. page[g][g] = page[Host][g] \cup Fresh(down[Host], wm[Host][g])
    BY <1>3, <2>1 DEF Exchange, Current
  <2>3. ASSUME NEW x \in Fresh(down[Host], wm[Host][g]) PROVE x[1] # t
    <3>1. PICK p \in 1 .. Len(down[Host]) : /\ down[Host][p].type = "INPUT"
                                           /\ x = Stored(down[Host][p])
                                           /\ down[Host][p].tick > wm[Host][g]
      BY DEF Fresh
    <3>2. x[1] = down[Host][p].tick /\ x[1] \in Nat
      BY <1>3, <3>1, Basics, StoredFacts
    <3>3. t \in Int /\ t <= wm[Host][g]
      BY <1>3, <2>1
    <3> QED BY <2>1, <3>1, <3>2, <3>3
  <2> QED BY <1>3, <2>2, <2>3
<1> QED BY <1>1, <1>2, <1>3 DEF Guests, TwoSeats

(* In a room of two whose pushes skip more than the input delay, consoles  *)
(* on the same side of a push hold the same inputs for the ticks they have *)
(* still to run: what was under way when the host re-baselined is late on  *)
(* the other side, for ever (RS_REBASE, netcode/resync.asm:387), as long   *)
(* as no write of a push fails.                                            *)
THEOREM SameInputs ==
  ASSUME TwoSeats, K > 1, Margin > D PROVE Spec => [](cut = {} => PagesAgree)
<1>1. TypeInv /\ TypeInv' /\ CutInv /\ HostInv /\ PushInv /\ [Next]_vars => PushInv'
  BY PushStep
<1>2. Spec => []PushInv
  BY <1>1, TypeAlways, CutAlways, HostAlways, PushInit, PTL DEF Spec
<1>3. TypeInv /\ CutInv /\ HostInv /\ PushInv /\ PageInv /\ [Next]_vars => PageInv'
  BY PageStep
<1>4. Spec => []PageInv
  BY <1>2, <1>3, TypeAlways, CutAlways, HostAlways, PageInit, PTL DEF Spec
<1>5. TypeInv /\ PageInv => (cut = {} => PagesAgree)
  BY PagesFollow
<1> QED BY <1>4, <1>5, TypeAlways, PTL
=============================================================================
