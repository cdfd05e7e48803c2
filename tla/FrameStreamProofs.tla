-------------------------- MODULE FrameStreamProofs --------------------------
(* Proofs about FrameStream, for every ring, every READ size and every     *)
(* frame table that leaves the ring room, any frames and any faults.       *)
EXTENDS FrameStream, SequenceTheorems, FiniteSetTheorems, TLAPS

-----------------------------------------------------------------------------
(* Arithmetic of the ring's indices                                        *)

LEMMA Sizes ==
  RING \in Nat /\ CHUNK \in Nat /\ CHUNK >= 1 /\ CHUNK + 1 < RING /\ SEQ \in Nat /\ SEQ >= 2
BY RingAssumption

(* One turn of the ring either way is a difference of RING.                *)
LEMMA OneTurn ==
  ASSUME NEW x \in Int, -RING <= x, x < 2 * RING
  PROVE  x % RING = IF x < 0 THEN x + RING ELSE IF x < RING THEN x ELSE x - RING
<1> DEFINE q == x \div RING
           r == x % RING
<1>1. q \in Int /\ r \in 0 .. RING - 1 /\ x = RING * q + r
  BY Sizes
<1> HIDE DEF q, r
<1>2. ASSUME q >= 2 PROVE RING * q >= 2 * RING
  BY <1>1, <1>2, Sizes
<1>3. ASSUME q <= -2 PROVE RING * q <= -2 * RING
  BY <1>1, <1>3, Sizes
<1>4. q = -1 \/ q = 0 \/ q = 1
  BY <1>1, <1>2, <1>3, Sizes
<1>5. r = IF x < 0 THEN x + RING ELSE IF x < RING THEN x ELSE x - RING
  <2>1. CASE q = -1
    <3>1. RING * q = -RING
      BY <2>1, Sizes
    <3> QED BY <3>1, <1>1, Sizes
  <2>2. CASE q = 0
    <3>1. RING * q = 0
      BY <2>2, Sizes
    <3> QED BY <3>1, <1>1, Sizes
  <2>3. CASE q = 1
    <3>1. RING * q = RING
      BY <2>3, Sizes
    <3> QED BY <3>1, <1>1, Sizes
  <2> QED BY <1>4, <2>1, <2>2, <2>3
<1> QED BY <1>5 DEF r

(* Indices, the index i bytes on from one, and how far one is ahead.       *)
Index       == 0 .. RING - 1
On(a, i)    == (a + i) % RING
Ahead(a, b) == (a - b) % RING

LEMMA Indices ==
  ASSUME NEW a \in Index, NEW i \in 0 .. RING
  PROVE  On(a, i) \in Index /\ On(a, i) = IF a + i < RING THEN a + i ELSE a + i - RING
BY OneTurn, Sizes DEF Index, On

LEMMA Distance ==
  ASSUME NEW a \in Index, NEW b \in Index
  PROVE  Ahead(a, b) \in Index /\ Ahead(a, b) = IF a < b THEN a - b + RING ELSE a - b
BY OneTurn, Sizes DEF Index, Ahead

(* Writing k bytes adds k to what is buffered, reading k takes k away.     *)
LEMMA Written ==
  ASSUME NEW w \in Index, NEW r \in Index, NEW k \in Nat, Ahead(w, r) + k < RING
  PROVE  On(w, k) \in Index /\ Ahead(On(w, k), r) = Ahead(w, r) + k
<1>1. k \in 0 .. RING /\ Ahead(w, r) = IF w < r THEN w - r + RING ELSE w - r
  BY Distance, Sizes DEF Index
<1>2. On(w, k) \in Index /\ On(w, k) = IF w + k < RING THEN w + k ELSE w + k - RING
  BY <1>1, Indices
<1>3. Ahead(On(w, k), r) = IF On(w, k) < r THEN On(w, k) - r + RING ELSE On(w, k) - r
  BY <1>2, Distance
<1> QED BY <1>1, <1>2, <1>3, Sizes DEF Index

LEMMA Consumed ==
  ASSUME NEW w \in Index, NEW r \in Index, NEW k \in Nat, k <= Ahead(w, r)
  PROVE  On(r, k) \in Index /\ Ahead(w, On(r, k)) = Ahead(w, r) - k
<1>1. k \in 0 .. RING /\ Ahead(w, r) = IF w < r THEN w - r + RING ELSE w - r
  BY Distance, Sizes DEF Index
<1>2. On(r, k) \in Index /\ On(r, k) = IF r + k < RING THEN r + k ELSE r + k - RING
  BY <1>1, Indices
<1>3. Ahead(w, On(r, k)) = IF w < On(r, k) THEN w - On(r, k) + RING ELSE w - On(r, k)
  BY <1>2, Distance
<1> QED BY <1>1, <1>2, <1>3, Sizes DEF Index

LEMMA OnOn ==
  ASSUME NEW a \in Index, NEW n \in Nat, NEW i \in Nat, n + i < RING
  PROVE  On(On(a, n), i) = On(a, n + i)
<1>1. n \in 0 .. RING /\ i \in 0 .. RING /\ n + i \in 0 .. RING
  BY Sizes
<1>2. On(a, n) \in Index /\ On(a, n) = IF a + n < RING THEN a + n ELSE a + n - RING
  BY <1>1, Indices
<1>3. On(a, n + i) = IF a + (n + i) < RING THEN a + (n + i) ELSE a + (n + i) - RING
  BY <1>1, Indices
<1>4. On(On(a, n), i) = IF On(a, n) + i < RING THEN On(a, n) + i ELSE On(a, n) + i - RING
  BY <1>1, <1>2, Indices
<1> QED BY <1>1, <1>2, <1>3, <1>4, Sizes DEF Index

(* Where byte i of the buffer is, seen from the write position.            *)
LEMMA SlotOf ==
  ASSUME NEW w \in Index, NEW r \in Index, NEW i \in Index
  PROVE  /\ On(r, i) \in Index
         /\ i >= Ahead(w, r) => Ahead(On(r, i), w) = i - Ahead(w, r)
         /\ i < Ahead(w, r) => Ahead(On(r, i), w) = i - Ahead(w, r) + RING
<1>1. i \in 0 .. RING /\ Ahead(w, r) = IF w < r THEN w - r + RING ELSE w - r
  BY Distance, Sizes DEF Index
<1>2. On(r, i) \in Index /\ On(r, i) = IF r + i < RING THEN r + i ELSE r + i - RING
  BY <1>1, Indices
<1>3. Ahead(On(r, i), w) = IF On(r, i) < w THEN On(r, i) - w + RING ELSE On(r, i) - w
  BY <1>2, Distance
<1> QED BY <1>1, <1>2, <1>3, Sizes DEF Index

-----------------------------------------------------------------------------
(* Types                                                                   *)

LEMMA SubTypes ==
  ASSUME NEW s \in Seq(Nat), NEW k \in 0 .. Len(s)
  PROVE  /\ SubSeq(s, 1, k) \in Seq(Nat) /\ Len(SubSeq(s, 1, k)) = k
         /\ \A i \in 1 .. k : SubSeq(s, 1, k)[i] = s[i]
         /\ SubSeq(s, k + 1, Len(s)) \in Seq(Nat)
         /\ Len(SubSeq(s, k + 1, Len(s))) = Len(s) - k
         /\ \A i \in 1 .. Len(s) - k : SubSeq(s, k + 1, Len(s))[i] = s[k + i]
BY SubSeqProperties

LEMMA SeqRange == ASSUME NEW a \in 0 .. SEQ PROVE NextSeq(a) \in 1 .. SEQ /\ NextSeq(a) # a
BY Sizes DEF NextSeq

(* What the bytes of the ring are.                                         *)
LEMMA Bytes ==
  ASSUME TypeOK
  PROVE  /\ wr \in Index /\ rd \in Index /\ Buffered \in Index
         /\ Buffered = Ahead(wr, rd)
         /\ \A i \in Index : At(i) \in Nat /\ At(i) = ring[On(rd, i)]
<1>1. wr \in Index /\ rd \in Index /\ ring \in [Index -> Nat]
  BY DEF TypeOK, Index
<1>2. Buffered = Ahead(wr, rd) /\ Buffered \in Index
  BY <1>1, Distance DEF Buffered, Ahead
<1>3. \A i \in Index : At(i) = ring[On(rd, i)] /\ On(rd, i) \in Index
  BY <1>1, Indices, Sizes DEF At, On, Index
<1> QED BY <1>1, <1>2, <1>3

(* A header asks for two bytes at least, and for no more than leaves room  *)
(* for a READ.                                                             *)
LEMMA HeaderRoom ==
  ASSUME NEW n \in Nat, NEW t, Header(n, t)
  PROVE  n >= 1 /\ n + CHUNK < RING
BY TableAssumption, Sizes DEF Header

LEMMA TypeInit == Init => TypeOK
<1>1. <<>> \in Seq(Nat) /\ <<>> \in Seq(Frames) /\ <<>> \in Seq(Seq(Nat))
  OBVIOUS
<1> QED BY <1>1, Sizes DEF Init, TypeOK, Command, NoJob

LEMMA TypeStage ==
  ASSUME TypeOK, NEW op \in {"STATUS", "READ", "WRITE"}, NEW n \in Nat, Stage(op, n)
  PROVE  /\ cmd' \in Command /\ seq' \in 0 .. SEQ /\ ack' \in 0 .. SEQ
         /\ reply' = reply
<1>1. [op |-> op, n |-> n] \in Command
  BY DEF Command
<1> QED BY <1>1, SeqRange, Sizes DEF TypeOK, Stage

LEMMA ClampRange == ASSUME NEW n \in Nat PROVE Clamp(n) \in 0 .. CHUNK
BY Sizes DEF Clamp

(* The frame that is cut out.                                              *)
CutOut == [i \in 1 .. At(0) + 1 |-> At(i - 1)]

LEMMA CutOutFacts ==
  ASSUME TypeOK, Cut
  PROVE  /\ At(0) \in Nat /\ At(0) >= 1 /\ At(0) + 1 <= Buffered
         /\ CutOut \in Seq(Nat) /\ Len(CutOut) = At(0) + 1
         /\ rd' = On(rd, At(0) + 1)
<1>1. At(0) \in Nat
  BY Bytes, Sizes DEF Index
<1>2. At(0) >= 1 /\ At(0) + 1 <= Buffered /\ Buffered \in Nat
  BY <1>1, HeaderRoom, Bytes, Sizes DEF Cut, Index
<1>3. \A i \in 1 .. At(0) + 1 : i - 1 \in Index /\ At(i - 1) \in Nat
  <2>1. ASSUME NEW i \in 1 .. At(0) + 1 PROVE i - 1 \in Index
    BY <1>1, <1>2, Bytes, Sizes DEF Index
  <2> QED BY <2>1, Bytes
<1>4. rd' = On(rd, At(0) + 1)
  <2>1. rd + At(0) + 1 = rd + (At(0) + 1)
    BY <1>1, Bytes DEF Index
  <2> QED BY <2>1 DEF Cut, On
<1> QED BY <1>1, <1>2, <1>3, <1>4 DEF CutOut

LEMMA TypeConsole == ASSUME TypeOK, Console PROVE TypeOK'
<1> USE DEF mailbox, stream
<1>1. CASE StartPump
  <2>1. Stage("STATUS", 0)
    BY <1>1 DEF StartPump
  <2> QED BY <1>1, <2>1, TypeStage DEF StartPump, TypeOK
<1>2. CASE StatusAnswered
  <2>1. PICK n \in Nat : /\ pc' = "read" /\ want' = Clamp(n) /\ Stage("READ", Clamp(n))
                         /\ UNCHANGED <<job, wire, stream, sent, lost, faults>>
    BY <1>2, Sizes DEF StatusAnswered, TypeOK
  <2>2. want' \in 0 .. CHUNK /\ want' \in Nat
    BY <2>1, ClampRange, Sizes
  <2> QED BY <2>1, <2>2, TypeStage DEF TypeOK
<1>3. CASE NothingToRead
  BY <1>3 DEF NothingToRead, TypeOK
<1>4. CASE ReadAnswered
  <2>1. ring' \in [Index -> Nat]
    <3>1. ASSUME NEW i \in Index, Ahead(i, wr) < Len(reply.data)
          PROVE  reply.data[Ahead(i, wr) + 1] \in Nat
      <4>1. Ahead(i, wr) + 1 \in 1 .. Len(reply.data)
        <5>1. Ahead(i, wr) \in Index
          BY Bytes, Distance
        <5>2. Len(reply.data) \in Nat
          BY DEF TypeOK
        <5>3. ASSUME NEW a \in Index, NEW n \in Nat, a < n PROVE a + 1 \in 1 .. n
          BY <5>3, Sizes DEF Index
        <5> QED BY <3>1, <5>1, <5>2, <5>3
      <4>2. reply.data \in Seq(Nat)
        BY DEF TypeOK
      <4> QED BY <4>1, <4>2
    <3> QED BY <1>4, <3>1 DEF ReadAnswered, TypeOK, Index, Ahead
  <2>2. wr' \in Index
    <3>1. wr + Len(reply.data) \in Nat /\ wr' = (wr + Len(reply.data)) % RING
      <4>1. wr \in Nat /\ Len(reply.data) \in Nat
        BY DEF TypeOK
      <4>2. wr' = (wr + Len(reply.data)) % RING
        BY <1>4 DEF ReadAnswered
      <4> QED BY <4>1, <4>2
    <3>2. ASSUME NEW n \in Nat PROVE n % RING \in Index
      BY Sizes DEF Index
    <3> QED BY <3>1, <3>2
  <2> QED BY <1>4, <2>1, <2>2 DEF ReadAnswered, TypeOK, Index
<1>5. CASE Cut
  <2>1. rd' \in Index
    BY <1>5, CutOutFacts, Consumed, Bytes
  <2>2. got' \in Seq(Seq(Nat))
    BY <1>5, CutOutFacts DEF Cut, CutOut, TypeOK
  <2> QED BY <1>5, <2>1, <2>2 DEF Cut, TypeOK, Index
<1>6. CASE Slip
  BY <1>6, Sizes DEF Slip, TypeOK
<1>7. CASE PumpDone
  BY <1>7 DEF PumpDone, TypeOK
<1>8. CASE Act
  <2>1. CASE Stage("WRITE", 0)
    BY <1>8, <2>1, TypeStage DEF Act, TypeOK
  <2>2. CASE UNCHANGED mailbox
    BY <1>8, <2>2 DEF Act, TypeOK
  <2> QED BY <1>8, <2>1, <2>2 DEF Act
<1>9. CASE WriteAnswered
  BY <1>9 DEF WriteAnswered, TypeOK
<1> QED BY <1>1, <1>2, <1>3, <1>4, <1>5, <1>6, <1>7, <1>8, <1>9 DEF Console

(* What Finish hands over.                                                 *)
Taken == IF job.op # "READ" THEN 0 ELSE IF job.n < Len(wire) THEN job.n ELSE Len(wire)

LEMMA TakenRange ==
  ASSUME TypeOK
  PROVE  Taken \in 0 .. Len(wire) /\ (job.op = "READ" => Taken <= job.n)
BY DEF TypeOK, Command, Taken

LEMMA TakenBytes ==
  ASSUME TypeOK
  PROVE  /\ SubSeq(wire, 1, Taken) \in Seq(Nat) /\ Len(SubSeq(wire, 1, Taken)) = Taken
         /\ \A i \in 1 .. Taken : SubSeq(wire, 1, Taken)[i] = wire[i]
         /\ SubSeq(wire, Taken + 1, Len(wire)) \in Seq(Nat)
         /\ Len(SubSeq(wire, Taken + 1, Len(wire))) = Len(wire) - Taken
         /\ \A i \in 1 .. Len(wire) - Taken : SubSeq(wire, Taken + 1, Len(wire))[i] = wire[Taken + i]
<1>1. wire \in Seq(Nat)
  BY DEF TypeOK
<1>2. Taken \in 0 .. Len(wire)
  BY TakenRange
<1> QED BY <1>1, <1>2, SubTypes

LEMMA TypeOthers == ASSUME TypeOK, GiveUp \/ Adapter \/ Send PROVE TypeOK'
<1> USE DEF mailbox, stream
<1>1. CASE GiveUp
  BY <1>1 DEF GiveUp, TypeOK
<1>2. CASE Fetch
  BY <1>2 DEF Fetch, TypeOK
<1>3. CASE Finish
  <2>1. /\ reply' = [op |-> job.op, ok |-> TRUE, n |-> Len(wire), data |-> SubSeq(wire, 1, Taken)]
        /\ wire' = SubSeq(wire, Taken + 1, Len(wire))
        /\ lost' \in {lost, lost + 1}
    <3>1. lost + (IF Taken > 0 /\ pc # "read" THEN 1 ELSE 0) \in {lost, lost + 1}
      BY DEF TypeOK
    <3> QED BY <1>3, <3>1, Zenon DEF Finish, Taken
  <2>2. wire' \in Seq(Nat) /\ SubSeq(wire, 1, Taken) \in Seq(Nat)
    BY <2>1, TakenBytes
  <2>3. reply'.ok \in BOOLEAN /\ reply'.n \in Nat /\ reply'.data \in Seq(Nat) /\ lost' \in Nat
    <3>1. Len(wire) \in Nat /\ lost \in Nat
      BY DEF TypeOK
    <3>2. /\ reply'.ok = TRUE /\ reply'.n = Len(wire) /\ reply'.data = SubSeq(wire, 1, Taken)
      BY <2>1
    <3> QED BY <2>1, <2>2, <3>1, <3>2
  <2>4. job' \in Command
    BY <1>3 DEF Finish, NoJob, Command
  <2> QED BY <1>3, <2>2, <2>3, <2>4 DEF Finish, TypeOK
<1>4. CASE Refuse
  BY <1>4 DEF Refuse, TypeOK, NoJob, Command
<1>5. CASE Send
  <2>1. PICK f \in Frames : sent' = Append(sent, f) /\ wire' = wire \o f
    BY <1>5 DEF Send
  <2>2. f \in Seq(Nat)
    BY FrameAssumption
  <2>3. wire' \in Seq(Nat) /\ sent' \in Seq(Frames)
    BY <2>1, <2>2, ConcatProperties DEF TypeOK
  <2> QED BY <1>5, <2>3 DEF Send, TypeOK
<1> QED BY <1>1, <1>2, <1>3, <1>4, <1>5 DEF Adapter

LEMMA TypeNext == TypeOK /\ [Next]_vars => TypeOK'
<1>1. TypeOK /\ UNCHANGED vars => TypeOK'
  BY DEF TypeOK, vars, mailbox, stream
<1> QED BY <1>1, TypeConsole, TypeOthers DEF Next

(* The cells of the mailbox, the ring and its indices keep their ranges.   *)
THEOREM TypeCorrect == Spec => []TypeOK
BY TypeInit, TypeNext, PTL DEF Spec

-----------------------------------------------------------------------------
(* The mailbox                                                             *)

(* A command the adapter works on is not acknowledged.  So none is under   *)
(* way when a READ is staged, and what ends a READ is the READ itself.     *)
Mail ==
  /\ job # NoJob => seq # ack
  /\ pc = "read" =>
       /\ cmd = [op |-> "READ", n |-> want]
       /\ job \in {NoJob, cmd}
       /\ ack = seq => reply.op = "READ" /\ Len(reply.data) <= want

(* Between two rounds of the parser the ring has room for a READ.          *)
Room == pc # "parse" => Buffered + CHUNK < RING

LEMMA StageOpens ==
  ASSUME TypeOK, NEW op, NEW n, Stage(op, n)
  PROVE  cmd' = [op |-> op, n |-> n] /\ seq' # ack' /\ ack' = ack
BY SeqRange DEF TypeOK, Stage

LEMMA MailConsole == ASSUME TypeOK, Mail, Console PROVE Mail'
<1> USE DEF mailbox, stream
<1>1. CASE StartPump
  <2>1. Stage("STATUS", 0)
    BY <1>1 DEF StartPump
  <2> QED BY <1>1, <2>1, StageOpens DEF StartPump, Mail
<1>2. CASE StatusAnswered
  <2>1. PICK n : /\ want' = Clamp(n) /\ Stage("READ", Clamp(n)) /\ job' = job
    BY <1>2 DEF StatusAnswered
  <2>2. job = NoJob
    BY <1>2 DEF StatusAnswered, Acked, Mail
  <2> QED BY <2>1, <2>2, StageOpens DEF Mail
<1>3. CASE NothingToRead
  BY <1>3 DEF NothingToRead, Mail
<1>4. CASE ReadAnswered
  BY <1>4 DEF ReadAnswered, Mail
<1>5. CASE Cut
  BY <1>5 DEF Cut, Mail
<1>6. CASE Slip
  BY <1>6 DEF Slip, Mail
<1>7. CASE PumpDone
  BY <1>7 DEF PumpDone, Mail
<1>8. CASE Act
  <2>1. CASE Stage("WRITE", 0)
    BY <1>8, <2>1, StageOpens DEF Act, Mail
  <2>2. CASE UNCHANGED mailbox
    BY <1>8, <2>2 DEF Act, Mail
  <2> QED BY <1>8, <2>1, <2>2 DEF Act
<1>9. CASE WriteAnswered
  BY <1>9 DEF WriteAnswered, Mail
<1> QED BY <1>1, <1>2, <1>3, <1>4, <1>5, <1>6, <1>7, <1>8, <1>9 DEF Console

(* The adapter's answer to a READ that is still polled for.                *)
LEMMA FinishGives ==
  ASSUME TypeOK, Finish
  PROVE  /\ reply' = [op |-> job.op, ok |-> TRUE, n |-> Len(wire), data |-> SubSeq(wire, 1, Taken)]
         /\ wire' = SubSeq(wire, Taken + 1, Len(wire))
         /\ job # NoJob /\ job' = NoJob /\ ack' = seq
         /\ UNCHANGED <<pc, want, cmd, seq, ring, wr, rd, got, slips, sent, faults>>
         /\ lost' = 0 => lost = 0 /\ (Taken = 0 \/ pc = "read")
<1>1. Taken \in Nat /\ lost \in Nat
  BY TakenRange DEF TypeOK
<1>2. lost' = lost + (IF Taken > 0 /\ pc # "read" THEN 1 ELSE 0)
  BY Zenon DEF Finish, Taken
<1>3. lost' = 0 => lost = 0 /\ (Taken = 0 \/ pc = "read")
  BY <1>1, <1>2
<1> QED BY <1>3, Zenon DEF Finish, Taken, stream

LEMMA MailOthers == ASSUME TypeOK, Mail, GiveUp \/ Adapter \/ Send PROVE Mail'
<1> USE DEF mailbox, stream
<1>1. CASE GiveUp
  BY <1>1 DEF GiveUp, Mail
<1>2. CASE Fetch
  BY <1>2 DEF Fetch, Mail
<1>3. CASE Finish
  <2>1. ASSUME pc = "read" PROVE reply'.op = "READ" /\ Len(reply'.data) <= want
    <3>1. job.op = "READ" /\ job.n = want
      BY <1>3, <2>1, FinishGives DEF Mail
    <3>2. Len(reply'.data) = Taken
      BY <1>3, FinishGives, TakenBytes
    <3> QED BY <1>3, <3>1, <3>2, FinishGives, TakenRange
  <2> QED BY <1>3, <2>1, FinishGives DEF Mail
<1>4. CASE Refuse
  <2>1. pc = "read" => job = cmd
    BY <1>4 DEF Refuse, Mail
  <2>2. reply'.op = job.op /\ reply'.data = <<>> /\ want >= 0
    BY <1>4 DEF Refuse, TypeOK
  <2> QED BY <1>4, <2>1, <2>2 DEF Refuse, Mail
<1>5. CASE Send
  BY <1>5 DEF Send, Mail
<1> QED BY <1>1, <1>2, <1>3, <1>4, <1>5 DEF Adapter

LEMMA RoomConsole == ASSUME TypeOK, Room, Console PROVE Room'
<1> USE DEF mailbox, stream, Buffered
<1>1. CASE PumpDone
  <2>1. Buffered < 2 \/ (Header(At(0), At(1)) /\ Buffered < At(0) + 1)
    BY <1>1 DEF PumpDone
  <2>2. At(0) \in Nat /\ Buffered \in Nat
    BY Bytes, Sizes DEF Index
  <2>3. Buffered + CHUNK < RING
    BY <2>1, <2>2, HeaderRoom, Sizes
  <2> QED BY <1>1, <2>3 DEF PumpDone, Room
<1>2. CASE StartPump
  BY <1>2 DEF StartPump, Room
<1>3. CASE StatusAnswered
  BY <1>3 DEF StatusAnswered, Room
<1>4. CASE Act
  BY <1>4 DEF Act, Room
<1>5. CASE WriteAnswered
  BY <1>5 DEF WriteAnswered, Room
<1>6. CASE NothingToRead \/ ReadAnswered \/ Cut \/ Slip
  BY <1>6 DEF NothingToRead, ReadAnswered, Cut, Slip, Room
<1> QED BY <1>1, <1>2, <1>3, <1>4, <1>5, <1>6 DEF Console

LEMMA RoomOthers == ASSUME Room, GiveUp \/ Adapter \/ Send PROVE Room'
<1> USE DEF mailbox, stream, Buffered, Room
<1>1. CASE GiveUp
  BY <1>1 DEF GiveUp
<1>2. CASE Fetch \/ Finish \/ Refuse \/ Send
  BY <1>2 DEF Fetch, Finish, Refuse, Send
<1> QED BY <1>1, <1>2 DEF Adapter

SafeInv == TypeOK /\ Mail /\ Room

LEMMA SafeInit == Init => SafeInv
<1> SUFFICES ASSUME Init PROVE SafeInv
  OBVIOUS
<1>1. Mail
  BY DEF Init, Mail
<1>2. Buffered = 0
  BY OneTurn, Sizes DEF Init, Buffered
<1> QED BY <1>1, <1>2, TypeInit, Sizes DEF SafeInv, Room

LEMMA SafeNext == SafeInv /\ [Next]_vars => SafeInv'
<1>1. SafeInv /\ UNCHANGED vars => SafeInv'
  <2>1. TypeOK /\ UNCHANGED vars => TypeOK'
    BY TypeNext
  <2>2. Mail /\ Room /\ UNCHANGED vars => Mail' /\ Room'
    BY DEF Mail, Room, vars, mailbox, stream, Buffered
  <2> QED BY <2>1, <2>2 DEF SafeInv
<1>2. SafeInv /\ Next => SafeInv'
  BY TypeNext, MailConsole, MailOthers, RoomConsole, RoomOthers DEF SafeInv, Next
<1> QED BY <1>1, <1>2

LEMMA SafeReachable == Spec => []SafeInv
BY SafeInit, SafeNext, PTL DEF Spec

(* What a READ brings fits the ring and is the answer to that READ: the    *)
(* copy loop of SES_PUMP looks neither at RX_RD nor at the command that    *)
(* FN_RX answers.                                                          *)
THEOREM ReadsAreSafe == Spec => []ReadSafe
<1>1. SafeInv => ReadSafe
  <2> SUFFICES ASSUME SafeInv, pc = "read"
               PROVE  /\ Buffered + want < RING
                      /\ job.op \in {"NONE", "READ"}
                      /\ Acked => reply.op = "READ" /\ Len(reply.data) <= want
    BY DEF ReadSafe
  <2>1. Buffered + want < RING
    <3>1. Buffered \in Nat /\ want \in Nat /\ want <= CHUNK
      BY Bytes, Sizes DEF SafeInv, TypeOK, Index
    <3> QED BY <3>1, Sizes DEF SafeInv, Room
  <2>2. job.op \in {"NONE", "READ"}
    BY DEF SafeInv, Mail, NoJob
  <2> QED BY <2>1, <2>2 DEF SafeInv, Mail, Acked
<1> QED BY SafeReachable, <1>1, PTL

-----------------------------------------------------------------------------
(* The stream                                                              *)

(* bytes is the stream of the frames sent, and frame i of it starts after  *)
(* the first cuts[i] bytes.                                                *)
LaidOut(bytes, cuts) ==
  /\ bytes \in Seq(Nat) /\ cuts \in Seq(Nat)
  /\ Len(cuts) = Len(sent) + 1 /\ cuts[Len(sent) + 1] = Len(bytes)
  /\ \A i \in 1 .. Len(sent) + 1 : cuts[i] <= Len(bytes)
  /\ \A i \in 1 .. Len(sent) :
       /\ cuts[i + 1] = cuts[i] + Len(sent[i])
       /\ \A j \in 1 .. Len(sent[i]) : bytes[cuts[i] + j] = sent[i][j]

(* What a READ has brought as far as FN_RX.                                *)
InFlight == IF pc = "read" /\ ack = seq THEN reply.data ELSE <<>>

(* The frames handed on are the first ones sent.  The rest of the stream   *)
(* is in the ring, in FN_RX and in the adapter, in this order.             *)
Caught(bytes, cuts) ==
  LET c == cuts[Len(got) + 1] IN
  /\ slips = 0 /\ Len(got) <= Len(sent)
  /\ \A i \in 1 .. Len(got) : got[i] = sent[i]
  /\ Len(bytes) = c + Buffered + Len(InFlight) + Len(wire)
  /\ \A i \in 1 .. Buffered : At(i - 1) = bytes[c + i]
  /\ \A i \in 1 .. Len(InFlight) : InFlight[i] = bytes[c + Buffered + i]
  /\ \A i \in 1 .. Len(wire) : wire[i] = bytes[c + Buffered + Len(InFlight) + i]

Streamed == \E bytes, cuts : LaidOut(bytes, cuts) /\ (lost = 0 => Caught(bytes, cuts))

StreamInv == SafeInv /\ Streamed

(* A frame of the server is one the parser takes.                          *)
LEMMA FrameShape ==
  ASSUME NEW f \in Frames
  PROVE  f \in Seq(Nat) /\ Len(f) = f[1] + 1 /\ Len(f) >= 2 /\ Header(f[1], f[2])
<1>1. /\ f \in Seq(Nat) /\ Len(f) = f[1] + 1 /\ f[2] \in DOMAIN FLEN
      /\ f[1] \in FLEN[f[2]][1] .. FLEN[f[2]][2]
  BY FrameAssumption
<1>2. FLEN[f[2]][1] \in Nat /\ FLEN[f[2]][1] >= 1 /\ FLEN[f[2]][2] \in Nat
  BY <1>1, TableAssumption
<1>3. ASSUME NEW n, NEW a \in Nat, NEW b \in Nat, a >= 1, n \in a .. b
      PROVE  n \in Nat /\ n >= 1
  BY <1>3
<1>4. f[1] \in Nat /\ f[1] >= 1
  BY <1>1, <1>2, <1>3
<1> QED BY <1>1, <1>4 DEF Header

(* The next frame of the stream is at the front of the ring.               *)
LEMMA FrontFrame ==
  ASSUME SafeInv, NEW bytes, NEW cuts, LaidOut(bytes, cuts), Caught(bytes, cuts), Buffered >= 2
  PROVE  LET f == sent[Len(got) + 1] IN
         /\ Len(got) < Len(sent) /\ f \in Frames /\ f \in Seq(Nat) /\ Len(f) >= 2
         /\ \A i \in 1 .. Len(f) : i <= Buffered => At(i - 1) = f[i]
         /\ Header(At(0), At(1)) /\ Len(f) = At(0) + 1
<1> DEFINE f == sent[Len(got) + 1]
           c == cuts[Len(got) + 1]
<1>1. /\ Buffered \in Nat /\ Len(InFlight) \in Nat /\ Len(wire) \in Nat
      /\ Len(got) \in Nat /\ Len(sent) \in Nat /\ Len(bytes) \in Nat
      /\ Len(got) <= Len(sent)
  <2>1. Buffered \in Nat
    BY Bytes, Sizes DEF SafeInv, Index
  <2>2. reply.data \in Seq(Nat) /\ Len(<<>>) = 0
    BY DEF SafeInv, TypeOK
  <2>3. Len(InFlight) \in Nat
    BY <2>2 DEF InFlight
  <2>4. Len(wire) \in Nat /\ Len(got) \in Nat /\ Len(sent) \in Nat
    BY DEF SafeInv, TypeOK
  <2> QED BY <2>1, <2>3, <2>4 DEF Caught, LaidOut
<1>2. c \in Nat
  BY <1>1 DEF LaidOut
<1>3. Len(got) < Len(sent)
  <2>1. Len(bytes) > c
    <3>1. Len(bytes) = c + Buffered + Len(InFlight) + Len(wire)
      BY DEF Caught
    <3> QED BY <3>1, <1>1, <1>2
  <2>2. Len(got) # Len(sent)
    BY <2>1, <1>2 DEF LaidOut
  <2> QED BY <2>2, <1>1
<1>4. Len(got) + 1 \in 1 .. Len(sent)
  BY <1>1, <1>3
<1>5. f \in Frames
  BY <1>4 DEF SafeInv, TypeOK
<1>6. f \in Seq(Nat) /\ Len(f) = f[1] + 1 /\ Len(f) >= 2 /\ Header(f[1], f[2])
  BY <1>5, FrameShape
<1>7. Len(f) \in Nat
  BY <1>6
<1>8. \A i \in 1 .. Len(f) : bytes[c + i] = f[i]
  BY <1>4 DEF LaidOut
<1>9. \A i \in 1 .. Len(f) : i <= Buffered => At(i - 1) = f[i]
  <2>1. \A i \in 1 .. Buffered : At(i - 1) = bytes[c + i]
    BY DEF Caught
  <2>2. ASSUME NEW i \in 1 .. Len(f), i <= Buffered PROVE i \in 1 .. Buffered
    BY <1>1, <1>7, <2>2
  <2> QED BY <1>8, <2>1, <2>2
<1>10. At(0) = f[1] /\ At(1) = f[2]
  <2>1. At(1 - 1) = f[1] /\ At(2 - 1) = f[2]
    <3>1. 1 \in 1 .. Len(f) /\ 2 \in 1 .. Len(f) /\ 1 <= Buffered /\ 2 <= Buffered
      BY <1>1, <1>6, <1>7
    <3> QED BY <3>1, <1>9
  <2> QED BY <2>1
<1> QED BY <1>3, <1>5, <1>6, <1>9, <1>10

(* Steps that move none of what the invariant is about.                    *)
LEMMA StreamStays ==
  ASSUME SafeInv, Streamed, UNCHANGED <<stream, wire, sent>>, lost' = 0 => lost = 0,
         InFlight' = InFlight
  PROVE  Streamed'
<1>1. PICK bytes, cuts : LaidOut(bytes, cuts) /\ (lost = 0 => Caught(bytes, cuts))
  BY DEF Streamed
<1>2. LaidOut(bytes, cuts)'
  BY <1>1 DEF LaidOut
<1>3. \A i : At(i)' = At(i)
  BY DEF At, stream
<1>4. Buffered' = Buffered
  BY DEF Buffered, stream
<1>5. ASSUME lost' = 0 PROVE Caught(bytes, cuts)'
  BY <1>1, <1>3, <1>4, <1>5 DEF Caught, stream
<1> QED BY <1>2, <1>5 DEF Streamed

(* Facts about the cells that each of the moving steps needs.              *)
LEMMA Cells ==
  ASSUME SafeInv
  PROVE  /\ wr \in Index /\ rd \in Index /\ Buffered \in Index /\ Buffered \in Nat
         /\ Buffered = Ahead(wr, rd)
         /\ \A i \in Index : At(i) = ring[On(rd, i)]
         /\ wire \in Seq(Nat) /\ reply.data \in Seq(Nat) /\ Len(<<>>) = 0
         /\ Len(wire) \in Nat /\ Len(got) \in Nat /\ Len(sent) \in Nat /\ lost \in Nat
         /\ want \in Nat /\ want <= CHUNK /\ Len(reply.data) \in Nat
<1>1. want \in Nat /\ want <= CHUNK
  BY Sizes DEF SafeInv, TypeOK
<1>2. Buffered \in Index /\ Buffered \in Nat
  BY Bytes, Sizes DEF SafeInv, Index
<1>3. wr \in Index /\ rd \in Index /\ Buffered = Ahead(wr, rd)
      /\ \A i \in Index : At(i) = ring[On(rd, i)]
  BY Bytes DEF SafeInv
<1>4. /\ wire \in Seq(Nat) /\ reply.data \in Seq(Nat) /\ got \in Seq(Seq(Nat))
      /\ sent \in Seq(Frames) /\ lost \in Nat
  BY DEF SafeInv, TypeOK
<1> QED BY <1>1, <1>2, <1>3, <1>4

(* Where the console stands in the stream.                                 *)
LEMMA Standing ==
  ASSUME SafeInv, NEW bytes, NEW cuts, LaidOut(bytes, cuts), Len(got) <= Len(sent)
  PROVE  /\ cuts[Len(got) + 1] \in Nat
         /\ Len(got) < Len(sent) =>
              cuts[Len(got) + 1 + 1] = cuts[Len(got) + 1] + Len(sent[Len(got) + 1])
<1>1. Len(got) + 1 \in 1 .. Len(sent) + 1
  BY Cells
<1>2. Len(got) < Len(sent) => Len(got) + 1 \in 1 .. Len(sent)
  BY Cells
<1> QED BY <1>1, <1>2 DEF LaidOut

(* The bytes of a READ move from FN_RX to the end of the ring.             *)
LEMMA ReadLands ==
  ASSUME SafeInv, ReadAnswered
  PROVE  LET k == Len(reply.data)
             B == Buffered
         IN /\ k \in Nat /\ B \in Nat /\ Buffered' = B + k
            /\ \A i \in 1 .. B + k :
                 At(i - 1)' = IF i <= B THEN At(i - 1) ELSE reply.data[i - B]
<1> DEFINE k == Len(reply.data)
           B == Buffered
<1>1. k \in Nat /\ B \in Nat /\ B + k < RING
  <2>1. want \in Nat /\ want <= CHUNK /\ k \in Nat /\ B \in Nat
    BY Cells
  <2>2. k <= want /\ B + CHUNK < RING
    BY DEF ReadAnswered, SafeInv, Mail, Room, Acked
  <2> QED BY <2>1, <2>2, Sizes
<1>2. wr' = On(wr, k) /\ rd' = rd /\ wire' = wire /\ got' = got /\ slips' = slips /\ sent' = sent
  BY DEF ReadAnswered, On
<1>3. Buffered' = B + k
  <2>1. Ahead(On(wr, k), rd) = B + k
    BY <1>1, Cells, Written
  <2> QED BY <2>1, <1>2 DEF Buffered, Ahead
<1>4. ASSUME NEW i \in 1 .. B + k
      PROVE  At(i - 1)' = IF i <= B THEN At(i - 1) ELSE reply.data[i - B]
  <2>1. i - 1 \in Index /\ i \in Nat
    BY <1>1, <1>4, Sizes DEF Index
  <2>2. On(rd, i - 1) \in Index
    BY <2>1, Cells, SlotOf
  <2>3. At(i - 1)' = ring'[On(rd, i - 1)]
    BY <1>2 DEF At, On
  <2>4. ring'[On(rd, i - 1)] = IF Ahead(On(rd, i - 1), wr) < k
                               THEN reply.data[Ahead(On(rd, i - 1), wr) + 1]
                               ELSE ring[On(rd, i - 1)]
    BY <2>2 DEF ReadAnswered, Ahead, Index
  <2>5. CASE i <= B
    <3>1. Ahead(On(rd, i - 1), wr) = i - 1 - B + RING
      BY <2>1, <2>5, <1>1, Cells, SlotOf
    <3>2. ~(Ahead(On(rd, i - 1), wr) < k)
      BY <3>1, <2>1, <1>1, Sizes
    <3> QED BY <3>2, <2>1, <2>3, <2>4, <2>5, Cells
  <2>6. CASE i > B
    <3>1. Ahead(On(rd, i - 1), wr) = i - 1 - B
      BY <2>1, <2>6, <1>1, Cells, SlotOf
    <3>2. Ahead(On(rd, i - 1), wr) < k /\ Ahead(On(rd, i - 1), wr) + 1 = i - B
      BY <3>1, <2>1, <1>1, <1>4
    <3> QED BY <3>2, <2>3, <2>4, <2>6, <1>1, <2>1
  <2> QED BY <2>5, <2>6, <2>1, <1>1
<1> QED BY <1>1, <1>3, <1>4

LEMMA StreamReadAnswered == ASSUME SafeInv, Streamed, ReadAnswered PROVE Streamed'
<1>1. PICK bytes, cuts : LaidOut(bytes, cuts) /\ (lost = 0 => Caught(bytes, cuts))
  BY DEF Streamed
<1>2. LaidOut(bytes, cuts)'
  BY <1>1 DEF LaidOut, ReadAnswered
<1> DEFINE k == Len(reply.data)
           B == Buffered
           c == cuts[Len(got) + 1]
<1>3. k \in Nat /\ B \in Nat /\ Buffered' = B + k
  BY ReadLands
<1>4. wire' = wire /\ got' = got /\ slips' = slips /\ sent' = sent
  BY DEF ReadAnswered
<1>5. InFlight = reply.data /\ InFlight' = <<>>
  BY DEF InFlight, ReadAnswered, Acked
<1>6. \A i \in 1 .. B + k : At(i - 1)' = IF i <= B THEN At(i - 1) ELSE reply.data[i - B]
  BY ReadLands
<1>7. ASSUME lost' = 0 PROVE Caught(bytes, cuts)'
  <2>1. Caught(bytes, cuts) /\ c \in Nat
    <3>1. Caught(bytes, cuts)
      BY <1>1, <1>7 DEF ReadAnswered
    <3> QED BY <3>1, <1>1, Standing DEF Caught
  <2>2. Len(bytes) = c + (B + k) + 0 + Len(wire)
    BY <2>1, <1>3, <1>5, Cells DEF Caught
  <2>3. ASSUME NEW i \in 1 .. B + k PROVE At(i - 1)' = bytes[c + i]
    <3>1. CASE i <= B
      BY <3>1, <1>3, <1>6, <2>1 DEF Caught
    <3>2. CASE i > B
      <4>1. i - B \in 1 .. k /\ c + B + (i - B) = c + i
        BY <3>2, <2>1, <1>3
      <4>2. reply.data[i - B] = bytes[c + B + (i - B)]
        BY <4>1, <2>1, <1>5 DEF Caught
      <4> QED BY <4>1, <4>2, <3>2, <1>3, <1>6
    <3> QED BY <3>1, <3>2, <1>3
  <2>4. ASSUME NEW i \in 1 .. Len(wire) PROVE wire[i] = bytes[c + (B + k) + 0 + i]
    <3>1. wire[i] = bytes[c + B + k + i]
      BY <2>1, <1>5 DEF Caught
    <3>2. c + B + k + i = c + (B + k) + 0 + i
      BY <2>1, <1>3
    <3> QED BY <3>1, <3>2
  <2>5. Len(InFlight') = 0
    BY <1>5
  <2>6. /\ slips = 0 /\ Len(got) <= Len(sent) /\ \A i \in 1 .. Len(got) : got[i] = sent[i]
        /\ InFlight' = <<>>
    BY <2>1, <1>5 DEF Caught
  <2> HIDE DEF k, B, c
  <2> QED BY <2>2, <2>3, <2>4, <2>5, <2>6, <1>3, <1>4, <1>5 DEF Caught, c
<1> QED BY <1>2, <1>7 DEF Streamed

(* A frame at the front of the ring is the next one sent.                  *)
LEMMA StreamCut == ASSUME SafeInv, Streamed, Cut PROVE Streamed'
<1>1. PICK bytes, cuts : LaidOut(bytes, cuts) /\ (lost = 0 => Caught(bytes, cuts))
  BY DEF Streamed
<1>2. LaidOut(bytes, cuts)'
  BY <1>1 DEF LaidOut, Cut
<1>3. ASSUME lost' = 0 PROVE Caught(bytes, cuts)'
  <2> DEFINE f == sent[Len(got) + 1]
             c == cuts[Len(got) + 1]
             n == At(0) + 1
             g == Len(got)
  <2>1. Caught(bytes, cuts)
    BY <1>1, <1>3 DEF Cut
  <2>2. /\ g < Len(sent) /\ f \in Seq(Nat) /\ Len(f) = n
        /\ \A i \in 1 .. Len(f) : i <= Buffered => At(i - 1) = f[i]
    BY <1>1, <2>1, FrontFrame DEF Cut
  <2>3. /\ n \in Nat /\ n <= Buffered /\ CutOut \in Seq(Nat) /\ Len(CutOut) = n
        /\ rd' = On(rd, n)
    BY CutOutFacts DEF SafeInv
  <2>4. got' = Append(got, CutOut) /\ got \in Seq(Seq(Nat))
    BY DEF Cut, CutOut, SafeInv, TypeOK
  <2>5. CutOut = f
    <3>1. \A i \in 1 .. n : CutOut[i] = At(i - 1)
      BY DEF CutOut
    <3> HIDE DEF f, n
    <3>2. \A i \in 1 .. n : CutOut[i] = f[i]
      BY <3>1, <2>2, <2>3, Cells
    <3> QED BY <3>2, <2>2, <2>3
  <2>6. /\ Len(got') = g + 1 /\ got'[g + 1] = f /\ \A i \in 1 .. g : got'[i] = got[i]
    BY <2>3, <2>4, <2>5, Cells
  <2>7. g + 1 \in 1 .. Len(sent) /\ c \in Nat /\ cuts[g + 1 + 1] = c + n
    <3>1. g + 1 \in 1 .. Len(sent)
      BY <2>2, Cells
    <3> QED BY <1>1, <2>2, <3>1, Standing
  <2>8. Buffered' = Buffered - n /\ wr' = wr
    <3>1. Ahead(wr, On(rd, n)) = Buffered - n
      BY <2>3, Cells, Consumed
    <3> QED BY <3>1, <2>3 DEF Cut, Buffered, Ahead
  <2>9. InFlight = <<>> /\ InFlight' = <<>> /\ wire' = wire /\ slips' = slips /\ sent' = sent
    BY DEF Cut, InFlight
  <2>10. ASSUME NEW i \in 1 .. Buffered - n PROVE At(i - 1)' = bytes[c + n + i]
    <3> HIDE DEF n, c
    <3>1. n \in Nat /\ Buffered \in Nat /\ Buffered < RING /\ i \in Nat /\ 1 <= i /\ i <= Buffered - n
      BY <2>3, Cells, Sizes DEF Index
    <3>2. On(On(rd, n), i - 1) = On(rd, n + i - 1)
      <4>1. n + (i - 1) < RING /\ i - 1 \in Nat /\ n + (i - 1) = n + i - 1
        BY <3>1, Sizes
      <4>2. On(On(rd, n), i - 1) = On(rd, n + (i - 1))
        BY <3>1, <4>1, Cells, OnOn
      <4> QED BY <4>1, <4>2
    <3>3. At(i - 1)' = ring[On(On(rd, n), i - 1)]
      BY <2>3 DEF Cut, At, On
    <3>4. At(n + i - 1) = bytes[c + (n + i)]
      <4>1. n + i \in 1 .. Buffered
        BY <3>1
      <4>2. \A j \in 1 .. Buffered : At(j - 1) = bytes[c + j]
        BY <2>1 DEF Caught, c
      <4>3. (n + i) - 1 = n + i - 1
        BY <3>1
      <4> QED BY <4>1, <4>2, <4>3
    <3>5. At(n + i - 1) = ring[On(rd, n + i - 1)]
      <4>1. n + i - 1 \in Index
        BY <3>1, Sizes DEF Index
      <4> QED BY <4>1, Cells
    <3>6. c + (n + i) = c + n + i
      BY <2>3, <2>7
    <3> QED BY <3>2, <3>3, <3>4, <3>5, <3>6
  <2>11. ASSUME NEW i \in 1 .. Len(wire)
         PROVE  wire[i] = bytes[(c + n) + (Buffered - n) + 0 + i]
    <3>1. wire[i] = bytes[c + Buffered + 0 + i]
      BY <2>1, <2>9, Cells DEF Caught
    <3>2. c + Buffered + 0 + i = (c + n) + (Buffered - n) + 0 + i
      <4>1. c \in Nat /\ n \in Nat /\ Buffered \in Nat /\ i \in Nat
        BY <2>3, <2>7, Cells
      <4> HIDE DEF c, n
      <4> QED BY <4>1
    <3> QED BY <3>1, <3>2
  <2>12. Len(bytes) = (c + n) + (Buffered - n) + 0 + Len(wire)
    BY <2>1, <2>3, <2>7, <2>9, Cells DEF Caught
  <2>13. slips' = 0 /\ Len(got') <= Len(sent') /\ \A i \in 1 .. Len(got') : got'[i] = sent'[i]
    <3>1. \A i \in 1 .. g + 1 : got'[i] = sent[i]
      <4> g \in Nat
        BY Cells
      <4> HIDE DEF g
      <4>1. ASSUME NEW i \in 1 .. g + 1 PROVE i \in 1 .. g \/ i = g + 1
        OBVIOUS
      <4>2. \A i \in 1 .. g : got'[i] = sent[i]
        BY <2>1, <2>6 DEF Caught, g
      <4>3. got'[g + 1] = sent[g + 1]
        BY <2>6 DEF g
      <4> QED BY <4>1, <4>2, <4>3
    <3> QED BY <3>1, <2>1, <2>6, <2>7, <2>9 DEF Caught
  <2>14. cuts[Len(got') + 1] = c + n /\ Len(InFlight') = 0
    BY <2>6, <2>7, <2>9
  <2> HIDE DEF f, c, n, g
  <2> QED BY <2>8, <2>9, <2>10, <2>11, <2>12, <2>13, <2>14 DEF Caught
<1> QED BY <1>2, <1>3 DEF Streamed

(* As long as nothing was lost a byte is never dropped.                    *)
LEMMA StreamSlip == ASSUME SafeInv, Streamed, Slip PROVE Streamed'
<1>1. PICK bytes, cuts : LaidOut(bytes, cuts) /\ (lost = 0 => Caught(bytes, cuts))
  BY DEF Streamed
<1>2. LaidOut(bytes, cuts)' /\ lost' = lost
  BY <1>1 DEF LaidOut, Slip
<1>3. lost # 0
  BY <1>1, FrontFrame DEF Slip
<1> QED BY <1>2, <1>3 DEF Streamed

(* The stream with a frame behind it.                                      *)
Appended(bytes, f, more) ==
  /\ more \in Seq(Nat) /\ Len(more) = Len(bytes) + Len(f)
  /\ \A i \in 1 .. Len(bytes) : more[i] = bytes[i]
  /\ \A i \in 1 .. Len(f) : more[Len(bytes) + i] = f[i]

Extended(bytes, cuts, f, more, marks) ==
  /\ Appended(bytes, f, more)
  /\ marks \in Seq(Nat) /\ Len(marks) = Len(cuts) + 1 /\ marks[Len(cuts) + 1] = Len(more)
  /\ \A i \in 1 .. Len(cuts) : marks[i] = cuts[i]

(* There is such a stream.                                                 *)
LEMMA Extension ==
  ASSUME NEW bytes \in Seq(Nat), NEW cuts \in Seq(Nat), NEW f \in Seq(Nat)
  PROVE  \E more, marks : Extended(bytes, cuts, f, more, marks)
<1> DEFINE more  == bytes \o f
           marks == Append(cuts, Len(more))
<1>1. Len(bytes) \in Nat /\ Len(f) \in Nat /\ Len(cuts) \in Nat
  OBVIOUS
<1>2. /\ more \in Seq(Nat) /\ Len(more) = Len(bytes) + Len(f)
      /\ \A i \in 1 .. Len(bytes) : more[i] = bytes[i]
      /\ \A i \in 1 .. Len(f) : more[Len(bytes) + i] = f[i]
  <2>1. /\ more \in Seq(Nat) /\ Len(more) = Len(bytes) + Len(f)
        /\ \A i \in 1 .. Len(bytes) + Len(f) :
             more[i] = IF i <= Len(bytes) THEN bytes[i] ELSE f[i - Len(bytes)]
    BY ConcatProperties
  <2>2. ASSUME NEW i \in 1 .. Len(f) PROVE more[Len(bytes) + i] = f[i]
    <3>1. /\ Len(bytes) + i \in 1 .. Len(bytes) + Len(f) /\ ~(Len(bytes) + i <= Len(bytes))
          /\ Len(bytes) + i - Len(bytes) = i
      BY <1>1, <2>2
    <3> QED BY <2>1, <3>1
  <2>3. ASSUME NEW i \in 1 .. Len(bytes) PROVE more[i] = bytes[i]
    BY <2>1, <2>3, <1>1
  <2> QED BY <2>1, <2>2, <2>3
<1>3. Len(more) \in Nat
  BY <1>1, <1>2
<1> HIDE DEF more
<1>4. /\ marks \in Seq(Nat) /\ Len(marks) = Len(cuts) + 1 /\ marks[Len(cuts) + 1] = Len(more)
      /\ \A i \in 1 .. Len(cuts) : marks[i] = cuts[i]
  BY <1>1, <1>3
<1> HIDE DEF marks
<1>5. Extended(bytes, cuts, f, more, marks)
  BY <1>2, <1>4 DEF Extended, Appended
<1> QED BY <1>5

(* With the frame sent, that is how the stream is laid out.                *)
LEMMA LaidOutMore ==
  ASSUME SafeInv, NEW bytes, NEW cuts, LaidOut(bytes, cuts), NEW f \in Frames,
         sent' = Append(sent, f), NEW more, NEW marks, Extended(bytes, cuts, f, more, marks)
  PROVE  LaidOut(more, marks)'
<1> DEFINE N == Len(sent)
<1>1. f \in Seq(Nat) /\ Len(f) \in Nat
  BY FrameShape
<1>2. /\ bytes \in Seq(Nat) /\ cuts \in Seq(Nat) /\ Len(cuts) = N + 1 /\ N \in Nat
      /\ Len(bytes) \in Nat /\ cuts[N + 1] = Len(bytes) /\ sent \in Seq(Frames)
  BY Cells DEF LaidOut, SafeInv, TypeOK
<1>3. /\ more \in Seq(Nat) /\ Len(more) = Len(bytes) + Len(f)
      /\ \A i \in 1 .. Len(bytes) : more[i] = bytes[i]
      /\ \A i \in 1 .. Len(f) : more[Len(bytes) + i] = f[i]
  BY DEF Extended, Appended
<1>4. /\ marks \in Seq(Nat) /\ Len(marks) = N + 2 /\ marks[N + 2] = Len(more)
      /\ \A i \in 1 .. N + 1 : marks[i] = cuts[i]
  <2>1. Len(cuts) + 1 = N + 2
    BY <1>2
  <2> QED BY <2>1, <1>2 DEF Extended
<1>5. /\ Len(sent') = N + 1 /\ sent'[N + 1] = f /\ \A i \in 1 .. N : sent'[i] = sent[i]
  BY <1>2
<1>6. ASSUME NEW i \in 1 .. N
      PROVE  /\ sent[i] \in Seq(Nat) /\ Len(sent[i]) \in Nat
             /\ cuts[i] \in Nat /\ cuts[i + 1] = cuts[i] + Len(sent[i])
             /\ cuts[i + 1] <= Len(bytes) /\ i + 1 \in 1 .. N + 1
             /\ \A j \in 1 .. Len(sent[i]) : bytes[cuts[i] + j] = sent[i][j]
  <2>1. i \in 1 .. N + 1 /\ i + 1 \in 1 .. N + 1
    BY <1>2
  <2>2. sent[i] \in Frames
    BY <1>2
  <2>3. sent[i] \in Seq(Nat) /\ Len(sent[i]) \in Nat
    BY <2>2, FrameShape
  <2>4. cuts[i] \in Nat
    BY <2>1, <1>2
  <2> QED BY <2>1, <2>3, <2>4 DEF LaidOut
<1>7. LaidOut(more, marks)'
  <2>1. ASSUME NEW i \in 1 .. N + 1
        PROVE  /\ marks[i + 1] = marks[i] + Len(sent'[i])
               /\ \A j \in 1 .. Len(sent'[i]) : more[marks[i] + j] = sent'[i][j]
    <3>1. CASE i \in 1 .. N
      <4>1. marks[i] = cuts[i] /\ marks[i + 1] = cuts[i + 1] /\ sent'[i] = sent[i]
        <5>1. i \in 1 .. N + 1 /\ i + 1 \in 1 .. N + 1
          BY <1>2, <3>1
        <5> QED BY <5>1, <1>4, <1>5, <3>1
      <4>2. ASSUME NEW j \in 1 .. Len(sent[i]) PROVE more[cuts[i] + j] = sent[i][j]
        <5>1. cuts[i] + j \in 1 .. Len(bytes)
          <6>1. /\ cuts[i] \in Nat /\ Len(sent[i]) \in Nat
                /\ cuts[i] + Len(sent[i]) <= Len(bytes)
            BY <1>6, <3>1
          <6>2. ASSUME NEW a \in Nat, NEW n \in Nat, NEW m \in Nat, a + n <= m, j \in 1 .. n
                PROVE  a + j \in 1 .. m
            BY <6>2
          <6> QED BY <6>1, <6>2, <1>2
        <5> QED BY <5>1, <1>3, <1>6, <3>1
      <4> QED BY <4>1, <4>2, <1>6, <3>1
    <3>2. CASE i = N + 1
      <4>1. i \in 1 .. N + 1 /\ i + 1 = N + 2
        BY <1>2, <3>2
      <4>2. marks[i] = Len(bytes) /\ marks[i + 1] = Len(more) /\ sent'[i] = f
        BY <4>1, <1>2, <1>4, <1>5, <3>2
      <4> QED BY <4>2, <1>3
    <3> QED BY <3>1, <3>2, <1>2
  <2>2. ASSUME NEW i \in 1 .. N + 2 PROVE marks[i] <= Len(more)
    <3>1. CASE i \in 1 .. N + 1
      <4>1. marks[i] = cuts[i] /\ cuts[i] <= Len(bytes) /\ cuts[i] \in Nat
        BY <1>2, <1>4, <3>1 DEF LaidOut
      <4> QED BY <4>1, <1>1, <1>2, <1>3
    <3>2. CASE i = N + 2
      BY <3>2, <1>4, <1>3, <1>1, <1>2
    <3> QED BY <3>1, <3>2, <1>2
  <2>3. N + 1 + 1 = N + 2 /\ Len(sent') + 1 = N + 2
    BY <1>2, <1>5
  <2> QED BY <2>1, <2>2, <2>3, <1>3, <1>4, <1>5 DEF LaidOut
<1> QED BY <1>7

LEMMA StreamSend == ASSUME SafeInv, Streamed, Send PROVE Streamed'
<1>1. PICK bytes, cuts : LaidOut(bytes, cuts) /\ (lost = 0 => Caught(bytes, cuts))
  BY DEF Streamed
<1>2. PICK f \in Frames : sent' = Append(sent, f) /\ wire' = wire \o f
  BY DEF Send
<1> DEFINE N == Len(sent)
<1>3. f \in Seq(Nat) /\ Len(f) \in Nat
  BY FrameShape
<1>4. Len(bytes) \in Nat /\ N \in Nat /\ sent \in Seq(Frames)
  BY <1>1, Cells DEF LaidOut, SafeInv, TypeOK
<1>5. PICK more, marks : Extended(bytes, cuts, f, more, marks)
  BY <1>1, <1>3, Extension DEF LaidOut
<1>6. LaidOut(more, marks)'
  BY <1>1, <1>2, <1>5, LaidOutMore
<1>7. /\ more \in Seq(Nat) /\ Len(more) = Len(bytes) + Len(f)
      /\ \A i \in 1 .. Len(bytes) : more[i] = bytes[i]
      /\ \A i \in 1 .. Len(f) : more[Len(bytes) + i] = f[i]
      /\ \A i \in 1 .. N + 1 : marks[i] = cuts[i]
  BY <1>1, <1>5 DEF Extended, Appended, LaidOut
<1>8. Len(sent') = N + 1 /\ \A i \in 1 .. N : sent'[i] = sent[i]
  BY <1>2, <1>4
<1>9. ASSUME lost' = 0 PROVE Caught(more, marks)'
  <2> DEFINE g == Len(got)
             c == cuts[g + 1]
             B == Buffered
             k == Len(InFlight)
  <2>1. Caught(bytes, cuts) /\ g <= N
    BY <1>1, <1>9 DEF Send, Caught
  <2>2. /\ Buffered' = Buffered /\ InFlight' = InFlight /\ got' = got /\ slips' = slips
        /\ \A i : At(i)' = At(i)
    BY DEF Send, mailbox, stream, Buffered, InFlight, At
  <2>3. marks[g + 1] = c /\ c \in Nat
    <3>1. g + 1 \in 1 .. N + 1
      BY <2>1, <1>4, Cells
    <3> QED BY <3>1, <2>1, <1>1, <1>7, Standing
  <2>4. B \in Nat /\ k \in Nat /\ Len(wire) \in Nat /\ wire \in Seq(Nat) /\ g \in Nat
    BY Cells DEF InFlight
  <2>5. Len(bytes) = c + B + k + Len(wire)
    BY <2>1 DEF Caught
  <2>6. Len(wire') = Len(wire) + Len(f) /\ \A i \in 1 .. Len(wire) + Len(f) :
          wire'[i] = IF i <= Len(wire) THEN wire[i] ELSE f[i - Len(wire)]
    BY <1>2, <1>3, <2>4, ConcatProperties
  <2>7. slips = 0 /\ \A i \in 1 .. g : got[i] = sent[i]
    BY <2>1 DEF Caught
  <2>8. /\ \A i \in 1 .. B : At(i - 1) = bytes[c + i]
        /\ \A i \in 1 .. k : InFlight[i] = bytes[c + B + i]
        /\ \A i \in 1 .. Len(wire) : wire[i] = bytes[c + B + k + i]
    BY <2>1 DEF Caught
  <2> HIDE DEF g, c, B, k
  <2>9. \A i \in 1 .. B : At(i - 1) = more[c + i]
    <3>1. ASSUME NEW i \in 1 .. B PROVE c + i \in 1 .. Len(bytes)
      BY <2>3, <2>4, <2>5
    <3> QED BY <3>1, <2>8, <1>7
  <2>10. \A i \in 1 .. k : InFlight[i] = more[c + B + i]
    <3>1. ASSUME NEW i \in 1 .. k PROVE c + B + i \in 1 .. Len(bytes)
      BY <2>3, <2>4, <2>5
    <3> QED BY <3>1, <2>8, <1>7
  <2>11. ASSUME NEW i \in 1 .. Len(wire) + Len(f) PROVE wire'[i] = more[c + B + k + i]
    <3>1. CASE i <= Len(wire)
      <4>1. c + B + k + i \in 1 .. Len(bytes) /\ i \in 1 .. Len(wire)
        BY <3>1, <2>3, <2>4, <2>5
      <4> QED BY <4>1, <3>1, <2>6, <2>8, <1>7
    <3>2. CASE i > Len(wire)
      <4>1. i - Len(wire) \in 1 .. Len(f) /\ Len(bytes) + (i - Len(wire)) = c + B + k + i
        BY <3>2, <2>3, <2>4, <2>5, <1>3
      <4>2. wire'[i] = f[i - Len(wire)]
        BY <3>2, <2>4, <2>6
      <4> QED BY <4>1, <4>2, <1>7
    <3> QED BY <3>1, <3>2, <2>4, <1>3
  <2>12. \A i \in 1 .. g : got[i] = sent'[i]
    <3>1. g <= N /\ g \in Nat
      BY <2>1, <2>4 DEF g
    <3>2. \A i \in 1 .. g : i \in 1 .. N
      BY <3>1, <1>4
    <3> QED BY <2>7, <3>2, <1>8
  <2>13. g <= N + 1
    BY <2>1, <2>4, <1>4 DEF g
  <2>14. Len(more) = c + B + k + Len(wire')
    <3>1. Len(wire') = Len(wire) + Len(f) /\ Len(more) = Len(bytes) + Len(f)
      BY <2>6, <1>7
    <3> QED BY <3>1, <2>3, <2>4, <2>5, <1>3
  <2> QED
    BY <2>2, <2>3, <2>6, <2>7, <2>9, <2>10, <2>11, <2>12, <2>13, <2>14, <1>8
    DEF Caught, g, B, k
<1> QED BY <1>9, <1>6 DEF Streamed

(* A READ that is polled for is handed over in FN_RX.                      *)
LEMMA Handed ==
  ASSUME SafeInv, Finish
  PROVE  /\ InFlight = <<>> /\ Len(wire') = Len(wire) - Taken
         /\ \A i \in 1 .. Len(wire) - Taken : wire'[i] = wire[Taken + i]
         /\ pc # "read" => InFlight' = <<>>
         /\ Taken = 0 \/ pc = "read" =>
              Len(InFlight') = Taken /\ \A i \in 1 .. Taken : InFlight'[i] = wire[i]
<1>1. TypeOK /\ Taken \in 0 .. Len(wire)
  BY TakenRange DEF SafeInv
<1>2. InFlight = <<>>
  BY <1>1, FinishGives DEF InFlight, SafeInv, Mail
<1>3. /\ Len(wire') = Len(wire) - Taken /\ \A i \in 1 .. Len(wire) - Taken : wire'[i] = wire[Taken + i]
      /\ Len(SubSeq(wire, 1, Taken)) = Taken /\ \A i \in 1 .. Taken : SubSeq(wire, 1, Taken)[i] = wire[i]
  BY <1>1, FinishGives, TakenBytes
<1>4. CASE pc = "read"
  <2>1. InFlight' = SubSeq(wire, 1, Taken)
    BY <1>4, <1>1, FinishGives DEF InFlight
  <2> QED BY <2>1, <1>2, <1>3, <1>4
<1>5. CASE pc # "read"
  <2>1. InFlight' = <<>> /\ Len(<<>>) = 0
    BY <1>5, <1>1, FinishGives DEF InFlight
  <2>2. Taken = 0 => \A i \in 1 .. Taken : InFlight'[i] = wire[i]
    OBVIOUS
  <2> QED BY <2>1, <2>2, <1>2, <1>3, <1>5
<1> QED BY <1>4, <1>5

(* What the adapter takes off its stream is in FN_RX, or it is lost.       *)
LEMMA StreamFinish == ASSUME SafeInv, Streamed, Finish PROVE Streamed'
<1>1. PICK bytes, cuts : LaidOut(bytes, cuts) /\ (lost = 0 => Caught(bytes, cuts))
  BY DEF Streamed
<1>2. LaidOut(bytes, cuts)'
  BY <1>1 DEF LaidOut, Finish
<1>3. TypeOK /\ Taken \in 0 .. Len(wire)
  BY TakenRange DEF SafeInv
<1>4. /\ Buffered' = Buffered /\ got' = got /\ slips' = slips /\ sent' = sent
      /\ \A i : At(i)' = At(i)
  BY DEF Finish, stream, Buffered, At
<1> DEFINE k == Taken
           c == cuts[Len(got) + 1]
           B == Buffered
<1>5. InFlight = <<>>
  BY Handed
<1>6. Len(wire') = Len(wire) - k /\ \A i \in 1 .. Len(wire) - k : wire'[i] = wire[k + i]
  BY Handed
<1>7. ASSUME lost' = 0 PROVE Caught(bytes, cuts)'
  <2>1. Caught(bytes, cuts) /\ (k = 0 \/ pc = "read")
    BY <1>1, <1>3, <1>7, FinishGives
  <2>2. /\ Len(InFlight') = k /\ \A i \in 1 .. k : InFlight'[i] = wire[i]
    BY <2>1, Handed
  <2>3. c \in Nat
    BY <1>1, <2>1, Standing DEF Caught
  <2>4. /\ slips = 0 /\ Len(got) <= Len(sent) /\ \A i \in 1 .. Len(got) : got[i] = sent[i]
        /\ \A i \in 1 .. B : At(i - 1) = bytes[c + i]
    BY <2>1 DEF Caught
  <2>5. /\ Len(bytes) = c + B + 0 + Len(wire)
        /\ \A i \in 1 .. Len(wire) : wire[i] = bytes[c + B + 0 + i]
    BY <2>1, <1>5 DEF Caught
  <2>6. B \in Nat /\ k \in Nat /\ k <= Len(wire) /\ Len(wire) \in Nat
    BY Cells, <1>3
  <2> HIDE DEF k, c, B
  <2>7. Len(bytes) = c + B + k + (Len(wire) - k)
    BY <2>3, <2>5, <2>6
  <2>8. ASSUME NEW i \in 1 .. k PROVE InFlight'[i] = bytes[c + B + i]
    <3>1. i \in 1 .. Len(wire) /\ c + B + 0 + i = c + B + i
      BY <2>3, <2>6
    <3> QED BY <3>1, <2>2, <2>5
  <2>9. ASSUME NEW i \in 1 .. Len(wire) - k PROVE wire'[i] = bytes[c + B + k + i]
    <3>1. k + i \in 1 .. Len(wire) /\ c + B + 0 + (k + i) = c + B + k + i
      BY <2>3, <2>6
    <3>2. wire[k + i] = bytes[c + B + 0 + (k + i)]
      BY <3>1, <2>5
    <3> QED BY <3>1, <3>2, <1>6 DEF k
  <2> QED BY <2>2, <2>4, <2>7, <2>8, <2>9, <1>4, <1>6 DEF Caught, k, c, B
<1> QED BY <1>2, <1>7 DEF Streamed

(* The other steps move no byte.                                           *)
LEMMA Still ==
  ASSUME SafeInv,
         \/ StartPump \/ StatusAnswered \/ NothingToRead \/ PumpDone \/ Act \/ WriteAnswered
         \/ GiveUp \/ Fetch \/ Refuse
  PROVE  UNCHANGED <<stream, wire, sent, lost>> /\ InFlight' = InFlight
<1> USE DEF mailbox
<1>1. CASE StatusAnswered
  <2>1. PICK n : Stage("READ", Clamp(n)) /\ UNCHANGED <<wire, stream, sent, lost>>
    BY <1>1 DEF StatusAnswered
  <2>2. seq' # ack' /\ pc = "status"
    BY <1>1, <2>1, StageOpens DEF SafeInv, StatusAnswered
  <2> QED BY <2>1, <2>2 DEF InFlight
<1>2. CASE StartPump \/ NothingToRead \/ PumpDone \/ WriteAnswered
  <2>1. UNCHANGED <<wire, stream, sent, lost>> /\ pc # "read" /\ pc' # "read"
    BY <1>2 DEF StartPump, NothingToRead, PumpDone, WriteAnswered
  <2> QED BY <2>1 DEF InFlight
<1>3. CASE Act
  <2>1. UNCHANGED <<wire, stream, sent, lost>> /\ pc # "read" /\ pc' # "read"
    BY <1>3 DEF Act
  <2> QED BY <2>1 DEF InFlight
<1>4. CASE GiveUp
  <2>1. UNCHANGED <<wire, stream, sent, lost>> /\ ack # seq /\ pc' # "read"
    BY <1>4 DEF GiveUp
  <2> QED BY <2>1 DEF InFlight
<1>5. CASE Fetch
  <2>1. UNCHANGED <<wire, stream, sent, lost>> /\ UNCHANGED <<pc, ack, seq, reply>>
    BY <1>5 DEF Fetch
  <2> QED BY <2>1 DEF InFlight
<1>6. CASE Refuse
  <2>1. UNCHANGED <<wire, stream, sent, lost>> /\ reply'.data = <<>> /\ ack # seq
    BY <1>6 DEF Refuse, SafeInv, Mail
  <2> QED BY <2>1 DEF InFlight
<1> QED BY <1>1, <1>2, <1>3, <1>4, <1>5, <1>6

LEMMA StreamRest ==
  ASSUME SafeInv, Streamed,
         \/ StartPump \/ StatusAnswered \/ NothingToRead \/ PumpDone \/ Act \/ WriteAnswered
         \/ GiveUp \/ Fetch \/ Refuse
  PROVE  Streamed'
BY Still, StreamStays

LEMMA StreamInit == Init => Streamed
<1> SUFFICES ASSUME Init PROVE Streamed
  OBVIOUS
<1>1. LaidOut(<<>>, <<0>>)
  BY DEF Init, LaidOut
<1>2. Buffered = 0
  BY OneTurn, Sizes DEF Init, Buffered
<1>3. Caught(<<>>, <<0>>)
  BY <1>2 DEF Init, Caught, InFlight
<1> QED BY <1>1, <1>3 DEF Streamed

LEMMA StreamNext == StreamInv /\ [Next]_vars => StreamInv'
<1>1. SafeInv /\ [Next]_vars => SafeInv'
  BY SafeNext
<1>2. StreamInv /\ UNCHANGED vars => Streamed'
  <2>1. UNCHANGED vars => UNCHANGED <<wire, stream, sent, lost>> /\ InFlight' = InFlight
    BY DEF vars, stream, mailbox, InFlight
  <2> QED BY <2>1, StreamStays DEF StreamInv
<1>3. StreamInv /\ Next => Streamed'
  <2> SUFFICES ASSUME StreamInv, Next PROVE Streamed'
    OBVIOUS
  <2>1. SafeInv /\ Streamed /\ SafeInv'
    BY <1>1 DEF StreamInv
  <2> QED
    BY <2>1, StreamReadAnswered, StreamCut, StreamSlip, StreamSend, StreamFinish, StreamRest
    DEF Next, Console, Adapter
<1> QED BY <1>1, <1>2, <1>3 DEF StreamInv

LEMMA StreamReachable == Spec => []StreamInv
<1>1. Init => StreamInv
  BY SafeInit, StreamInit DEF StreamInv
<1> QED BY <1>1, StreamNext, PTL DEF Spec

(* However the server's frames are cut into READs and whatever commands    *)
(* time out or are refused: as long as no READ was swallowed SES_ONFRAME   *)
(* has been given the first frames sent, whole and in order, and SES_PUMP  *)
(* has dropped no byte.                                                    *)
THEOREM FramesAreExact == Spec => []FramesExact
<1>1. StreamInv => FramesExact
  <2> SUFFICES ASSUME StreamInv, lost = 0
               PROVE  slips = 0 /\ got = SubSeq(sent, 1, Len(got))
    BY DEF FramesExact
  <2>1. PICK bytes, cuts : Caught(bytes, cuts)
    BY DEF StreamInv, Streamed
  <2>2. /\ slips = 0 /\ Len(got) <= Len(sent) /\ \A i \in 1 .. Len(got) : got[i] = sent[i]
    BY <2>1 DEF Caught
  <2>3. got \in Seq(Seq(Nat)) /\ sent \in Seq(Frames) /\ Len(got) \in Nat /\ Len(sent) \in Nat
    BY DEF StreamInv, SafeInv, TypeOK
  <2> DEFINE first == SubSeq(sent, 1, Len(got))
  <2>4. /\ first \in Seq(Frames) /\ Len(first) = Len(got)
        /\ \A i \in 1 .. Len(got) : first[i] = sent[i]
    <3>1. \A i \in 1 .. Len(got) : sent[i] \in Frames
      BY <2>2, <2>3
    <3>2. /\ first \in Seq(Frames) /\ Len(first) = (IF 1 <= Len(got) THEN Len(got) - 1 + 1 ELSE 0)
          /\ \A i \in 1 .. Len(got) - 1 + 1 : first[i] = sent[1 + i - 1]
      BY <3>1, <2>3, SubSeqProperties
    <3>3. \A i \in 1 .. Len(got) : i \in 1 .. Len(got) - 1 + 1 /\ 1 + i - 1 = i
      BY <2>3
    <3> QED BY <3>2, <3>3, <2>3
  <2> HIDE DEF first
  <2>5. got = first
    <3>1. /\ got \in [1 .. Len(got) -> Seq(Nat)] /\ first \in [1 .. Len(got) -> Frames]
          /\ \A i \in 1 .. Len(got) : got[i] = first[i]
      BY <2>2, <2>3, <2>4
    <3> QED BY <3>1
  <2> QED BY <2>2, <2>5 DEF first
<1> QED BY StreamReachable, <1>1, PTL

-----------------------------------------------------------------------------
(* After a READ was swallowed                                              *)

(* The bytes that are still to be parsed, in the ring, in FN_RX and in the *)
(* adapter.                                                                *)
Depth   == Buffered + Len(InFlight) + Len(wire)
Byte(i) == IF i <= Buffered THEN At(i - 1)
           ELSE IF i <= Buffered + Len(InFlight) THEN InFlight[i - Buffered]
           ELSE wire[i - Buffered - Len(InFlight)]
Line    == [i \in 1 .. Depth |-> Byte(i)]

LEMMA LineCells ==
  ASSUME SafeInv
  PROVE  /\ Buffered \in Nat /\ Len(InFlight) \in Nat
         /\ wire \in Seq(Nat) /\ Len(wire) \in Nat
         /\ Buffered + Len(InFlight) \in Nat /\ Depth \in Nat /\ Buffered <= Depth
<1>1. Buffered \in Nat /\ wire \in Seq(Nat) /\ Len(wire) \in Nat
  BY Cells
<1>2. Len(InFlight) \in Nat
  <2>1. reply.data \in Seq(Nat)
    BY Cells
  <2> QED BY <2>1 DEF InFlight
<1> QED BY <1>1, <1>2 DEF Depth

(* The n bytes of q are bytes of the stream: byte i is the one at pos[i],  *)
(* and age[i] READs were swallowed before it.  Between two bytes of one    *)
(* age nothing is missing.  What is to come is byte n + 1.                 *)
Placed(q, n, bytes, pos, age) ==
  /\ n \in Nat /\ pos \in [1 .. n + 1 -> Nat] /\ age \in [1 .. n + 1 -> Nat]
  /\ \A i \in 1 .. n : pos[i] \in 1 .. Len(bytes) /\ q[i] = bytes[pos[i]]
  /\ pos[n + 1] = Len(bytes) + 1
  /\ \A i, j \in 1 .. n + 1 : i <= j =>
       age[i] <= age[j] /\ (age[i] = age[j] => pos[j] = pos[i] + (j - i))

(* Every byte of the stream belongs to a frame.                            *)
Located(bytes, cuts) ==
  \A p \in 1 .. Len(bytes) : \E i \in 1 .. Len(sent) : \E j \in 1 .. Len(sent[i]) :
    p = cuts[i] + j

(* A torn frame has cost one of the swallowed READs that the parser has    *)
(* gone past.                                                              *)
Aged(bytes, cuts, pos, age) ==
  /\ Placed(Line, Depth, bytes, pos, age)
  /\ age[Depth + 1] <= lost
  /\ AllPlain => Cardinality(Torn) <= age[1]

Patched == \E bytes, cuts, pos, age :
  LaidOut(bytes, cuts) /\ Located(bytes, cuts) /\ Aged(bytes, cuts, pos, age)

(* r is q without its first k bytes, q without the k behind the first b,   *)
(* q with f behind it.                                                     *)
Behind(r, q, n, k)    == \A i \in 1 .. n - k : r[i] = q[k + i]
Around(r, q, n, b, k) == \A i \in 1 .. n - k : r[i] = IF i <= b THEN q[i] ELSE q[i + k]
Longer(r, q, n, f, w) == \A i \in 1 .. n + w : r[i] = IF i <= n THEN q[i] ELSE f[i - n]

(* The front of the line goes.                                             *)
LEMMA PlacedDrop ==
  ASSUME NEW q, NEW n, NEW bytes \in Seq(Nat), NEW pos, NEW age, Placed(q, n, bytes, pos, age),
         NEW k \in 0 .. n, NEW r, Behind(r, q, n, k)
  PROVE  \E p, a : Placed(r, n - k, bytes, p, a) /\ a[1] = age[k + 1] /\ a[n - k + 1] = age[n + 1]
<1> DEFINE p == [i \in 1 .. n - k + 1 |-> pos[k + i]]
           a == [i \in 1 .. n - k + 1 |-> age[k + i]]
<1>1. /\ n \in Nat /\ k \in Nat /\ n - k \in Nat /\ Len(bytes) \in Nat
      /\ pos \in [1 .. n + 1 -> Nat] /\ age \in [1 .. n + 1 -> Nat]
  BY DEF Placed
<1>2. \A i \in 1 .. n - k + 1 : k + i \in 1 .. n + 1
  BY <1>1
<1>3. p \in [1 .. n - k + 1 -> Nat] /\ a \in [1 .. n - k + 1 -> Nat]
  BY <1>1, <1>2
<1>4. \A i \in 1 .. n - k + 1 : p[i] = pos[k + i] /\ a[i] = age[k + i]
  OBVIOUS
<1> HIDE DEF p, a
<1>5. ASSUME NEW i \in 1 .. n - k PROVE p[i] \in 1 .. Len(bytes) /\ r[i] = bytes[p[i]]
  <2>1. k + i \in 1 .. n /\ i \in 1 .. n - k + 1
    BY <1>1
  <2> QED BY <2>1, <1>4 DEF Placed, Behind
<1>6. p[n - k + 1] = Len(bytes) + 1 /\ a[1] = age[k + 1] /\ a[n - k + 1] = age[n + 1]
  <2>1. n - k + 1 \in 1 .. n - k + 1 /\ 1 \in 1 .. n - k + 1 /\ k + (n - k + 1) = n + 1
    BY <1>1
  <2> QED BY <2>1, <1>4 DEF Placed
<1>7. ASSUME NEW i \in 1 .. n - k + 1, NEW j \in 1 .. n - k + 1, i <= j
      PROVE  a[i] <= a[j] /\ (a[i] = a[j] => p[j] = p[i] + (j - i))
  <2>1. k + i \in 1 .. n + 1 /\ k + j \in 1 .. n + 1 /\ k + i <= k + j
        /\ (k + j) - (k + i) = j - i
    BY <1>1, <1>2, <1>7
  <2>2. /\ age[k + i] <= age[k + j]
        /\ age[k + i] = age[k + j] => pos[k + j] = pos[k + i] + ((k + j) - (k + i))
    BY <2>1 DEF Placed
  <2> QED BY <2>1, <2>2, <1>4
<1>8. Placed(r, n - k, bytes, p, a)
  BY <1>1, <1>3, <1>5, <1>6, <1>7 DEF Placed
<1> QED BY <1>6, <1>8

(* k bytes behind the first b are swallowed: those behind them are older   *)
(* by one READ.                                                            *)
LEMMA PlacedGap ==
  ASSUME NEW q, NEW n, NEW bytes \in Seq(Nat), NEW pos, NEW age, Placed(q, n, bytes, pos, age),
         NEW b \in Nat, NEW k \in Nat, b + k <= n,
         NEW r, Around(r, q, n, b, k)
  PROVE  \E p, a : /\ Placed(r, n - k, bytes, p, a)
                    /\ a[1] >= age[1] /\ a[n - k + 1] = age[n + 1] + 1
<1> DEFINE p == [i \in 1 .. n - k + 1 |-> IF i <= b THEN pos[i] ELSE pos[i + k]]
           a == [i \in 1 .. n - k + 1 |-> IF i <= b THEN age[i] ELSE age[i + k] + 1]
<1>1. /\ n \in Nat /\ n - k \in Nat /\ Len(bytes) \in Nat
      /\ pos \in [1 .. n + 1 -> Nat] /\ age \in [1 .. n + 1 -> Nat]
  BY DEF Placed
<1>2. \A i \in 1 .. n - k + 1 : i \in 1 .. n + 1 /\ i + k \in 1 .. n + 1
  BY <1>1
<1>3. p \in [1 .. n - k + 1 -> Nat] /\ a \in [1 .. n - k + 1 -> Nat]
  <2>1. ASSUME NEW i \in 1 .. n - k + 1 PROVE pos[i] \in Nat /\ pos[i + k] \in Nat
                                              /\ age[i] \in Nat /\ age[i + k] + 1 \in Nat
    BY <1>1, <1>2
  <2> QED BY <2>1
<1>4. \A i \in 1 .. n - k + 1 : /\ i <= b => p[i] = pos[i] /\ a[i] = age[i]
                                /\ ~(i <= b) => p[i] = pos[i + k] /\ a[i] = age[i + k] + 1
  OBVIOUS
<1> HIDE DEF p, a
<1>5. ASSUME NEW i \in 1 .. n - k PROVE p[i] \in 1 .. Len(bytes) /\ r[i] = bytes[p[i]]
  <2>1. i \in 1 .. n /\ i + k \in 1 .. n /\ i \in 1 .. n - k + 1
    BY <1>1
  <2>2. /\ pos[i] \in 1 .. Len(bytes) /\ q[i] = bytes[pos[i]]
        /\ pos[i + k] \in 1 .. Len(bytes) /\ q[i + k] = bytes[pos[i + k]]
    BY <2>1 DEF Placed
  <2> QED BY <2>1, <2>2, <1>4 DEF Around
<1>6. p[n - k + 1] = Len(bytes) + 1 /\ a[n - k + 1] = age[n + 1] + 1
  <2>1. n - k + 1 \in 1 .. n - k + 1 /\ ~(n - k + 1 <= b) /\ (n - k + 1) + k = n + 1
    BY <1>1
  <2> QED BY <2>1, <1>4 DEF Placed
<1>7. ASSUME NEW i \in 1 .. n - k + 1, NEW j \in 1 .. n - k + 1, i <= j
      PROVE  a[i] <= a[j] /\ (a[i] = a[j] => p[j] = p[i] + (j - i))
  <2>0. \A x, y \in 1 .. n + 1 : x <= y =>
          age[x] <= age[y] /\ (age[x] = age[y] => pos[y] = pos[x] + (y - x))
    BY DEF Placed
  <2>1. i \in Nat /\ j \in Nat
    BY <1>1
  <2>2. CASE j <= b
    <3>1. i <= b /\ i \in 1 .. n + 1 /\ j \in 1 .. n + 1
      BY <1>1, <1>2, <1>7, <2>1, <2>2
    <3> QED BY <3>1, <2>0, <2>2, <1>4, <1>7
  <2>3. CASE i <= b /\ ~(j <= b)
    <3>1. i \in 1 .. n + 1 /\ j + k \in 1 .. n + 1 /\ i <= j + k
      BY <1>2, <1>7, <2>1
    <3>2. age[i] <= age[j + k] /\ age[i] \in Nat /\ age[j + k] \in Nat
      BY <3>1, <2>0, <1>1
    <3>3. a[i] = age[i] /\ a[j] = age[j + k] + 1
      BY <2>3, <1>4
    <3> QED BY <3>2, <3>3
  <2>4. CASE ~(i <= b) /\ ~(j <= b)
    <3>1. i + k \in 1 .. n + 1 /\ j + k \in 1 .. n + 1 /\ i + k <= j + k
          /\ (j + k) - (i + k) = j - i
      BY <1>2, <1>7, <2>1
    <3>2. /\ age[i + k] <= age[j + k] /\ age[i + k] \in Nat /\ age[j + k] \in Nat
          /\ age[i + k] = age[j + k] => pos[j + k] = pos[i + k] + (j - i)
      BY <3>1, <2>0, <1>1
    <3>3. a[i] = age[i + k] + 1 /\ a[j] = age[j + k] + 1 /\ p[i] = pos[i + k] /\ p[j] = pos[j + k]
      BY <2>4, <1>4
    <3> QED BY <3>2, <3>3
  <2> QED BY <2>1, <2>2, <2>3, <2>4, <1>7
<1>8. a[1] >= age[1]
  <2>1. 1 \in 1 .. n - k + 1 /\ 1 \in 1 .. n + 1 /\ 1 + k \in 1 .. n + 1 /\ 1 <= 1 + k
    BY <1>1
  <2>2. age[1] <= age[1 + k] /\ age[1] \in Nat /\ age[1 + k] \in Nat
    BY <2>1, <1>1 DEF Placed
  <2>3. a[1] = age[1] \/ a[1] = age[1 + k] + 1
    BY <2>1, <1>4
  <2> QED BY <2>2, <2>3
<1>9. Placed(r, n - k, bytes, p, a)
  BY <1>1, <1>3, <1>5, <1>6, <1>7 DEF Placed
<1> QED BY <1>6, <1>8, <1>9

(* From x to y it is as far as from i to j.                                *)
Apart(x, i, y, j) == y = x + (j - i)

LEMMA ApartTransitive ==
  ASSUME NEW x \in Nat, NEW y \in Nat, NEW z \in Nat, NEW i \in Nat, NEW j \in Nat, NEW k \in Nat,
         Apart(x, i, y, j), Apart(y, j, z, k)
  PROVE  Apart(x, i, z, k)
BY DEF Apart

LEMMA ApartShift ==
  ASSUME NEW x \in Nat, NEW i \in Nat, NEW t \in Nat, NEW z, Apart(x + 1, i + 1, z, i + t)
  PROVE  z = x + t
BY DEF Apart

(* The stream and the line grow by a frame.                                *)
LEMMA PlacedMore ==
  ASSUME NEW q, NEW n \in Nat, NEW bytes \in Seq(Nat), NEW pos, NEW age,
         Placed(q, n, bytes, pos, age),
         NEW f, NEW w \in Nat, w = Len(f), NEW more, Appended(bytes, f, more),
         NEW m, m = n + w, NEW r, Longer(r, q, n, f, w)
  PROVE  \E p, a : Placed(r, m, more, p, a) /\ a[1] = age[1] /\ a[m + 1] = age[n + 1]
<1>1. PICK L \in Nat : L = Len(bytes)
  OBVIOUS
<1>2. PICK M : M = Len(more) /\ M = L + w
  BY <1>1 DEF Appended
<1> DEFINE p == [i \in 1 .. m + 1 |-> IF i <= n THEN pos[i] ELSE pos[n + 1] + (i - (n + 1))]
           a == [i \in 1 .. m + 1 |-> IF i <= n THEN age[i] ELSE age[n + 1]]
<1>3. /\ n \in Nat /\ L \in Nat /\ w \in Nat /\ m \in Nat /\ n <= m
      /\ M = L + w /\ m = n + w
      /\ pos \in [1 .. n + 1 -> Nat] /\ age \in [1 .. n + 1 -> Nat]
  BY <1>2 DEF Placed
<1>4. /\ \A i \in 1 .. L : more[i] = bytes[i]
      /\ \A i \in 1 .. w : more[L + i] = f[i]
      /\ \A i \in 1 .. m : r[i] = IF i <= n THEN q[i] ELSE f[i - n]
  BY <1>1 DEF Longer, Appended
<1>5. pos[n + 1] = L + 1
  BY <1>1 DEF Placed
<1>6. p \in [1 .. m + 1 -> Nat] /\ a \in [1 .. m + 1 -> Nat]
  <2>1. age[n + 1] \in Nat
    BY <1>3
  <2>2. ASSUME NEW i \in 1 .. m + 1 PROVE /\ i <= n => pos[i] \in Nat /\ age[i] \in Nat
                                          /\ ~(i <= n) => pos[n + 1] + (i - (n + 1)) \in Nat
    BY <1>3, <1>5
  <2> QED BY <2>1, <2>2
<1>7. \A i \in 1 .. m + 1 : i <= n => p[i] = pos[i] /\ a[i] = age[i]
  OBVIOUS
<1>8. \A i \in 1 .. m + 1 : ~(i <= n) => Apart(pos[n + 1], n + 1, p[i], i)
  BY DEF Apart
<1>9. \A i \in 1 .. m + 1 : ~(i <= n) => a[i] = age[n + 1]
  OBVIOUS
<1> HIDE DEF p, a
<1>10. ASSUME NEW i \in 1 .. m PROVE p[i] \in 1 .. M /\ r[i] = more[p[i]]
  <2>0. i \in 1 .. m + 1 /\ i \in Nat
    BY <1>3
  <2>1. CASE i <= n
    <3>1. i \in 1 .. n
      BY <2>0, <2>1, <1>10
    <3>2. pos[i] \in 1 .. L /\ q[i] = bytes[pos[i]]
      BY <3>1, <1>1 DEF Placed
    <3>3. p[i] = pos[i] /\ r[i] = q[i]
      BY <2>0, <2>1, <1>4, <1>7
    <3>4. pos[i] \in 1 .. M
      <4>1. L \in Nat /\ M = L + w
        BY <1>3
      <4>2. L <= M /\ M \in Nat
        BY <4>1
      <4> QED BY <3>2, <4>1, <4>2
    <3>5. more[pos[i]] = bytes[pos[i]]
      BY <3>2, <1>4
    <3> QED BY <3>2, <3>3, <3>4, <3>5
  <2>2. CASE ~(i <= n)
    <3>1. PICK t : t = i - n
      OBVIOUS
    <3>2. t \in 1 .. w /\ t \in Nat /\ i = n + t /\ L + t \in 1 .. M
      BY <2>0, <2>2, <3>1, <1>3
    <3>3. r[i] = f[t]
      BY <2>2, <3>1, <1>4
    <3>4. Apart(L + 1, n + 1, p[i], n + t)
      BY <2>0, <2>2, <3>2, <1>5, <1>8
    <3>5. p[i] = L + t
      BY <3>2, <3>4, <1>3, ApartShift
    <3> QED BY <3>2, <3>3, <3>5, <1>4
  <2> QED BY <2>1, <2>2
<1>11. p[m + 1] = M + 1 /\ a[m + 1] = age[n + 1]
  <2>1. m + 1 \in 1 .. m + 1 /\ ~(m + 1 <= n)
    BY <1>3
  <2>2. (L + 1) + ((m + 1) - (n + 1)) = M + 1
    BY <1>3
  <2>3. p[m + 1] = (L + 1) + ((m + 1) - (n + 1))
    BY <2>1, <1>5, <1>8 DEF Apart
  <2>4. a[m + 1] = age[n + 1]
    BY <2>1, <1>9
  <2> QED BY <2>2, <2>3, <2>4
<1>12. a[1] = age[1]
  <2>1. 1 \in 1 .. m + 1 /\ (1 <= n \/ n + 1 = 1)
    BY <1>3
  <2>2. CASE 1 <= n
    BY <2>1, <2>2, <1>7
  <2>3. CASE ~(1 <= n)
    <3>1. n + 1 = 1
      BY <2>1, <2>3
    <3> QED BY <3>1, <2>1, <2>3, <1>9
  <2> QED BY <2>2, <2>3
<1>13. ASSUME NEW i \in 1 .. m + 1, NEW j \in 1 .. m + 1, i <= j
      PROVE  a[i] <= a[j] /\ (a[i] = a[j] => p[j] = p[i] + (j - i))
  <2>0. \A x, y \in 1 .. n + 1 : x <= y =>
          age[x] <= age[y] /\ (age[x] = age[y] => pos[y] = pos[x] + (y - x))
    BY DEF Placed
  <2>1. i \in Nat /\ j \in Nat
    BY <1>3
  <2>2. CASE j <= n
    <3>1. i <= n /\ i \in 1 .. n + 1 /\ j \in 1 .. n + 1
      <4>1. i <= j /\ 1 <= i /\ 1 <= j
        BY <1>3, <1>13
      <4> QED BY <4>1, <2>1, <2>2
    <3>2. a[i] = age[i] /\ a[j] = age[j] /\ p[i] = pos[i] /\ p[j] = pos[j]
      BY <3>1, <2>2, <1>7
    <3>3. age[i] <= age[j] /\ (age[i] = age[j] => pos[j] = pos[i] + (j - i))
      BY <3>1, <2>0, <1>13
    <3> QED BY <3>2, <3>3
  <2>3. CASE i <= n /\ ~(j <= n)
    <3>1. i \in 1 .. n + 1 /\ n + 1 \in 1 .. n + 1 /\ i <= n + 1
      BY <1>3, <2>1, <2>3
    <3>2. /\ age[i] <= age[n + 1]
          /\ age[i] = age[n + 1] => pos[n + 1] = pos[i] + ((n + 1) - i)
      BY <3>1, <2>0
    <3>3. a[i] = age[i] /\ p[i] = pos[i]
      BY <2>3, <1>7
    <3>6. a[j] = age[n + 1]
      BY <2>3, <1>9
    <3>4. pos[i] \in Nat /\ pos[n + 1] \in Nat /\ p[j] \in Nat /\ n + 1 \in Nat
      <4>1. p[j] \in Nat
        BY <1>6
      <4>2. pos[i] \in Nat /\ pos[n + 1] \in Nat
        BY <3>1, <1>3
      <4> QED BY <4>1, <4>2
    <3>5. ASSUME age[i] = age[n + 1] PROVE Apart(pos[i], i, p[j], j)
      <4>1. Apart(pos[i], i, pos[n + 1], n + 1)
        BY <3>2, <3>5 DEF Apart
      <4>2. Apart(pos[n + 1], n + 1, p[j], j)
        BY <2>3, <1>8
      <4> QED BY <4>1, <4>2, <3>4, <2>1, ApartTransitive
    <3>8. a[i] <= a[j]
      BY <3>2, <3>3, <3>6
    <3>9. a[i] = a[j] => p[j] = p[i] + (j - i)
      BY <3>3, <3>5, <3>6 DEF Apart
    <3> QED BY <3>8, <3>9
  <2>4. CASE ~(i <= n) /\ ~(j <= n)
    <3>1. a[i] = age[n + 1] /\ a[j] = age[n + 1]
      BY <2>4, <1>9
    <3>2. age[n + 1] \in Nat
      BY <1>3
    <3>3. p[i] = (L + 1) + (i - (n + 1)) /\ p[j] = (L + 1) + (j - (n + 1))
      BY <2>4, <1>5, <1>8 DEF Apart
    <3>4. p[j] = p[i] + (j - i)
      BY <3>3, <1>3, <2>1
    <3> QED BY <3>1, <3>2, <3>4
  <2> QED BY <2>1, <2>2, <2>3, <2>4, <1>3, <1>13
<1>14. Placed(r, m, more, p, a)
  BY <1>3, <1>6, <1>10, <1>11, <1>13, <1>2 DEF Placed
<1> QED BY <1>11, <1>12, <1>14

(* Two frames one behind the other.                                        *)
LEMMA Front ==
  ASSUME NEW s \in Seq(Nat), NEW t \in Seq(Nat)
  PROVE  /\ \A i \in 1 .. Len(s) : (s \o t)[i] = s[i]
         /\ Len(t) >= 1 => (s \o t)[Len(s) + 1] = t[1]
<1>1. /\ Len(s) \in Nat /\ Len(t) \in Nat
      /\ \A i \in 1 .. Len(s) + Len(t) : (s \o t)[i] = IF i <= Len(s) THEN s[i] ELSE t[i - Len(s)]
  BY ConcatProperties
<1>2. ASSUME NEW i \in 1 .. Len(s) PROVE (s \o t)[i] = s[i]
  <2>1. i \in 1 .. Len(s) + Len(t) /\ i <= Len(s)
    BY <1>1
  <2> QED BY <2>1, <1>1
<1>3. ASSUME Len(t) >= 1 PROVE (s \o t)[Len(s) + 1] = t[1]
  <2>1. Len(s) + 1 \in 1 .. Len(s) + Len(t) /\ ~(Len(s) + 1 <= Len(s))
    BY <1>1, <1>3
  <2>2. (Len(s) + 1) - Len(s) = 1
    BY <1>1
  <2> QED BY <2>1, <2>2, <1>1
<1> QED BY <1>2, <1>3

(* Where the next frame in the ring is not one of the server's, a READ was *)
(* swallowed inside it: read from the start of a frame without a gap it    *)
(* would be that frame, and read from anywhere else it has no header.      *)
LEMMA TornSpans ==
  ASSUME SafeInv, NEW bytes, NEW cuts, LaidOut(bytes, cuts), Located(bytes, cuts),
         NEW pos, NEW age, Placed(Line, Depth, bytes, pos, age), AllPlain, Cut,
         age[At(0) + 1] = age[1]
  PROVE  CutOut \in Frames
<1> DEFINE n == At(0) + 1
<1>1. /\ At(0) \in Nat /\ At(0) >= 1 /\ n <= Buffered /\ n \in Nat /\ n >= 2
      /\ CutOut \in Seq(Nat) /\ Len(CutOut) = n
  BY CutOutFacts DEF SafeInv
<1>2. Buffered \in Nat /\ Depth \in Nat /\ Buffered <= Depth
  BY LineCells
<1>3. \A i \in 1 .. Buffered : i \in 1 .. Depth /\ Line[i] = At(i - 1)
  <2>1. \A i \in 1 .. Buffered : i \in 1 .. Depth
    BY <1>2
  <2>2. \A i \in 1 .. Buffered : i <= Buffered
    BY <1>2
  <2> QED BY <2>1, <2>2 DEF Line, Byte
<1>4. \A i \in 1 .. n : i \in 1 .. Buffered /\ CutOut[i] = At(i - 1)
  BY <1>1, <1>2 DEF CutOut
<1> HIDE DEF n
<1>5. ASSUME NEW i \in 1 .. n
      PROVE  /\ pos[i] = pos[1] + (i - 1) /\ pos[i] \in 1 .. Len(bytes)
             /\ At(i - 1) = bytes[pos[i]]
  <2>1. /\ 1 \in 1 .. Depth + 1 /\ i \in 1 .. Depth + 1 /\ n \in 1 .. Depth + 1
        /\ 1 <= i /\ i <= n /\ i \in Nat
    BY <1>1, <1>2
  <2>2. age[1] <= age[i] /\ age[i] <= age[n]
    BY <2>1 DEF Placed
  <2>3. age[1] \in Nat /\ age[i] \in Nat /\ age[n] \in Nat /\ age[n] = age[1]
    BY <2>1 DEF Placed, n
  <2>4. age[1] = age[i]
    BY <2>2, <2>3
  <2>5. pos[i] = pos[1] + (i - 1)
    BY <2>1, <2>4 DEF Placed
  <2>6. i \in 1 .. Depth /\ Line[i] = At(i - 1)
    BY <1>3, <1>4
  <2> QED BY <2>5, <2>6 DEF Placed
<1>6. 1 \in 1 .. n /\ 2 \in 1 .. n
  BY <1>1
<1>7. pos[1] \in 1 .. Len(bytes) /\ pos[1] \in Nat
      /\ At(0) = bytes[pos[1]]
  <2>1. At(1 - 1) = bytes[pos[1]] /\ pos[1] \in 1 .. Len(bytes)
    BY <1>5, <1>6
  <2> QED BY <2>1
<1>8. pos[2] = pos[1] + 1 /\ pos[2] <= Len(bytes) /\ At(1) = bytes[pos[1] + 1]
  <2>1. At(2 - 1) = bytes[pos[2]] /\ pos[2] \in 1 .. Len(bytes) /\ pos[2] = pos[1] + (2 - 1)
    BY <1>5, <1>6
  <2> QED BY <2>1, <1>7
<1>9. PICK k \in 1 .. Len(sent) : \E j \in 1 .. Len(sent[k]) : pos[1] = cuts[k] + j
  BY <1>7 DEF Located
<1>10. PICK j \in 1 .. Len(sent[k]) : pos[1] = cuts[k] + j
  BY <1>9
<1>f. PICK f : f = sent[k]
  OBVIOUS
<1>11. /\ Len(sent) \in Nat /\ k \in 1 .. Len(sent) + 1 /\ k + 1 \in 1 .. Len(sent) + 1
       /\ f \in Frames /\ f \in Plain
  <2>1. Len(sent) \in Nat
    BY Cells
  <2>2. sent[k] \in Frames
    BY DEF SafeInv, TypeOK
  <2> QED BY <2>1, <2>2, <1>f DEF AllPlain
<1>12. /\ cuts[k] \in Nat /\ cuts[k + 1] = cuts[k] + Len(f)
       /\ \A i \in 1 .. Len(f) : bytes[cuts[k] + i] = f[i]
  <2>1. /\ cuts[k + 1] = cuts[k] + Len(f)
        /\ \A i \in 1 .. Len(f) : bytes[cuts[k] + i] = f[i]
    BY <1>f DEF LaidOut
  <2>2. cuts \in Seq(Nat) /\ k \in 1 .. Len(cuts)
    BY <1>11 DEF LaidOut
  <2> QED BY <2>1, <2>2
<1>13. f \in Seq(Nat) /\ Len(f) = f[1] + 1 /\ Len(f) >= 2 /\ Len(f) \in Nat
  BY <1>11, FrameShape
<1>14. CASE j = 1
  <2>1. At(0) = f[1] /\ n = Len(f)
    <3>1. bytes[cuts[k] + 1] = f[1]
      <4>1. 1 \in 1 .. Len(f)
        BY <1>13
      <4> QED BY <4>1, <1>12
    <3> QED BY <3>1, <1>7, <1>10, <1>13, <1>14 DEF n
  <2>2. ASSUME NEW i \in 1 .. n PROVE CutOut[i] = f[i]
    <3>1. pos[i] = cuts[k] + i
      BY <1>5, <1>10, <1>12, <1>14
    <3> QED BY <3>1, <2>1, <1>4, <1>5, <1>12
  <2>3. CutOut = f
    <3>1. CutOut \in Seq(Nat) /\ f \in Seq(Nat) /\ Len(CutOut) = n /\ Len(f) = n
      BY <2>1, <1>1, <1>13
    <3>2. \A i \in 1 .. Len(CutOut) : CutOut[i] = f[i]
      BY <3>1, <2>2
    <3> QED BY <3>1, <3>2, SeqEqual
  <2> QED BY <2>3, <1>11
<1>15. CASE j \in 2 .. Len(f)
  <2>1. \A g \in Frames : ~Header((f \o g)[j], (f \o g)[j + 1])
    BY <1>11, <1>15 DEF Plain
  <2>2. Header(At(0), At(1))
    BY DEF Cut
  <2>3. At(0) = f[j]
    BY <1>7, <1>10, <1>12, <1>f
  <2>4. ASSUME NEW g \in Frames
        PROVE  \E h : /\ h = f \o g /\ h[Len(f) + 1] = g[1]
                      /\ \A i \in 1 .. Len(f) : h[i] = f[i]
                      /\ ~Header(h[j], h[j + 1])
    <3>1. g \in Seq(Nat) /\ Len(g) >= 1
      BY FrameShape
    <3>2. (f \o g)[Len(f) + 1] = g[1]
      BY <3>1, <1>13, Front
    <3>3. \A i \in 1 .. Len(f) : (f \o g)[i] = f[i]
      BY <3>1, <1>13, Front
    <3> QED BY <3>2, <3>3, <2>1
  <2>5. CASE j < Len(f)
    <3>1. PICK h : /\ \A i \in 1 .. Len(f) : h[i] = f[i]
                   /\ ~Header(h[j], h[j + 1])
      BY <2>4, <1>11
    <3>2. j \in 1 .. Len(f) /\ j + 1 \in 1 .. Len(f)
      BY <2>5, <1>13, <1>15
    <3>5. pos[1] + 1 = cuts[k] + (j + 1)
      <4>1. cuts[k] \in Nat /\ j \in Nat
        BY <3>2, <1>12
      <4> QED BY <4>1, <1>10
    <3>3. At(1) = f[j + 1]
      BY <3>2, <3>5, <1>8, <1>12
    <3>4. h[j] = At(0) /\ h[j + 1] = At(1)
      BY <3>1, <3>2, <3>3, <2>3
    <3> QED BY <3>1, <3>4, <2>2
  <2>6. CASE j = Len(f)
    <3>1. cuts[k + 1] + 1 = pos[1] + 1 /\ cuts[k + 1] + 1 <= Len(bytes)
      BY <2>6, <1>8, <1>10, <1>12
    <3>2. k + 1 \in 1 .. Len(sent)
      <4>1. cuts[Len(sent) + 1] = Len(bytes) /\ Len(bytes) \in Nat
        BY DEF LaidOut
      <4>2. k # Len(sent)
        BY <4>1, <3>1, <1>12, <1>13
      <4> QED BY <4>2, <1>11
    <3>3. PICK g : g = sent[k + 1]
      OBVIOUS
    <3>4. g \in Frames
      BY <3>2, <3>3 DEF SafeInv, TypeOK
    <3>5. At(1) = g[1]
      <4>1. 1 \in 1 .. Len(g)
        BY <3>4, FrameShape
      <4>2. bytes[cuts[k + 1] + 1] = g[1]
        BY <4>1, <3>2, <3>3 DEF LaidOut
      <4> QED BY <4>2, <3>1, <1>8
    <3>6. PICK h : /\ h[Len(f) + 1] = g[1] /\ \A i \in 1 .. Len(f) : h[i] = f[i]
                   /\ ~Header(h[j], h[j + 1])
      BY <3>4, <2>4
    <3>7. h[j] = At(0) /\ h[j + 1] = At(1)
      <4>1. j \in 1 .. Len(f)
        BY <2>6, <1>13
      <4>2. h[j] = f[j]
        BY <4>1, <3>6
      <4>3. h[j + 1] = g[1]
        BY <3>6, <2>6
      <4> QED BY <4>2, <4>3, <3>5, <2>3
    <3> QED BY <3>6, <3>7, <2>2
  <2> QED BY <2>5, <2>6, <1>13, <1>15
<1> QED BY <1>14, <1>15, <1>13, <1>f

(* The torn frames are finitely many.                                      *)
LEMMA TornFacts ==
  ASSUME SafeInv
  PROVE  /\ Len(got) \in Nat /\ got \in Seq(Seq(Nat))
         /\ IsFiniteSet(Torn) /\ Cardinality(Torn) \in Nat
<1>1. Len(got) \in Nat /\ got \in Seq(Seq(Nat))
  BY DEF SafeInv, TypeOK
<1>2. IsFiniteSet(Torn)
  <2>1. IsFiniteSet(1 .. Len(got)) /\ Torn \in SUBSET (1 .. Len(got))
    BY <1>1, FS_Interval DEF Torn
  <2> QED BY <2>1, FS_Subset
<1> QED BY <1>1, <1>2, FS_CardinalityType

(* What the parser has cut out grows by at most one torn frame.            *)
LEMMA TornCount ==
  ASSUME SafeInv, Cut
  PROVE  /\ Cardinality(Torn') \in Nat /\ Cardinality(Torn') <= Cardinality(Torn) + 1
         /\ CutOut \in Frames => Cardinality(Torn') <= Cardinality(Torn)
<1>1. PICK x : x = CutOut
  OBVIOUS
<1>2. got' = Append(got, x) /\ x \in Seq(Nat)
  BY <1>1, CutOutFacts DEF Cut, CutOut, SafeInv
<1>3. /\ Len(got') = Len(got) + 1 /\ got'[Len(got) + 1] = x
      /\ \A i \in 1 .. Len(got) : got'[i] = got[i]
  BY <1>2, TornFacts
<1>4. Torn' \subseteq Torn \cup {Len(got) + 1}
  <2>1. ASSUME NEW i \in 1 .. Len(got) + 1, got'[i] \notin Frames
        PROVE  i \in Torn \/ i = Len(got) + 1
    <3>1. i \in 1 .. Len(got) \/ i = Len(got) + 1
      BY TornFacts
    <3> QED BY <2>1, <3>1, <1>3 DEF Torn
  <2> QED BY <2>1, <1>3 DEF Torn
<1>5. CutOut \in Frames => Torn' \subseteq Torn
  BY <1>1, <1>3, <1>4 DEF Torn
<1>6. /\ IsFiniteSet(Torn \cup {Len(got) + 1})
      /\ Cardinality(Torn \cup {Len(got) + 1}) <= Cardinality(Torn) + 1
      /\ Cardinality(Torn \cup {Len(got) + 1}) \in Nat
  <2>1. Cardinality(Torn \cup {Len(got) + 1}) =
          IF Len(got) + 1 \in Torn THEN Cardinality(Torn) ELSE Cardinality(Torn) + 1
    BY TornFacts, FS_AddElement
  <2>2. IsFiniteSet(Torn \cup {Len(got) + 1})
    BY TornFacts, FS_AddElement
  <2> QED BY <2>1, <2>2, TornFacts
<1>7. PICK T : T = Torn'
  OBVIOUS
<1>8. Cardinality(T) <= Cardinality(Torn \cup {Len(got) + 1}) /\ Cardinality(T) \in Nat
  <2>1. T \in SUBSET (Torn \cup {Len(got) + 1})
    BY <1>4, <1>7
  <2>2. IsFiniteSet(T) /\ Cardinality(T) <= Cardinality(Torn \cup {Len(got) + 1})
    BY <2>1, <1>6, FS_Subset
  <2> QED BY <2>2, FS_CardinalityType
<1>9. CutOut \in Frames => Cardinality(T) <= Cardinality(Torn)
  <2>1. CutOut \in Frames => T \in SUBSET Torn
    BY <1>5, <1>7
  <2> QED BY <2>1, TornFacts, FS_Subset
<1>10. Cardinality(Torn') = Cardinality(T)
  BY <1>7
<1>11. Cardinality(T) <= Cardinality(Torn) + 1
  BY <1>6, <1>8, TornFacts
<1> QED BY <1>8, <1>9, <1>10, <1>11

(* Steps that move no byte out of the line.                                *)
LEMMA PatchedStays ==
  ASSUME SafeInv, Patched, UNCHANGED <<sent, got>>, lost' \in Nat, lost' >= lost,
         Depth' = Depth, Line' = Line
  PROVE  Patched'
<1>1. PICK bytes, cuts, pos, age :
         LaidOut(bytes, cuts) /\ Located(bytes, cuts) /\ Aged(bytes, cuts, pos, age)
  BY DEF Patched
<1>2. LaidOut(bytes, cuts)' /\ Located(bytes, cuts)'
  BY <1>1 DEF LaidOut, Located
<1>3. Placed(Line, Depth, bytes, pos, age)'
  BY <1>1 DEF Aged, Placed
<1>4. age[Depth + 1] <= lost'
  <2>1. age[Depth + 1] \in Nat /\ age[Depth + 1] <= lost
    <3>1. Depth + 1 \in 1 .. Depth + 1
      BY <1>1 DEF Aged, Placed
    <3> QED BY <3>1, <1>1 DEF Aged, Placed
  <2>2. lost \in Nat
    BY Cells
  <2> QED BY <2>1, <2>2
<1>5. Torn' = Torn /\ AllPlain' = AllPlain
  BY DEF Torn, AllPlain
<1>6. Aged(bytes, cuts, pos, age)'
  BY <1>1, <1>3, <1>4, <1>5 DEF Aged
<1> QED BY <1>2, <1>6 DEF Patched

(* Bytes leave the ring at the front.                                      *)
LEMMA DropLine ==
  ASSUME SafeInv, NEW n \in Nat, n <= Buffered, rd' = On(rd, n), UNCHANGED <<ring, wr, wire>>,
         InFlight = <<>>, InFlight' = <<>>
  PROVE  /\ n \in 0 .. Depth /\ Depth' = Depth - n
         /\ \A i \in 1 .. Depth - n : Line'[i] = Line[n + i]
<1>1. Buffered' = Buffered - n
  <2>1. Ahead(wr, On(rd, n)) = Buffered - n
    BY Cells, Consumed
  <2> QED BY <2>1 DEF Buffered, Ahead
<1>2. /\ Buffered \in Nat /\ Len(wire) \in Nat /\ Buffered < RING /\ RING \in Nat
      /\ Len(InFlight) = 0 /\ Len(InFlight') = 0
  BY Cells, Sizes DEF Index
<1>3. /\ Depth = Buffered + Len(wire) /\ Depth' = Depth - n /\ n \in 0 .. Depth
  BY <1>1, <1>2 DEF Depth
<1>4. ASSUME NEW i \in 1 .. Depth - n PROVE Line'[i] = Line[n + i]
  <2>1. i \in 1 .. Depth' /\ n + i \in 1 .. Depth /\ i \in Nat
    BY <1>2, <1>3
  <2>2. Line'[i] = IF i <= Buffered - n THEN At(i - 1)' ELSE wire[i - (Buffered - n)]
    <3>1. Line'[i] = Byte(i)'
      BY <2>1 DEF Line
    <3>2. i - (Buffered - n) - 0 = i - (Buffered - n)
      BY <1>2
    <3>3. CASE i <= Buffered - n
      BY <3>1, <3>3, <1>1 DEF Byte
    <3>4. CASE ~(i <= Buffered - n)
      <4>1. ~(i <= (Buffered - n) + 0)
        BY <3>4, <1>2
      <4>2. Byte(i)' = wire'[i - (Buffered - n) - 0]
        BY <3>4, <4>1, <1>1, <1>2 DEF Byte
      <4> QED BY <3>1, <3>2, <3>4, <4>2
    <3> QED BY <3>3, <3>4
  <2>3. Line[n + i] = IF n + i <= Buffered THEN At((n + i) - 1) ELSE wire[(n + i) - Buffered]
    <3>1. Line[n + i] = Byte(n + i)
      BY <2>1 DEF Line
    <3>2. /\ (n + i) - Buffered - 0 = (n + i) - Buffered
          /\ n + i <= Buffered + 0 <=> n + i <= Buffered
      BY <1>2, <2>1
    <3> QED BY <3>1, <3>2, <1>2 DEF Byte
  <2>4. /\ i <= Buffered - n <=> n + i <= Buffered
        /\ i - (Buffered - n) = (n + i) - Buffered
    BY <1>2, <2>1
  <2>5. ASSUME i <= Buffered - n PROVE At(i - 1)' = At((n + i) - 1)
    <3>1. n + (i - 1) < RING /\ i - 1 \in Nat /\ n + (i - 1) = (n + i) - 1
          /\ (n + i) - 1 \in Index
      BY <1>2, <2>1, <2>5 DEF Index
    <3>2. On(On(rd, n), i - 1) = On(rd, n + (i - 1))
      BY <3>1, Cells, OnOn
    <3>3. At(i - 1)' = ring[On(On(rd, n), i - 1)]
      BY DEF At, On
    <3>4. At((n + i) - 1) = ring[On(rd, (n + i) - 1)]
      BY <3>1, Cells
    <3> QED BY <3>1, <3>2, <3>3, <3>4
  <2> QED BY <2>2, <2>3, <2>4, <2>5
<1> QED BY <1>3, <1>4

(* The stream and the frames sent are as they were.                        *)
LEMMA LocatedStays ==
  ASSUME NEW bytes, NEW cuts, LaidOut(bytes, cuts), Located(bytes, cuts), sent' = sent
  PROVE  LaidOut(bytes, cuts)' /\ Located(bytes, cuts)'
BY DEF LaidOut, Located

(* The age of the front of the line, and of what is to come.               *)
LEMMA Ages ==
  ASSUME NEW q, NEW n, NEW bytes, NEW pos, NEW age, Placed(q, n, bytes, pos, age)
  PROVE  /\ n \in Nat
         /\ \A i \in 1 .. n + 1 : age[i] \in Nat /\ age[1] <= age[i] /\ age[i] <= age[n + 1]
<1>1. n \in Nat /\ age \in [1 .. n + 1 -> Nat]
  BY DEF Placed
<1>2. ASSUME NEW i \in 1 .. n + 1
      PROVE  age[i] \in Nat /\ age[1] <= age[i] /\ age[i] <= age[n + 1]
  <2>1. 1 \in 1 .. n + 1 /\ n + 1 \in 1 .. n + 1 /\ 1 <= i /\ i <= n + 1
    BY <1>1
  <2> QED BY <1>1, <2>1 DEF Placed
<1> QED BY <1>1, <1>2

(* A frame is cut out.  If it is torn, the front of the line has aged.     *)
LEMMA PatchedCut == ASSUME SafeInv, Patched, Cut PROVE Patched'
<1>1. PICK bytes, cuts, pos, age :
         LaidOut(bytes, cuts) /\ Located(bytes, cuts) /\ Aged(bytes, cuts, pos, age)
  BY DEF Patched
<1>2. PICK n : n = At(0) + 1
  OBVIOUS
<1>3. n \in Nat /\ n <= Buffered /\ rd' = On(rd, n)
  BY <1>2, CutOutFacts DEF SafeInv
<1>4. /\ UNCHANGED <<ring, wr, wire>> /\ InFlight = <<>> /\ InFlight' = <<>>
      /\ lost' = lost /\ sent' = sent
  BY DEF Cut, InFlight
<1>5. /\ n \in 0 .. Depth /\ Depth' = Depth - n
      /\ \A i \in 1 .. Depth - n : Line'[i] = Line[n + i]
  BY <1>3, <1>4, DropLine
<1>6. PICK d : d = Depth'
  OBVIOUS
<1>7. PICK r : r = Line'
  OBVIOUS
<1>8. bytes \in Seq(Nat) /\ Placed(Line, Depth, bytes, pos, age)
  BY <1>1 DEF LaidOut, Aged
<1>9. PICK p, a : Placed(r, d, bytes, p, a) /\ a[1] = age[n + 1] /\ a[d + 1] = age[Depth + 1]
  <2>1. \A i \in 1 .. Depth - n : r[i] = Line[n + i]
    BY <1>5, <1>7
  <2>2. PICK q, m : q = Line /\ m = Depth
    OBVIOUS
  <2>3. /\ Placed(q, m, bytes, pos, age) /\ bytes \in Seq(Nat) /\ n \in 0 .. m /\ d = m - n
        /\ Behind(r, q, m, n)
    BY <1>5, <1>6, <1>8, <2>1, <2>2 DEF Behind
  <2>4. \E p, a : Placed(r, m - n, bytes, p, a) /\ a[1] = age[n + 1] /\ a[m - n + 1] = age[m + 1]
    BY <2>3, PlacedDrop
  <2> QED BY <2>2, <2>3, <2>4
<1>10. LaidOut(bytes, cuts)' /\ Located(bytes, cuts)'
  BY <1>1, <1>4, LocatedStays
<1>11. AllPlain' = AllPlain
  BY <1>4 DEF AllPlain
<1>12. a[d + 1] <= lost'
  BY <1>1, <1>4, <1>9 DEF Aged
<1>13. ASSUME AllPlain PROVE Cardinality(Torn') <= a[1]
  <2>1. PICK x : x = Cardinality(Torn)
    OBVIOUS
  <2>2. PICK y : y = Cardinality(Torn')
    OBVIOUS
  <2>3. x \in Nat /\ x <= age[1]
    BY <1>1, <1>13, <2>1, TornFacts DEF Aged
  <2>4. y \in Nat /\ y <= x + 1 /\ (CutOut \in Frames => y <= x)
    BY <2>1, <2>2, TornCount
  <2>5. /\ Depth \in Nat /\ n >= 1
    BY <1>2, <1>8, Ages, CutOutFacts DEF SafeInv
  <2>6. 1 \in 1 .. Depth + 1 /\ n \in 1 .. Depth + 1 /\ n + 1 \in 1 .. Depth + 1 /\ n <= n + 1
    BY <1>5, <2>5
  <2>7. PICK a1, an, am : a1 = age[1] /\ an = age[n] /\ am = age[n + 1]
    OBVIOUS
  <2>8. a1 \in Nat /\ an \in Nat /\ am \in Nat /\ a1 <= an
    BY <2>6, <2>7, <1>8, Ages
  <2>9. an <= am
    BY <2>6, <2>7, <1>8 DEF Placed
  <2>10. CutOut \in Frames \/ an # a1
    BY <2>7, <1>1, <1>2, <1>8, <1>13, TornSpans
  <2>11. y <= am
    BY <2>3, <2>4, <2>7, <2>8, <2>9, <2>10
  <2> QED BY <2>2, <2>7, <2>11, <1>9
<1>14. Aged(bytes, cuts, p, a)'
  BY <1>6, <1>7, <1>9, <1>11, <1>12, <1>13 DEF Aged, Placed
<1> QED BY <1>10, <1>14 DEF Patched

(* A byte is dropped: the front of the line can only have aged.            *)
LEMMA PatchedSlip == ASSUME SafeInv, Patched, Slip PROVE Patched'
<1>1. PICK bytes, cuts, pos, age :
         LaidOut(bytes, cuts) /\ Located(bytes, cuts) /\ Aged(bytes, cuts, pos, age)
  BY DEF Patched
<1>2. 1 \in Nat /\ 1 <= Buffered /\ rd' = On(rd, 1)
  BY Cells DEF Slip, On
<1>3. /\ UNCHANGED <<ring, wr, wire>> /\ InFlight = <<>> /\ InFlight' = <<>>
      /\ lost' = lost /\ sent' = sent /\ got' = got
  BY DEF Slip, InFlight
<1>4. PICK q, m, n : q = Line /\ m = Depth /\ n = 1
  OBVIOUS
<1>5. PICK r, d : r = Line' /\ d = Depth'
  OBVIOUS
<1>6. n \in 0 .. m /\ d = m - n /\ Behind(r, q, m, n)
  <2>1. /\ 1 \in 0 .. Depth /\ Depth' = Depth - 1
        /\ \A i \in 1 .. Depth - 1 : Line'[i] = Line[1 + i]
    BY <1>2, <1>3, DropLine
  <2> QED BY <2>1, <1>4, <1>5 DEF Behind
<1>7. bytes \in Seq(Nat) /\ Placed(q, m, bytes, pos, age)
  BY <1>1, <1>4 DEF LaidOut, Aged
<1>8. PICK p, a : Placed(r, m - n, bytes, p, a) /\ a[1] = age[n + 1] /\ a[m - n + 1] = age[m + 1]
  BY <1>6, <1>7, PlacedDrop
<1>9. LaidOut(bytes, cuts)' /\ Located(bytes, cuts)'
  BY <1>1, <1>3, LocatedStays
<1>10. AllPlain' = AllPlain /\ Torn' = Torn
  BY <1>3 DEF AllPlain, Torn
<1>11. a[d + 1] <= lost'
  BY <1>1, <1>3, <1>4, <1>6, <1>8 DEF Aged
<1>12. ASSUME AllPlain PROVE Cardinality(Torn) <= a[1]
  <2>1. PICK x : x = Cardinality(Torn)
    OBVIOUS
  <2>2. x \in Nat /\ x <= age[1]
    BY <1>1, <1>12, <2>1, TornFacts DEF Aged
  <2>3. n + 1 \in 1 .. m + 1 /\ 1 \in 1 .. m + 1
    BY <1>4, <1>6, <1>7, Ages
  <2>4. age[1] \in Nat /\ age[n + 1] \in Nat /\ age[1] <= age[n + 1]
    BY <2>3, <1>7, Ages
  <2>5. x <= age[n + 1]
    BY <2>2, <2>4
  <2> QED BY <2>1, <2>5, <1>8
<1>13. Aged(bytes, cuts, p, a)'
  BY <1>5, <1>6, <1>8, <1>10, <1>11, <1>12 DEF Aged, Placed
<1> QED BY <1>9, <1>13 DEF Patched

(* What FN_RX held is behind the ring's bytes now.                         *)
LEMMA PatchedReadAnswered == ASSUME SafeInv, Patched, ReadAnswered PROVE Patched'
<1> DEFINE k == Len(reply.data)
           B == Buffered
<1>1. InFlight = reply.data /\ InFlight' = <<>>
  BY DEF InFlight, ReadAnswered, Acked
<1>2. wire' = wire /\ UNCHANGED <<sent, got>> /\ lost' = lost
  BY DEF ReadAnswered
<1>3. /\ k \in Nat /\ B \in Nat /\ Buffered' = B + k
      /\ \A i \in 1 .. B + k : At(i - 1)' = IF i <= B THEN At(i - 1) ELSE reply.data[i - B]
  BY ReadLands
<1>4. Len(wire) \in Nat /\ lost \in Nat /\ Len(<<>>) = 0
  BY Cells
<1> HIDE DEF k, B
<1>5. Depth = B + k + Len(wire) /\ Depth' = B + k + Len(wire)
  <2>1. Depth' = B + k + 0 + Len(wire)
    BY <1>1, <1>2, <1>3, <1>4 DEF Depth
  <2>2. Depth = B + k + Len(wire)
    BY <1>1 DEF Depth, k, B
  <2> QED BY <2>1, <2>2, <1>3, <1>4
<1>6. ASSUME NEW i \in 1 .. Depth PROVE Byte(i)' = Byte(i)
  <2>1. i \in Nat
    BY <1>3, <1>4, <1>5
  <2>2. CASE i <= B + k
    <3>1. i \in 1 .. B + k
      BY <2>1, <2>2, <1>3, <1>6, <1>5, <1>4
    <3>2. Byte(i)' = At(i - 1)'
      BY <2>2, <1>3 DEF Byte
    <3>3. Byte(i) = IF i <= B THEN At(i - 1) ELSE reply.data[i - B]
      BY <2>2, <1>1 DEF Byte, B, k
    <3> QED BY <3>1, <3>2, <3>3, <1>3
  <2>3. CASE ~(i <= B + k)
    <3>1. ~(i <= B) /\ ~(i <= B + k + 0) /\ i - (B + k) - 0 = i - B - k
      BY <2>1, <2>3, <1>3
    <3>2. Byte(i)' = wire[i - (B + k) - 0]
      BY <3>1, <2>3, <1>1, <1>2, <1>3, <1>4 DEF Byte
    <3>3. Byte(i) = wire[i - B - k]
      BY <3>1, <2>3, <1>1 DEF Byte, B, k
    <3> QED BY <3>1, <3>2, <3>3
  <2> QED BY <2>2, <2>3
<1>7. Depth' = Depth /\ Line' = Line
  BY <1>5, <1>6 DEF Line
<1> QED BY <1>2, <1>4, <1>7, PatchedStays

(* Steps that move no byte.                                                *)
LEMMA PatchedStill ==
  ASSUME SafeInv, Patched, UNCHANGED <<stream, wire, sent, lost>>, InFlight' = InFlight
  PROVE  Patched'
<1>1. Buffered' = Buffered /\ \A i : At(i)' = At(i)
  BY DEF Buffered, At, stream
<1>2. Depth' = Depth
  BY <1>1 DEF Depth
<1>3. \A i : Byte(i)' = Byte(i)
  BY <1>1 DEF Byte
<1>4. Line' = Line
  BY <1>2, <1>3 DEF Line
<1>5. UNCHANGED <<sent, got>> /\ lost' \in Nat /\ lost' >= lost
  BY Cells DEF stream
<1> QED BY <1>2, <1>4, <1>5, PatchedStays

(* A READ that is polled for moves its bytes to FN_RX.                     *)
LEMMA HandedLine ==
  ASSUME SafeInv, Finish, Taken = 0 \/ pc = "read"
  PROVE  Depth' = Depth /\ Line' = Line
<1> DEFINE B == Buffered
           k == Taken
<1>1. B \in Nat /\ Len(wire) \in Nat /\ k \in 0 .. Len(wire) /\ k \in Nat /\ Len(<<>>) = 0
  BY Cells, TakenRange DEF SafeInv
<1>2. B' = B /\ \A i : At(i)' = At(i)
  BY DEF Finish, stream, Buffered, At
<1>3. /\ InFlight = <<>> /\ Len(InFlight') = k /\ \A i \in 1 .. k : InFlight'[i] = wire[i]
      /\ Len(wire') = Len(wire) - k /\ \A i \in 1 .. Len(wire) - k : wire'[i] = wire[k + i]
  BY Handed
<1>4. Depth = B + 0 + Len(wire) /\ Depth' = B + k + (Len(wire) - k)
  BY <1>1, <1>2, <1>3 DEF Depth
<1>5. \A i : Byte(i) = IF i <= B THEN At(i - 1) ELSE IF i <= B + 0 THEN InFlight[i - B]
                       ELSE wire[i - B - 0]
  BY <1>1, <1>3 DEF Byte
<1>6. \A i : Byte(i)' = IF i <= B THEN At(i - 1) ELSE IF i <= B + k THEN InFlight'[i - B]
                        ELSE wire'[i - B - k]
  BY <1>2, <1>3 DEF Byte
<1> HIDE DEF B, k
<1>7. Depth' = Depth /\ Depth = B + Len(wire)
  BY <1>1, <1>4
<1>8. ASSUME NEW i \in 1 .. Depth PROVE Byte(i)' = Byte(i)
  <2>1. i \in Nat /\ i <= B + Len(wire)
    BY <1>1, <1>7
  <2>2. CASE i <= B
    BY <2>2, <1>5, <1>6
  <2>3. CASE i > B /\ i <= B + k
    <3>1. /\ ~(i <= B) /\ ~(i <= B + 0) /\ i - B - 0 = i - B /\ i - B \in 1 .. k
      BY <2>1, <2>3, <1>1
    <3>2. Byte(i) = wire[i - B] /\ Byte(i)' = InFlight'[i - B]
      BY <3>1, <2>3, <1>5, <1>6
    <3> QED BY <3>1, <3>2, <1>3
  <2>4. CASE i > B + k
    <3>1. /\ ~(i <= B) /\ ~(i <= B + 0) /\ ~(i <= B + k)
          /\ i - B - k \in 1 .. Len(wire) - k /\ k + (i - B - k) = i - B - 0
      BY <2>1, <2>4, <1>1
    <3>2. Byte(i) = wire[i - B - 0] /\ Byte(i)' = wire'[i - B - k]
      BY <3>1, <1>5, <1>6
    <3>3. wire'[i - B - k] = wire[k + (i - B - k)]
      BY <3>1, <1>3
    <3> QED BY <3>1, <3>2, <3>3
  <2> QED BY <2>1, <2>2, <2>3, <2>4, <1>1
<1> QED BY <1>7, <1>8 DEF Line

(* A READ that is not: its bytes are missing behind those of the ring.     *)
LEMMA SwallowedLine ==
  ASSUME SafeInv, Finish, Taken > 0, pc # "read"
  PROVE  /\ Buffered + Taken <= Depth /\ Depth' = Depth - Taken
         /\ Around(Line', Line, Depth, Buffered, Taken)
<1> DEFINE B == Buffered
           k == Taken
<1>1. B \in Nat /\ Len(wire) \in Nat /\ k \in 0 .. Len(wire) /\ k \in Nat /\ Len(<<>>) = 0
  BY Cells, TakenRange DEF SafeInv
<1>2. B' = B /\ \A i : At(i)' = At(i)
  BY DEF Finish, stream, Buffered, At
<1>3. /\ InFlight = <<>> /\ InFlight' = <<>>
      /\ Len(wire') = Len(wire) - k /\ \A i \in 1 .. Len(wire) - k : wire'[i] = wire[k + i]
  BY Handed
<1>4. Depth = B + 0 + Len(wire) /\ Depth' = B + 0 + (Len(wire) - k)
  BY <1>1, <1>2, <1>3 DEF Depth
<1>5. \A i : Byte(i) = IF i <= B THEN At(i - 1) ELSE IF i <= B + 0 THEN InFlight[i - B]
                       ELSE wire[i - B - 0]
  BY <1>1, <1>3 DEF Byte
<1>6. \A i : Byte(i)' = IF i <= B THEN At(i - 1) ELSE IF i <= B + 0 THEN InFlight'[i - B]
                        ELSE wire'[i - B - 0]
  BY <1>1, <1>2, <1>3 DEF Byte
<1> HIDE DEF B, k
<1>7. Depth = B + Len(wire) /\ Depth' = Depth - k /\ B + k <= Depth /\ Depth' \in Nat
  BY <1>1, <1>4
<1>8. /\ \A i \in 1 .. Depth : Line[i] = Byte(i)
      /\ \A i \in 1 .. Depth' : Line'[i] = Byte(i)'
  BY DEF Line
<1>9. ASSUME NEW i \in 1 .. Depth - k
      PROVE  Line'[i] = IF i <= B THEN Line[i] ELSE Line[i + k]
  <2>1. i \in Nat /\ i \in 1 .. Depth' /\ i \in 1 .. Depth /\ i + k \in 1 .. Depth
    BY <1>1, <1>7
  <2>2. CASE i <= B
    BY <2>1, <2>2, <1>5, <1>6, <1>8
  <2>3. CASE i > B
    <3>1. /\ ~(i <= B) /\ ~(i <= B + 0) /\ ~(i + k <= B) /\ ~(i + k <= B + 0)
          /\ i - B - 0 \in 1 .. Len(wire) - k /\ k + (i - B - 0) = (i + k) - B - 0
      BY <2>1, <2>3, <1>1, <1>7
    <3>2. Byte(i + k) = wire[(i + k) - B - 0] /\ Byte(i)' = wire'[i - B - 0]
      BY <3>1, <1>5, <1>6
    <3>3. wire'[i - B - 0] = wire[k + (i - B - 0)]
      BY <3>1, <1>3
    <3> QED BY <2>1, <3>1, <3>2, <3>3, <1>8
  <2> QED BY <2>1, <2>2, <2>3, <1>1
<1> QED BY <1>7, <1>9 DEF Around, B, k

(* The other steps move no byte and tear no frame.                         *)
LEMMA PatchedRest ==
  ASSUME SafeInv, Patched,
         \/ StartPump \/ StatusAnswered \/ NothingToRead \/ PumpDone \/ Act \/ WriteAnswered
         \/ GiveUp \/ Fetch \/ Refuse
  PROVE  Patched'
BY Still, PatchedStill

(* A READ that nobody waits for costs one.                                 *)
LEMMA PatchedFinish == ASSUME SafeInv, Patched, Finish PROVE Patched'
<1>1. TypeOK /\ Taken \in Nat /\ lost \in Nat
  BY Cells, TakenRange DEF SafeInv
<1>2. UNCHANGED <<sent, got>>
  BY <1>1, FinishGives
<1>3. lost' = lost + (IF Taken > 0 /\ pc # "read" THEN 1 ELSE 0)
  BY Zenon DEF Finish, Taken
<1>4. CASE Taken = 0 \/ pc = "read"
  <2>1. lost' \in Nat /\ lost' >= lost
    BY <1>1, <1>3
  <2> QED BY <2>1, <1>2, <1>4, HandedLine, PatchedStays
<1>5. CASE Taken > 0 /\ pc # "read"
  <2>1. PICK bytes, cuts, pos, age :
           LaidOut(bytes, cuts) /\ Located(bytes, cuts) /\ Aged(bytes, cuts, pos, age)
    BY DEF Patched
  <2>2. PICK q, n, b, k : q = Line /\ n = Depth /\ b = Buffered /\ k = Taken
    OBVIOUS
  <2>3. PICK r, d : r = Line' /\ d = Depth'
    OBVIOUS
  <2>4. b + k <= n /\ d = n - k /\ Around(r, q, n, b, k)
    BY <1>5, <2>2, <2>3, SwallowedLine
  <2>5. b \in Nat /\ k \in Nat
    BY <1>1, <2>2, Cells
  <2>6. bytes \in Seq(Nat) /\ Placed(q, n, bytes, pos, age)
    BY <2>1, <2>2 DEF LaidOut, Aged
  <2>7. PICK p, a : Placed(r, n - k, bytes, p, a) /\ a[1] >= age[1] /\ a[n - k + 1] = age[n + 1] + 1
    BY <2>4, <2>5, <2>6, PlacedGap
  <2>8. LaidOut(bytes, cuts)' /\ Located(bytes, cuts)'
    BY <1>2, <2>1, LocatedStays
  <2>9. AllPlain' = AllPlain /\ Torn' = Torn
    BY <1>2 DEF AllPlain, Torn
  <2>10. /\ n \in Nat /\ n - k \in Nat /\ 1 \in 1 .. n + 1 /\ n + 1 \in 1 .. n + 1
         /\ 1 \in 1 .. n - k + 1
    BY <2>6, <2>7, Ages
  <2>11. age[1] \in Nat /\ age[n + 1] \in Nat /\ a[1] \in Nat
    BY <2>6, <2>7, <2>10, Ages
  <2>12. a[d + 1] <= lost'
    <3>1. age[n + 1] <= lost /\ lost' = lost + 1
      BY <1>1, <1>3, <1>5, <2>1, <2>2 DEF Aged
    <3>2. age[n + 1] + 1 <= lost'
      BY <3>1, <2>11, <1>1
    <3> QED BY <3>2, <2>4, <2>7
  <2>13. ASSUME AllPlain PROVE Cardinality(Torn) <= a[1]
    <3>1. PICK x : x = Cardinality(Torn)
      OBVIOUS
    <3>2. x \in Nat /\ x <= age[1]
      BY <2>1, <2>13, <3>1, TornFacts DEF Aged
    <3>3. x <= a[1]
      BY <3>2, <2>7, <2>11
    <3> QED BY <3>1, <3>3
  <2>14. Aged(bytes, cuts, p, a)'
    BY <2>3, <2>4, <2>7, <2>9, <2>12, <2>13 DEF Aged, Placed
  <2> QED BY <2>8, <2>14 DEF Patched
<1> QED BY <1>1, <1>4, <1>5

(* The line grows as the stream does.                                      *)
LEMMA LongerLine ==
  ASSUME SafeInv, NEW f \in Frames, wire' = wire \o f,
         UNCHANGED <<pc, ack, seq, reply, ring, wr, rd>>
  PROVE  /\ Depth \in Nat /\ Len(f) \in Nat /\ Depth' = Depth + Len(f)
         /\ Longer(Line', Line, Depth, f, Len(f))
<1> DEFINE D == Buffered + Len(InFlight)
           w == Len(f)
           N == Len(wire)
<1>1. f \in Seq(Nat) /\ w \in Nat /\ wire \in Seq(Nat) /\ N \in Nat /\ D \in Nat
      /\ Buffered \in Nat /\ Len(InFlight) \in Nat
  BY FrameShape, LineCells
<1>2. /\ Len(wire') = N + w
      /\ \A i \in 1 .. N + w : wire'[i] = IF i <= N THEN wire[i] ELSE f[i - N]
  BY <1>1, ConcatProperties
<1>3. Buffered' = Buffered /\ InFlight' = InFlight /\ \A i : At(i)' = At(i)
  BY DEF Buffered, InFlight, At
<1>4. Depth = D + N /\ Depth' = D + (N + w)
  BY <1>2, <1>3 DEF Depth
<1>5. /\ \A i \in 1 .. Depth : Line[i] = Byte(i)
      /\ \A i \in 1 .. Depth' : Line'[i] = Byte(i)'
  BY DEF Line
<1>6. \A i : i <= D => Byte(i)' = Byte(i)
  BY <1>1, <1>3 DEF Byte
<1>7. \A i \in Nat : i > D => Byte(i) = wire[i - D] /\ Byte(i)' = wire'[i - D]
  <2>1. ASSUME NEW i \in Nat, i > D
        PROVE  ~(i <= Buffered) /\ ~(i <= Buffered + Len(InFlight))
               /\ i - Buffered - Len(InFlight) = i - D
    BY <2>1, <1>1
  <2> QED BY <2>1, <1>3 DEF Byte
<1> HIDE DEF D, w, N
<1>8. Depth \in Nat /\ Depth' = Depth + w
  BY <1>1, <1>4
<1>9. ASSUME NEW i \in 1 .. Depth + w
      PROVE  Line'[i] = IF i <= Depth THEN Line[i] ELSE f[i - Depth]
  <2>1. i \in Nat /\ i \in 1 .. Depth' /\ Line'[i] = Byte(i)'
    BY <1>1, <1>5, <1>8
  <2>2. CASE i <= D
    <3>1. i <= Depth /\ i \in 1 .. Depth
      BY <2>1, <2>2, <1>1, <1>4
    <3> QED BY <2>1, <2>2, <3>1, <1>5, <1>6
  <2>3. CASE i > D /\ i <= Depth
    <3>1. i \in 1 .. Depth /\ i - D \in 1 .. N + w /\ i - D <= N
      BY <2>1, <2>3, <1>1, <1>4
    <3> QED BY <2>1, <2>3, <3>1, <1>2, <1>5, <1>7
  <2>4. CASE i > D /\ ~(i <= Depth)
    <3>1. i - D \in 1 .. N + w /\ ~(i - D <= N) /\ (i - D) - N = i - Depth
      BY <2>1, <2>4, <1>1, <1>4
    <3> QED BY <2>1, <2>4, <3>1, <1>2, <1>7
  <2> QED BY <2>1, <2>2, <2>3, <2>4, <1>1
<1> QED BY <1>1, <1>8, <1>9 DEF Longer, w

(* A frame is behind the stream, and its bytes behind the line.            *)
LEMMA PatchedSend == ASSUME SafeInv, Patched, Send PROVE Patched'
<1>1. PICK bytes, cuts, pos, age :
         LaidOut(bytes, cuts) /\ Located(bytes, cuts) /\ Aged(bytes, cuts, pos, age)
  BY DEF Patched
<1>2. PICK f \in Frames : sent' = Append(sent, f) /\ wire' = wire \o f
  BY DEF Send
<1>3. f \in Seq(Nat) /\ bytes \in Seq(Nat) /\ cuts \in Seq(Nat)
  BY <1>1, FrameShape DEF LaidOut
<1>4. PICK more, marks : Extended(bytes, cuts, f, more, marks)
  BY <1>3, Extension
<1>5. LaidOut(more, marks)'
  BY <1>1, <1>2, <1>4, LaidOutMore
<1>6. /\ more \in Seq(Nat) /\ Len(more) = Len(bytes) + Len(f)
      /\ \A i \in 1 .. Len(bytes) : more[i] = bytes[i]
      /\ \A i \in 1 .. Len(f) : more[Len(bytes) + i] = f[i]
      /\ \A i \in 1 .. Len(sent) + 1 : marks[i] = cuts[i]
  BY <1>1, <1>4 DEF Extended, Appended, LaidOut
<1>7. /\ bytes \in Seq(Nat) /\ Len(bytes) \in Nat /\ Len(sent) \in Nat /\ sent \in Seq(Frames)
      /\ Len(f) \in Nat
  BY <1>3, Cells DEF SafeInv, TypeOK
<1>8. cuts[Len(sent) + 1] = Len(bytes)
  BY <1>1 DEF LaidOut
<1>9. PICK N, L, w : N = Len(sent) /\ L = Len(bytes) /\ w = Len(f)
  OBVIOUS
<1>10. Len(sent') = N + 1 /\ sent'[N + 1] = f /\ \A i \in 1 .. N : sent'[i] = sent[i]
  BY <1>2, <1>7, <1>9
<1>11. Located(more, marks)'
  <2>1. Len(more) = L + w /\ L \in Nat /\ w \in Nat /\ N \in Nat
    BY <1>6, <1>7, <1>9
  <2>2. ASSUME NEW p \in 1 .. L + w
        PROVE  \E i \in 1 .. N + 1 : \E j \in 1 .. Len(sent'[i]) : p = marks[i] + j
    <3>1. CASE p \in 1 .. L
      <4>0. p \in 1 .. Len(bytes)
        BY <3>1, <1>9
      <4>1. PICK i \in 1 .. N : \E j \in 1 .. Len(sent[i]) : p = cuts[i] + j
        <5>1. \E i \in 1 .. Len(sent) : \E j \in 1 .. Len(sent[i]) : p = cuts[i] + j
          BY <4>0, <1>1 DEF Located
        <5> QED BY <5>1, <1>9
      <4>2. i \in 1 .. N + 1 /\ marks[i] = cuts[i] /\ sent'[i] = sent[i]
        <5>1. i \in 1 .. N + 1 /\ i \in 1 .. Len(sent) + 1
          BY <2>1, <1>9
        <5>2. sent'[i] = sent[i]
          BY <1>10
        <5> QED BY <5>1, <5>2, <1>6
      <4> QED BY <4>1, <4>2
    <3>2. CASE ~(p \in 1 .. L)
      <4>1. N + 1 \in 1 .. N + 1 /\ marks[N + 1] = L /\ sent'[N + 1] = f
        <5>1. N + 1 \in 1 .. N + 1
          BY <2>1
        <5> QED BY <5>1, <1>6, <1>9, <1>10, <1>8
      <4>2. PICK j : j = p - L
        OBVIOUS
      <4>3. j \in 1 .. w /\ p = L + j
        BY <2>1, <3>2, <4>2
      <4> QED BY <4>1, <4>3, <1>9
    <3> QED BY <3>1, <3>2
  <2> QED BY <2>1, <2>2, <1>10 DEF Located
<1>12. UNCHANGED <<pc, ack, seq, reply, ring, wr, rd, got, lost>>
  BY DEF Send, mailbox, stream
<1>13. PICK q, n : q = Line /\ n = Depth
  OBVIOUS
<1>14. PICK r, m : r = Line' /\ m = Depth'
  OBVIOUS
<1>15. n \in Nat /\ w \in Nat /\ m = n + w /\ Longer(r, q, n, f, w)
  BY <1>2, <1>9, <1>12, <1>13, <1>14, LongerLine
<1>16. PICK p, a : Placed(r, m, more, p, a) /\ a[1] = age[1] /\ a[m + 1] = age[n + 1]
  <2>1. Placed(q, n, bytes, pos, age)
    BY <1>1, <1>13 DEF Aged
  <2>2. Appended(bytes, f, more) /\ w = Len(f)
    BY <1>4, <1>9 DEF Extended
  <2> QED BY <2>1, <2>2, <1>3, <1>15, PlacedMore
<1>17. a[m + 1] <= lost'
  BY <1>1, <1>12, <1>13, <1>16 DEF Aged
<1>18. ASSUME AllPlain' PROVE Cardinality(Torn') <= a[1]
  <2>1. AllPlain
    <3>1. \A i \in 1 .. N + 1 : sent'[i] \in Plain
      BY <1>10, <1>18 DEF AllPlain
    <3>2. \A i \in 1 .. N : i \in 1 .. N + 1 /\ sent'[i] = sent[i]
      BY <1>7, <1>9, <1>10
    <3>3. \A i \in 1 .. N : sent[i] \in Plain
      BY <3>1, <3>2
    <3> QED BY <3>3, <1>9 DEF AllPlain
  <2>2. Torn' = Torn
    BY <1>12 DEF Torn
  <2> QED BY <2>1, <2>2, <1>1, <1>16 DEF Aged
<1>19. Aged(more, marks, p, a)'
  BY <1>14, <1>16, <1>17, <1>18 DEF Aged, Placed
<1> QED BY <1>11, <1>19, <1>5 DEF Patched

(* Nothing has been sent.                                                  *)
LEMMA PatchedInit == Init => Patched
<1> SUFFICES ASSUME Init PROVE Patched
  OBVIOUS
<1> DEFINE pos == [i \in 1 .. 0 + 1 |-> 1]
           age == [i \in 1 .. 0 + 1 |-> 0]
<1>1. LaidOut(<<>>, <<0>>) /\ Located(<<>>, <<0>>)
  BY DEF Init, LaidOut, Located
<1>2. Buffered = 0
  BY OneTurn, Sizes DEF Init, Buffered
<1>3. Depth = 0
  BY <1>2 DEF Init, Depth, InFlight
<1>4. Placed(Line, 0, <<>>, pos, age)
  BY DEF Placed
<1>5. Cardinality(Torn) = 0
  <2>1. Torn = {}
    BY DEF Init, Torn
  <2> QED BY <2>1, FS_EmptySet
<1>6. age[0 + 1] <= lost /\ Cardinality(Torn) <= age[1]
  BY <1>5 DEF Init
<1>7. Aged(<<>>, <<0>>, pos, age)
  BY <1>3, <1>4, <1>6 DEF Aged
<1> QED BY <1>1, <1>7 DEF Patched

PatchInv == SafeInv /\ Patched

LEMMA PatchNext == PatchInv /\ [Next]_vars => PatchInv'
<1>1. SafeInv /\ [Next]_vars => SafeInv'
  BY SafeNext
<1>2. PatchInv /\ UNCHANGED vars => Patched'
  <2>1. UNCHANGED vars => UNCHANGED <<stream, wire, sent, lost>> /\ InFlight' = InFlight
    BY DEF vars, mailbox, stream, InFlight
  <2> QED BY <2>1, PatchedStill DEF PatchInv
<1>3. PatchInv /\ Next => Patched'
  BY PatchedReadAnswered, PatchedCut, PatchedSlip, PatchedSend, PatchedFinish, PatchedRest
  DEF PatchInv, Next, Console, Adapter
<1> QED BY <1>1, <1>2, <1>3 DEF PatchInv

LEMMA PatchReachable == Spec => []PatchInv
<1>1. Init => PatchInv
  BY SafeInit, PatchedInit DEF PatchInv
<1> QED BY <1>1, PatchNext, PTL DEF Spec

(* A READ that timed out and is answered afterwards takes its bytes from   *)
(* the stream.  It costs SES_PUMP no more than one frame put together from *)
(* two, wherever in the frames the bytes are missing: if nothing in a      *)
(* frame reads as a header, slipping finds the next frame.                 *)
THEOREM TornFramesBounded == Spec => []TornOnce
<1>1. PatchInv => TornOnce
  <2> SUFFICES ASSUME PatchInv, AllPlain PROVE Cardinality(Torn) <= lost
    BY DEF TornOnce
  <2>1. PICK bytes, cuts, pos, age : Aged(bytes, cuts, pos, age)
    BY DEF PatchInv, Patched
  <2>2. Placed(Line, Depth, bytes, pos, age)
    BY <2>1 DEF Aged
  <2>3. PICK x, first, last : x = Cardinality(Torn) /\ first = age[1] /\ last = age[Depth + 1]
    OBVIOUS
  <2>4. 1 \in 1 .. Depth + 1 /\ Depth + 1 \in 1 .. Depth + 1
    BY <2>2, Ages
  <2>5. first \in Nat /\ last \in Nat /\ first <= last
    BY <2>2, <2>3, <2>4, Ages
  <2>6. x \in Nat /\ lost \in Nat
    BY <2>3, TornFacts, Cells DEF PatchInv
  <2>7. x <= first /\ last <= lost
    BY <2>1, <2>3 DEF Aged
  <2>8. x <= lost
    BY <2>5, <2>6, <2>7
  <2> QED BY <2>3, <2>8
<1> QED BY PatchReachable, <1>1, PTL
=============================================================================
