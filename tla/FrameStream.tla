----------------------------- MODULE FrameStream -----------------------------
(***************************************************************************)
(* How frames reach a console: SES_PUMP (src/netcode/session.asm) reads    *)
(* the byte stream through the FujiNet mailbox (src/netcode/mailbox.asm)   *)
(* into a circular buffer and cuts frames out of it.                       *)
(*                                                                         *)
(* The adapter behind the mailbox is external.  It takes a command when    *)
(* FN_SEQ differs from FN_ACKSEQ, and may complete it after the console    *)
(* gave up waiting; it hands out the bytes of the TCP stream in order.     *)
(***************************************************************************)
EXTENDS Integers, Sequences, FiniteSets

CONSTANTS
  RING,       \* bytes of RXACC (256)
  CHUNK,      \* what one READ may ask for (64)
  FLEN,       \* SES_FLEN: type -> <<min, max>> of the frames a console receives
  SEQ,        \* sequence numbers of the mailbox, 1 .. SEQ (255)
  Frames,     \* the frames the server may send, [len][type][payload]
  MaxFrames,  \* bound: frames sent
  MaxFaults   \* bound: transactions that time out or are refused

ASSUME RingAssumption  == /\ RING \in Nat /\ CHUNK \in Nat \ {0} /\ CHUNK + 1 < RING
                          /\ SEQ \in Nat \ {0, 1}
ASSUME TableAssumption == \A t \in DOMAIN FLEN :
         /\ FLEN[t] \in Nat \X Nat /\ FLEN[t][1] >= 1
         /\ FLEN[t][2] + CHUNK < RING
ASSUME FrameAssumption == \A f \in Frames :
         /\ f \in Seq(Nat) /\ Len(f) = f[1] + 1 /\ f[2] \in DOMAIN FLEN
         /\ f[1] \in FLEN[f[2]][1] .. FLEN[f[2]][2]

VARIABLES
  pc,       \* where the console is: the transaction it polls for, or between two
  want,     \* NREQ of the READ under way
  cmd,      \* FN_CMD and its parameter
  seq,      \* FN_SEQ
  ack,      \* FN_ACKSEQ
  job,      \* the command the adapter is working on
  reply,    \* FN_REPLY_CMD and FN_RX, with the command it answers
  wire,     \* bytes of the stream the adapter holds
  ring,     \* RXACC
  wr, rd,   \* RX_WR, RX_RD
  sent,     \* history: the frames the server sent
  got,      \* history: the frames given to SES_ONFRAME
  slips,    \* history: DIAG_SLIP
  lost,     \* history: READs whose bytes the console never took
  faults    \* history: timeouts and refusals

mailbox == <<cmd, seq, ack, reply>>
stream  == <<ring, wr, rd, got, slips>>
vars    == <<pc, want, mailbox, job, wire, stream, sent, lost, faults>>

NoJob    == [op |-> "NONE", n |-> 0]
Polling  == pc \in {"status", "read", "write"}
Buffered == (wr - rd) % RING
At(i)    == ring[(rd + i) % RING]

(* NET_OPEN has been acknowledged; HELLO is the first frame to go out.      *)
Init ==
  /\ pc = "act" /\ want = 0
  /\ seq \in 0 .. SEQ /\ ack = seq
  /\ cmd = NoJob /\ job = NoJob
  /\ reply = [op |-> "OPEN", ok |-> TRUE, n |-> 0, data |-> <<>>]
  /\ wire = <<>>
  /\ ring = [i \in 0 .. RING - 1 |-> 0] /\ wr = 0 /\ rd = 0
  /\ sent = <<>> /\ got = <<>>
  /\ slips = 0 /\ lost = 0 /\ faults = 0

-----------------------------------------------------------------------------
(* MB_TRANSACT                                                             *)

(* The number is not cut to a byte.                                        *)
Bug_NextSeq(a) == a + 1

(* The number after the adapter's own; zero is skipped.                    *)
NextSeq(a) == IF a = SEQ THEN 1 ELSE a + 1

Stage(op, n) ==
  /\ cmd' = [op |-> op, n |-> n]
  /\ seq' = NextSeq(ack)
  /\ UNCHANGED <<ack, reply>>

Acked == Polling /\ ack = seq

(* A STATUS that timed out goes on to the READ.                            *)
Bug_GiveUp ==
  /\ Polling /\ ack # seq
  /\ faults < MaxFaults /\ faults' = faults + 1
  /\ IF pc = "status" THEN /\ pc' = "read" /\ want' = CHUNK /\ Stage("READ", CHUNK)
                      ELSE /\ pc' = (IF pc = "write" THEN "top" ELSE "parse")
                           /\ UNCHANGED <<want, mailbox>>
  /\ UNCHANGED <<job, wire, stream, sent, lost>>

(* The poll counter wraps: MB_OK = 0.  The pump goes on to parse what it   *)
(* has, and nobody looks at MB_OK after a NET_WRITE.                       *)
GiveUp ==
  /\ Polling /\ ack # seq
  /\ faults < MaxFaults /\ faults' = faults + 1
  /\ pc' = (IF pc = "write" THEN "top" ELSE "parse")
  /\ UNCHANGED <<want, mailbox, job, wire, stream, sent, lost>>

-----------------------------------------------------------------------------
(* SES_PUMP                                                                *)

StartPump ==
  /\ pc = "top"
  /\ pc' = "status" /\ Stage("STATUS", 0)
  /\ UNCHANGED <<want, job, wire, stream, sent, lost, faults>>

(* What NET_STATUS finds in FN_RX.  If the answer taken for its own is the *)
(* late one of another command, FN_RX holds whatever that left there.      *)
Available(n) ==
  \/ reply.op = "STATUS" /\ reply.ok /\ n = reply.n
  \/ reply.op # "STATUS" /\ reply.ok /\ n \in 0 .. CHUNK + 1

(* NAVAIL_HI is looked at, NAVAIL_LO is not compared with 64.              *)
Bug_Clamp(n) == n

(* A READ asks for at most 64 bytes.                                       *)
Clamp(n) == IF n < CHUNK THEN n ELSE CHUNK

StatusAnswered ==
  /\ pc = "status" /\ Acked
  /\ \E n \in 0 .. CHUNK + Len(wire) + 1 :
       /\ Available(n) /\ n > 0
       /\ pc' = "read" /\ want' = Clamp(n) /\ Stage("READ", Clamp(n))
  /\ UNCHANGED <<job, wire, stream, sent, lost, faults>>

(* Nothing there, or no SUCCESS: parse what is buffered.                   *)
NothingToRead ==
  /\ pc = "status" /\ Acked
  /\ Available(0) \/ ~reply.ok \/ reply.op # "STATUS"
  /\ pc' = "parse"
  /\ UNCHANGED <<want, mailbox, job, wire, stream, sent, lost, faults>>

(* The bytes of FN_RX go to the ring.  A refused READ brings none.         *)
ReadAnswered ==
  LET k == Len(reply.data) IN
  /\ pc = "read" /\ Acked
  /\ pc' = "parse"
  /\ ring' = [i \in 0 .. RING - 1 |-> IF (i - wr) % RING < k
                                      THEN reply.data[((i - wr) % RING) + 1] ELSE ring[i]]
  /\ wr' = (wr + k) % RING
  /\ UNCHANGED <<want, mailbox, job, wire, rd, got, slips, sent, lost, faults>>

(* A header the server can have sent.                                      *)
Header(len, type) ==
  type \in DOMAIN FLEN /\ len \in FLEN[type][1] .. FLEN[type][2]

(* BLE for the BLT to pp_done: the frame waits for a byte more.            *)
Bug_Cut ==
  /\ pc = "parse" /\ Buffered >= 2 /\ Header(At(0), At(1)) /\ Buffered > At(0) + 1
  /\ got' = Append(got, [i \in 1 .. At(0) + 1 |-> At(i - 1)])
  /\ rd' = (rd + At(0) + 1) % RING
  /\ UNCHANGED <<pc, want, mailbox, job, wire, ring, wr, slips, sent, lost, faults>>

(* The length byte is not counted in.                                      *)
Bug_CutEarly ==
  /\ pc = "parse" /\ Buffered >= 2 /\ Header(At(0), At(1)) /\ Buffered >= At(0)
  /\ got' = Append(got, [i \in 1 .. At(0) + 1 |-> At(i - 1)])
  /\ rd' = (rd + At(0) + 1) % RING
  /\ UNCHANGED <<pc, want, mailbox, job, wire, ring, wr, slips, sent, lost, faults>>

(* A whole frame is cut out and dispatched.                                *)
Cut ==
  /\ pc = "parse" /\ Buffered >= 2 /\ Header(At(0), At(1)) /\ Buffered >= At(0) + 1
  /\ got' = Append(got, [i \in 1 .. At(0) + 1 |-> At(i - 1)])
  /\ rd' = (rd + At(0) + 1) % RING
  /\ UNCHANGED <<pc, want, mailbox, job, wire, ring, wr, slips, sent, lost, faults>>

(* The whole of the misread frame is dropped, not one byte of it.          *)
Bug_Slip ==
  /\ pc = "parse" /\ Buffered >= 2 /\ ~Header(At(0), At(1))
  /\ rd' = (rd + At(0) + 1) % RING
  /\ slips' = slips + 1
  /\ UNCHANGED <<pc, want, mailbox, job, wire, ring, wr, got, sent, lost, faults>>

(* No frame starts here: drop one byte and look again.                     *)
Slip ==
  /\ pc = "parse" /\ Buffered >= 2 /\ ~Header(At(0), At(1))
  /\ rd' = (rd + 1) % RING
  /\ slips' = slips + 1
  /\ UNCHANGED <<pc, want, mailbox, job, wire, ring, wr, got, sent, lost, faults>>

(* Too little for a header, or for the frame it announces.                 *)
PumpDone ==
  /\ pc = "parse"
  /\ Buffered < 2 \/ (Header(At(0), At(1)) /\ Buffered < At(0) + 1)
  /\ pc' = "act"
  /\ UNCHANGED <<want, mailbox, job, wire, stream, sent, lost, faults>>

(* Between two pumps the session or the engine may send a frame.           *)
Act ==
  /\ pc = "act"
  /\ \/ pc' = "top" /\ UNCHANGED mailbox
     \/ pc' = "write" /\ Stage("WRITE", 0)
  /\ UNCHANGED <<want, job, wire, stream, sent, lost, faults>>

WriteAnswered ==
  /\ pc = "write" /\ Acked
  /\ pc' = "top"
  /\ UNCHANGED <<want, mailbox, job, wire, stream, sent, lost, faults>>

-----------------------------------------------------------------------------
(* The adapter and the server.                                             *)

Send ==
  /\ Len(sent) < MaxFrames
  /\ \E f \in Frames : sent' = Append(sent, f) /\ wire' = wire \o f
  /\ UNCHANGED <<pc, want, mailbox, job, stream, lost, faults>>

Fetch ==
  /\ job = NoJob /\ seq # ack
  /\ job' = cmd
  /\ UNCHANGED <<pc, want, mailbox, wire, stream, sent, lost, faults>>

(* The command is done.  If the console no longer waits for a READ, the    *)
(* bytes it took are gone.                                                 *)
Finish ==
  LET k == IF job.op # "READ" THEN 0
           ELSE IF job.n < Len(wire) THEN job.n ELSE Len(wire) IN
  /\ job # NoJob
  /\ job' = NoJob /\ ack' = seq
  /\ reply' = [op |-> job.op, ok |-> TRUE, n |-> Len(wire), data |-> SubSeq(wire, 1, k)]
  /\ wire' = SubSeq(wire, k + 1, Len(wire))
  /\ lost' = lost + (IF k > 0 /\ pc # "read" THEN 1 ELSE 0)
  /\ UNCHANGED <<pc, want, cmd, seq, stream, sent, faults>>

(* The adapter answers something other than ACK.                           *)
Refuse ==
  /\ job # NoJob
  /\ faults < MaxFaults /\ faults' = faults + 1
  /\ job' = NoJob /\ ack' = seq
  /\ reply' = [op |-> job.op, ok |-> FALSE, n |-> 0, data |-> <<>>]
  /\ UNCHANGED <<pc, want, cmd, seq, wire, stream, sent, lost>>

Console == \/ StartPump \/ StatusAnswered \/ NothingToRead \/ ReadAnswered
           \/ Cut \/ Slip \/ PumpDone \/ Act \/ WriteAnswered
Adapter == Fetch \/ Finish \/ Refuse

Next == Console \/ GiveUp \/ Adapter \/ Send

Spec == Init /\ [][Next]_vars

(* The console's CPU does not stop, and the adapter answers in the end.    *)
LiveSpec == Spec /\ WF_vars(Console) /\ WF_vars(Fetch) /\ WF_vars(Finish)

-----------------------------------------------------------------------------
(* Properties                                                              *)

Command == [op : {"NONE", "STATUS", "READ", "WRITE"}, n : Nat]

(* The cells keep their ranges.                                            *)
TypeOK ==
  /\ pc \in {"top", "status", "read", "parse", "act", "write"}
  /\ want \in 0 .. CHUNK
  /\ cmd \in Command /\ job \in Command
  /\ seq \in 0 .. SEQ /\ ack \in 0 .. SEQ
  /\ reply.ok \in BOOLEAN /\ reply.n \in Nat /\ reply.data \in Seq(Nat)
  /\ wire \in Seq(Nat) /\ sent \in Seq(Frames) /\ got \in Seq(Seq(Nat))
  /\ ring \in [0 .. RING - 1 -> Nat]
  /\ wr \in 0 .. RING - 1 /\ rd \in 0 .. RING - 1
  /\ slips \in Nat /\ lost \in Nat /\ faults \in Nat

(* However the stream is cut into READs and whatever transactions time     *)
(* out, as long as no READ was swallowed SES_ONFRAME sees the frames the   *)
(* server sent, whole and in order, and no byte is skipped.                *)
FramesExact == lost = 0 => slips = 0 /\ got = SubSeq(sent, 1, Len(got))

(* What a READ puts into the ring belongs there.  RXACC is written without *)
(* a look at RX_RD, and what is asked for has room all the same, even where *)
(* the parser waits for the rest of a frame it misread.  Sequence numbers  *)
(* repeat after a timeout, so that a late answer can pass for that of the  *)
(* next command; it never passes for that of a READ.                       *)
ReadSafe ==
  pc = "read" =>
    /\ Buffered + want < RING
    /\ job.op \in {"NONE", "READ"}
    /\ Acked => reply.op = "READ" /\ Len(reply.data) <= want

(* The frames that cannot be taken for another: nowhere but at its start   *)
(* does a run of them read as a header.                                    *)
Plain == {f \in Frames : \A g \in Frames :
            \A i \in 2 .. Len(f) : ~Header((f \o g)[i], (f \o g)[i + 1])}

AllPlain == \A i \in 1 .. Len(sent) : sent[i] \in Plain

(* What SES_ONFRAME was given that the server did not send.                *)
Torn == {i \in 1 .. Len(got) : got[i] \notin Frames}

(* A swallowed READ costs at most one frame put together from two, then    *)
(* the parser is back on the frames: slipping byte by byte re-aligns it,   *)
(* unless payload reads as a header.                                       *)
TornOnce == AllPlain => Cardinality(Torn) <= lost

(* Every frame is dispatched in the end, if no READ is swallowed.          *)
Delivered == [](lost = 0) => <>[](got = sent)
=============================================================================
