------------------------------ MODULE MCResync ------------------------------
(* A match of three consoles, in a few of the orders Spec allows.          *)
EXTENDS Resync, TLC

Symmetry == Permutations(Seats \ {Host})

(* Nobody gives up, the host is the one that strays and does so at once,   *)
(* nothing arrives while a console starts its pass, and until it pushes the *)
(* host moves as soon as it can and frames are read as they are sent:      *)
(* every behaviour of DirectedSpec is one of Spec, among far fewer.        *)
Directed ==
  IF ~strayed THEN Stray(Host)
  ELSE IF \E c \in Seats : pc[c] = "top" THEN \E c \in Seats : Capture(c)
  ELSE IF ~hold[Host] /\ \E c \in Seats : Pumping(c) /\ down[c] # <<>>
       THEN \E c \in Seats : Recv(c)
  ELSE IF ~hold[Host] /\ (pc[Host] = "entry" \/ GateOpen(Host))
       THEN EnterPass(Host) \/ RunTick(Host)
  ELSE \E c \in Seats :
         EnterPass(c) \/ Recv(c) \/ RunTick(c) \/ PushWrite(c) \/ PushEnd(c)

DirectedSpec == Init /\ [][Directed]_vars
=============================================================================
