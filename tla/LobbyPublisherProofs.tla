------------------------ MODULE LobbyPublisherProofs ------------------------
(* Proofs about LobbyPublisher, for both servers, any counts and any number *)
(* of updates.                                                              *)
EXTENDS LobbyPublisher, TLAPS

-----------------------------------------------------------------------------
(* The inductive invariant                                                 *)

(* shutdown's flags: _stopping with the main thread's way out, _stop_evt    *)
(* after it; only the C worker's debounce can be signalled.                *)
Stopped ==
  /\ stopping <=> main # "serving"
  /\ stopEvt => stopping
  /\ server = "python" => ~woken

(* With nothing new to post, what the worker holds or has last got through *)
(* is the newest payload.                                                  *)
NewestHeld ==
  ~dirty /\ ~stopping =>
    /\ worker = "posting" => posting = payload
    /\ worker = "posted" => ok /\ lobby = payload
    /\ worker \in {"debouncing", "waiting"} /\ ok => lobby = payload

(* Past a join that did not give up there is no worker left to overwrite   *)
(* what shutdown posts.                                                    *)
LastPost ==
  ~gaveUp =>
    /\ main \in {"posting", "heard", "unheard", "exited", "gone"} => worker \in {"done", "dead"}
    /\ main \in {"heard", "exited"} => lobby = farewell

(* The Python worker waits for work only a second after its last POST, or  *)
(* to stop.                                                                *)
Rested == server = "python" /\ worker = "waiting" => second \/ stopping

IInv == TypeOK /\ Stopped /\ NewestHeld /\ LastPost /\ Rested

-----------------------------------------------------------------------------
LEMMA InitInv == Init => IInv
<1> SUFFICES ASSUME Init PROVE IInv
  OBVIOUS
<1>1. TypeOK
  <2>1. New \in Entry
    BY CountsAssumption DEF New, Entry
  <2>2. {dirty, stopping, stopEvt, second, woken, ok, gaveUp} \subseteq BOOLEAN
    BY Zenon DEF Init
  <2>3. updates \in 0 .. MaxUpdates
    BY ServersAssumption DEF Init
  <2> QED BY <2>1, <2>2, <2>3 DEF Init, TypeOK
<1>2. NewestHeld
  BY DEF Init, NewestHeld
<1>3. LastPost
  BY DEF Init, LastPost
<1>4. Stopped /\ Rested
  BY DEF Init, Stopped, Rested
<1> QED BY <1>1, <1>2, <1>3, <1>4 DEF IInv

LEMMA EntryUpdates ==
  ASSUME NEW e \in Entry, NEW n \in Counts
  PROVE  /\ [e EXCEPT !.count = n] \in Entry /\ [e EXCEPT !.count = n].status = e.status
         /\ [e EXCEPT !.status = "offline"] \in Entry
         /\ [e EXCEPT !.status = "offline"].status = "offline"
BY DEF Entry

LEMMA MainKeeps ==
  ASSUME IInv, (\E n \in Counts : Update(n)) \/ Shutdown \/ SetStop
  PROVE  IInv'
<1> USE DEF mainVars, workerVars, Signal, IInv, Stopped, LastPost, Rested
<1>1. ASSUME NEW n \in Counts, Update(n) PROVE IInv'
  <2>1. TypeOK'
    <3>1. payload' \in Entry /\ payload'.status = payload.status
      BY <1>1, EntryUpdates DEF TypeOK, Update
    <3>2. updates' \in 0 .. MaxUpdates
      BY <1>1, ServersAssumption DEF TypeOK, Update
    <3>3. dirty' \in BOOLEAN /\ woken' \in BOOLEAN
      BY <1>1 DEF TypeOK, Update
    <3> QED BY <1>1, <3>1, <3>2, <3>3 DEF TypeOK, Update
  <2>2. NewestHeld'
    BY <1>1 DEF Update, NewestHeld
  <2>3. LastPost'
    BY <1>1 DEF Update
  <2>4. Stopped' /\ Rested'
    BY <1>1 DEF Update, TypeOK
  <2> QED BY <2>1, <2>2, <2>3, <2>4
<1>2. CASE Shutdown
  <2>1. TypeOK'
    BY <1>2, EntryUpdates, CountsAssumption DEF TypeOK, Shutdown
  <2> QED BY <1>2, <2>1 DEF Shutdown, NewestHeld
<1>3. CASE SetStop
  BY <1>3 DEF SetStop, TypeOK, NewestHeld
<1> QED BY <1>1, <1>2, <1>3

LEMMA FarewellKeeps ==
  ASSUME IInv, Join \/ JoinTimeout \/ FarewellReaches \/ FarewellFails \/ Exit
  PROVE  IInv'
<1> USE DEF mainVars, workerVars, IInv, TypeOK, Stopped, NewestHeld, LastPost, Rested
<1>1. CASE Join
  BY <1>1 DEF Join
<1>2. CASE JoinTimeout
  BY <1>2 DEF JoinTimeout
<1>3. CASE FarewellReaches
  BY <1>3 DEF FarewellReaches
<1>4. CASE FarewellFails
  BY <1>4 DEF FarewellFails
<1>5. CASE Exit
  BY <1>5 DEF Exit
<1> QED BY <1>1, <1>2, <1>3, <1>4, <1>5

LEMMA WorkerKeeps ==
  ASSUME IInv,
         \/ Wake \/ Keepalive \/ PostReaches \/ PostReturns \/ PostFails \/ PostRaises
         \/ SecondPasses \/ Debounced
  PROVE  IInv'
<1> USE DEF mainVars, workerVars, IInv, TypeOK, Stopped, NewestHeld, LastPost, Rested, running
<1>1. CASE Wake
  BY <1>1 DEF Wake
<1>2. CASE Keepalive
  BY <1>2 DEF Keepalive
<1>3. CASE PostReaches
  BY <1>3 DEF PostReaches
<1>4. CASE PostReturns
  BY <1>4 DEF PostReturns
<1>5. CASE PostFails
  BY <1>5 DEF PostFails
<1>6. CASE SecondPasses
  BY <1>6 DEF SecondPasses
<1>7. CASE Debounced
  BY <1>7 DEF Debounced
<1>8. CASE PostRaises
  BY <1>8 DEF PostRaises
<1> QED BY <1>1, <1>2, <1>3, <1>4, <1>5, <1>6, <1>7, <1>8

LEMMA StepKeeps == IInv /\ [Next]_vars => IInv'
<1>1. IInv /\ UNCHANGED vars => IInv'
  BY DEF vars, mainVars, workerVars, IInv, TypeOK, Stopped, NewestHeld, LastPost, Rested
<1> QED BY <1>1, MainKeeps, FarewellKeeps, WorkerKeeps DEF Next

(* Only Wake starts a POST.                                                *)
LEMMA PostsAfterRest ==
  IInv /\ [Next]_vars =>
    (server = "python" /\ worker # "posting" /\ worker' = "posting" => second)
<1> SUFFICES ASSUME IInv, [Next]_vars, server = "python",
                    worker # "posting", worker' = "posting"
             PROVE  second
  OBVIOUS
<1>1. Wake
  BY DEF Next, Update, Shutdown, SetStop, Join, JoinTimeout, FarewellReaches,
         FarewellFails, Exit, Keepalive, PostReaches, PostReturns, PostFails,
         PostRaises, SecondPasses, Debounced, vars, mainVars, workerVars, Signal
<1> QED BY <1>1 DEF Wake, IInv, Rested

LEMMA Reachable == Spec => []IInv
BY InitInv, StepKeeps, PTL DEF Spec

-----------------------------------------------------------------------------
(* Every variable of the publisher keeps its type, and once shutdown has   *)
(* begun the payload says offline.                                         *)
THEOREM TypeCorrect == Spec => []TypeOK
<1>1. IInv => TypeOK
  BY DEF IInv
<1> QED BY Reachable, <1>1, PTL

(* No update is lost in the coalescing of _run: an idle worker whose last  *)
(* POST got through has the Lobby show the newest payload.                 *)
THEOREM UpdatesKept == Spec => []NoLostUpdate
<1>1. IInv => NoLostUpdate
  BY DEF IInv, NewestHeld, NoLostUpdate
<1> QED BY Reachable, <1>1, PTL

(* What the Lobby last hears of a server that told it it was going says    *)
(* offline (shutdown), unless the join gave up on the POST in flight.      *)
THEOREM GoesOffline == Spec => []LastWordOffline
<1>1. IInv => LastWordOffline
  BY DEF IInv, TypeOK, LastPost, LastWordOffline
<1> QED BY Reachable, <1>1, PTL

(* The Python worker starts no POST within a second of its last one (_run's *)
(* debounce).                                                              *)
THEOREM PostsSpaced == Spec => RateLimited
<1>1. IInv /\ [Next]_vars =>
        [server = "python" /\ worker # "posting" /\ worker' = "posting" => second]_vars
  BY PostsAfterRest
<1> QED BY Reachable, <1>1, PTL DEF Spec, RateLimited
=============================================================================
