--------------------------- MODULE LobbyPublisher ---------------------------
(***************************************************************************)
(* How the relay keeps its entry on the FujiNet Lobby: LobbyPublisher of   *)
(* server/intv_relay_server.py and its C port, server/c/src/lobby.c.  The  *)
(* main thread gives new player counts (update) and at the end shuts the   *)
(* publisher down; one worker thread owns the POSTs.  Each action is one   *)
(* region under the condition variable's lock, or what happens outside it. *)
(*                                                                         *)
(* A POST may reach the Lobby or fail, or reach it and lose its answer; the*)
(* Lobby is external and keeps the last one that reached it.  One that is  *)
(* given up and arrives later is left out.                                 *)
(***************************************************************************)
EXTENDS Integers

CONSTANTS
  Counts,     \* player counts, 0 among them
  Servers,    \* subset of {"python", "c"}: the programs checked
  MaxUpdates  \* bound: calls of update

ASSUME CountsAssumption  == 0 \in Counts /\ Counts \subseteq Nat
ASSUME ServersAssumption == Servers \subseteq {"python", "c"} /\ MaxUpdates \in Nat

VARIABLES
  server,    \* the program that runs: chosen once
  payload,   \* self.payload: curplayers and status
  dirty,     \* _dirty
  stopping,  \* _stopping
  stopEvt,   \* _stop_evt
  worker,    \* where the worker thread is
  posting,   \* the worker's snapshot
  second,    \* a second has passed since the worker's last POST returned
  woken,     \* the debounce wait was signalled (lobby.c: l->cv)
  main,      \* where the main thread is
  farewell,  \* shutdown's snapshot
  lobby,     \* what the Lobby last received
  ok,        \* whether the worker's last POST reached the Lobby
  gaveUp,    \* the join in shutdown timed out
  updates    \* calls of update so far

mainVars   == <<payload, stopping, main, farewell, gaveUp, updates>>
workerVars == <<worker, posting, second, ok>>
vars == <<server, mainVars, workerVars, dirty, stopEvt, woken, lobby>>

Entry == [count : Counts, status : {"online", "offline"}]
New    == [count |-> 0, status |-> "online"]
Absent == [count |-> 0, status |-> "absent"]

(* main() makes the publisher and calls update(0) before it serves.         *)
Init ==
  /\ server \in Servers
  /\ payload = New /\ dirty = TRUE /\ stopping = FALSE /\ stopEvt = FALSE
  /\ worker = "waiting" /\ posting = New /\ second = TRUE /\ woken = FALSE
  /\ main = "serving" /\ farewell = New /\ gaveUp = FALSE /\ updates = 0
  /\ lobby = Absent /\ ok = FALSE

-----------------------------------------------------------------------------
(* The main thread                                                         *)

(* notify() reaches the worker's wait for work; lobby.c waits out its      *)
(* debounce on the same condition variable.                                *)
Signal == woken' = (woken \/ (server = "c" /\ worker = "debouncing"))

Update(n) ==
  /\ main = "serving" /\ updates < MaxUpdates
  /\ payload' = [payload EXCEPT !.count = n]
  /\ dirty'   = TRUE
  /\ updates' = updates + 1
  /\ Signal
  /\ UNCHANGED <<server, workerVars, stopping, stopEvt, main, farewell, gaveUp, lobby>>

(* The snapshot is taken before the status is set.                          *)
Bug_Shutdown ==
  /\ main = "serving"
  /\ stopping' = TRUE
  /\ payload'  = [payload EXCEPT !.status = "offline"]
  /\ farewell' = payload
  /\ stopEvt'  = (server = "c")
  /\ main'     = IF server = "c" THEN "joining" ELSE "setting"
  /\ Signal
  /\ UNCHANGED <<server, workerVars, dirty, gaveUp, updates, lobby>>

Shutdown ==
  /\ main = "serving"
  /\ stopping' = TRUE
  /\ payload'  = [payload EXCEPT !.status = "offline"]
  /\ farewell' = payload'
  /\ stopEvt'  = (server = "c")
  /\ main'     = IF server = "c" THEN "joining" ELSE "setting"
  /\ Signal
  /\ UNCHANGED <<server, workerVars, dirty, gaveUp, updates, lobby>>

(* _stop_evt.set() comes after the lock is let go.                         *)
SetStop ==
  /\ main = "setting"
  /\ stopEvt' = TRUE /\ main' = "joining"
  /\ UNCHANGED <<server, workerVars, dirty, woken, payload, stopping, farewell, gaveUp, updates, lobby>>

Bug_Join ==
  /\ main = "joining"
  /\ main' = "posting"
  /\ UNCHANGED <<server, workerVars, dirty, stopEvt, woken, payload, stopping, farewell, gaveUp, updates, lobby>>

Join ==
  /\ main = "joining" /\ worker \in {"done", "dead"}
  /\ main' = "posting"
  /\ UNCHANGED <<server, workerVars, dirty, stopEvt, woken, payload, stopping, farewell, gaveUp, updates, lobby>>

(* join(timeout=12) returns with the worker still in its POST, whose time  *)
(* limits are per socket operation.                                        *)
JoinTimeout ==
  /\ main = "joining" /\ worker \in {"posting", "posted"}
  /\ main' = "posting" /\ gaveUp' = TRUE
  /\ UNCHANGED <<server, workerVars, dirty, stopEvt, woken, payload, stopping, farewell, updates, lobby>>

FarewellReaches ==
  /\ main = "posting"
  /\ lobby' = farewell /\ main' = "heard"
  /\ UNCHANGED <<server, workerVars, dirty, stopEvt, woken, payload, stopping, farewell, gaveUp, updates>>

(* An exception _post does not catch ends shutdown here as well.           *)
FarewellFails ==
  /\ main = "posting"
  /\ main' = "unheard" /\ lobby' \in {lobby, farewell}
  /\ UNCHANGED <<server, workerVars, dirty, stopEvt, woken, payload, stopping, farewell, gaveUp, updates>>

(* The process is over: the worker is a daemon thread.                     *)
Exit ==
  /\ main \in {"heard", "unheard"}
  /\ main' = IF main = "heard" THEN "exited" ELSE "gone"
  /\ UNCHANGED <<server, workerVars, dirty, stopEvt, woken, payload, stopping, farewell, gaveUp, updates, lobby>>

-----------------------------------------------------------------------------
(* The worker thread                                                       *)

running == main \notin {"exited", "gone"}

(* The wait for work ends: stop, or take the newest payload.               *)
Wake ==
  /\ running /\ worker = "waiting" /\ (dirty \/ stopping)
  /\ dirty'   = FALSE
  /\ worker'  = IF stopping THEN "done" ELSE "posting"
  /\ posting' = IF stopping THEN posting ELSE payload
  /\ UNCHANGED <<server, mainVars, second, ok, stopEvt, woken, lobby>>

Bug_Keepalive ==
  /\ running /\ worker = "waiting" /\ ~dirty /\ ~stopping
  /\ UNCHANGED vars

(* KEEPALIVE_SECS without news: post again as is.                          *)
Keepalive ==
  /\ running /\ worker = "waiting" /\ ~dirty /\ ~stopping
  /\ dirty' = TRUE
  /\ UNCHANGED <<server, mainVars, workerVars, stopEvt, woken, lobby>>

PostReaches ==
  /\ running /\ worker = "posting"
  /\ worker' = "posted" /\ lobby' = posting /\ ok' = TRUE
  /\ UNCHANGED <<server, mainVars, posting, second, dirty, stopEvt, woken>>

(* The dirty flag is cleared once the POST is through, not before it.      *)
Bug_PostReturns ==
  /\ running /\ worker = "posted"
  /\ worker' = "debouncing" /\ second' = FALSE /\ dirty' = FALSE
  /\ UNCHANGED <<server, mainVars, posting, ok, stopEvt, woken, lobby>>

PostReturns ==
  /\ running /\ worker = "posted"
  /\ worker' = "debouncing" /\ second' = FALSE
  /\ UNCHANGED <<server, mainVars, posting, ok, dirty, stopEvt, woken, lobby>>

PostFails ==
  /\ running /\ worker = "posting"
  /\ worker' = "debouncing" /\ second' = FALSE /\ ok' = FALSE
  /\ lobby' \in {lobby, posting}
  /\ UNCHANGED <<server, mainVars, posting, dirty, stopEvt, woken>>

(* _post catches OSError; an answer that is not HTTP raises an             *)
(* HTTPException, which is none, leaves _run and ends the thread.          *)
PostRaises ==
  /\ running /\ worker = "posting" /\ server = "python"
  /\ worker' = "dead" /\ ok' = FALSE
  /\ lobby' \in {lobby, posting}
  /\ UNCHANGED <<server, mainVars, posting, second, dirty, stopEvt, woken>>

SecondPasses ==
  /\ ~second
  /\ second' = TRUE
  /\ UNCHANGED <<server, mainVars, worker, posting, ok, dirty, stopEvt, woken, lobby>>

(* The debounce wait is on the condition variable that update signals.     *)
Bug_Debounced ==
  /\ running /\ worker = "debouncing" /\ (second \/ dirty \/ stopEvt)
  /\ worker' = "waiting" /\ woken' = FALSE
  /\ UNCHANGED <<server, mainVars, posting, second, ok, dirty, stopEvt, lobby>>

Debounced ==
  /\ running /\ worker = "debouncing" /\ (second \/ stopEvt \/ woken)
  /\ worker' = "waiting" /\ woken' = FALSE
  /\ UNCHANGED <<server, mainVars, posting, second, ok, dirty, stopEvt, lobby>>

Next ==
  \/ \E n \in Counts : Update(n)
  \/ Shutdown \/ SetStop \/ Join \/ JoinTimeout \/ FarewellReaches \/ FarewellFails \/ Exit
  \/ Wake \/ Keepalive \/ PostReaches \/ PostReturns \/ PostFails \/ PostRaises
  \/ SecondPasses \/ Debounced

Spec == Init /\ [][Next]_vars

(* The worker's waits all have time limits and its POSTs do too; the Lobby *)
(* is not out of reach for ever.                                           *)
LiveSpec ==
  /\ Spec
  /\ WF_vars(Wake) /\ WF_vars(Keepalive) /\ WF_vars(PostReturns) /\ WF_vars(SecondPasses)
  /\ WF_vars(Debounced) /\ SF_vars(PostReaches)

-----------------------------------------------------------------------------
(* Properties                                                              *)

(* The state has the types the code declares; what shutdown is to post     *)
(* says offline.                                                           *)
TypeOK ==
  /\ server \in Servers
  /\ payload \in Entry /\ posting \in Entry /\ farewell \in Entry
  /\ lobby \in Entry \cup {Absent}
  /\ {dirty, stopping, stopEvt, second, woken, ok, gaveUp} \subseteq BOOLEAN
  /\ worker \in {"waiting", "posting", "posted", "debouncing", "done", "dead"}
  /\ worker = "dead" => server = "python"
  /\ main \in {"serving", "setting", "joining", "posting", "heard", "unheard", "exited", "gone"}
  /\ updates \in 0 .. MaxUpdates
  /\ main # "serving" => farewell.status = "offline" /\ payload.status = "offline"

(* No update is lost in the coalescing: when the worker has nothing to do  *)
(* and its last POST got through, the Lobby shows the newest count.  An    *)
(* update can come at any point of a POST or of the debounce (_run).       *)
NoLostUpdate ==
  worker = "waiting" /\ ~dirty /\ ok /\ ~stopping => lobby = payload

(* The Lobby's last word of a server that told it it was going is          *)
(* "offline", unless the join in shutdown gave up on the POST in flight    *)
(* ("let an in-flight POST finish first", shutdown).                       *)
LastWordOffline == main \in {"heard", "exited"} /\ ~gaveUp => lobby.status = "offline"

(* "at most once per second, so connection churn can never fan out into    *)
(* ... overlapping requests" (LobbyPublisher): the Python worker starts no *)
(* POST within a second of its last one.  lobby.c does: its debounce waits *)
(* on the condition variable that lobby_update signals.                    *)
RateLimited ==
  [][server = "python" /\ worker # "posting" /\ worker' = "posting" => second]_vars

(* While the server and its worker run, the Lobby comes to show the count  *)
(* the server settles on, whatever POSTs fail on the way: the keepalive    *)
(* posts again (_run).  A worker that an uncaught exception has ended      *)
(* posts nothing any more.                                                 *)
NewestPublished ==
  [](main = "serving" /\ worker # "dead") => <>[](lobby = payload)
=============================================================================
