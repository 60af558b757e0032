-------------------------- MODULE EngineLifecycle --------------------------
(***************************************************************************)
(* The life of an engine as the controller sees it: what its open() loop,  *)
(* its close() and its ready() may do to the connection (engine/           *)
(* websocket.ts). It says nothing of calls, answers and attempts, nor of   *)
(* who calls close(). WebSocketEngine implements it, and so does each      *)
(* engine of ConnectionController: it is the interface between the two.    *)
(***************************************************************************)
EXTENDS Naturals

VARIABLES
  loop,          \* where open()'s loop is: "new", "socket", "cooldown", "done"
  terminated,    \* close() was called
  active,        \* it had an open socket, and has not given up
  socket,        \* "none", "connecting", "open", "closing"
  sockets,       \* sockets created so far
  restored       \* ready() was called on the latest socket

vars == <<loop, terminated, active, socket, sockets, restored>>

Init ==
  /\ loop = "new"
  /\ terminated = FALSE
  /\ active = FALSE
  /\ socket = "none"
  /\ sockets = 0
  /\ restored = FALSE

CreateSocket ==
  /\ loop' = "socket"
  /\ socket' = "connecting"
  /\ sockets' = sockets + 1
  /\ restored' = FALSE
  /\ UNCHANGED <<terminated, active>>

Open == loop = "new" /\ CreateSocket

SocketOpens ==
  /\ socket = "connecting"
  /\ socket' = "open"
  /\ active' = TRUE
  /\ UNCHANGED <<loop, terminated, sockets, restored>>

SocketStartsClosing ==
  /\ socket = "open"
  /\ socket' = "closing"
  /\ UNCHANGED <<loop, terminated, active, sockets, restored>>

\* Only an engine nobody closed goes around again.
SocketClosesAndLoops ==
  /\ loop = "socket" /\ ~terminated
  /\ loop' = "cooldown"
  /\ socket' = "none"
  /\ UNCHANGED <<terminated, active, sockets, restored>>

\* After close(), or when the engine gives up.
SocketClosesForGood ==
  /\ loop = "socket"
  /\ loop' = "done"
  /\ socket' = "none"
  /\ active' = FALSE
  /\ UNCHANGED <<terminated, sockets, restored>>

CooldownEnds == loop = "cooldown" /\ ~terminated /\ CreateSocket

CooldownEndsClosed ==
  /\ loop = "cooldown" /\ terminated
  /\ loop' = "done"
  /\ UNCHANGED <<terminated, active, socket, sockets, restored>>

Close ==
  /\ loop # "new" /\ ~terminated
  /\ terminated' = TRUE
  /\ socket' = IF socket = "none" THEN "none" ELSE "closing"
  /\ UNCHANGED <<loop, active, sockets, restored>>

\* ready() of the controller, once the sessions of the socket are restored.
Ready ==
  /\ socket = "open"
  /\ restored' = TRUE
  /\ UNCHANGED <<loop, terminated, active, socket, sockets>>

-----------------------------------------------------------------------------

Network ==
  SocketOpens \/ SocketStartsClosing \/ SocketClosesAndLoops \/ SocketClosesForGood

Timer == CooldownEnds \/ CooldownEndsClosed

Next == Open \/ Network \/ Timer \/ Close \/ Ready

Spec == Init /\ [][Next]_vars

(* A socket that connects or closes comes to an end of that, and the timer *)
(* of the cooldown fires.                                                  *)
Fairness ==
  /\ WF_vars(socket \in {"connecting", "closing"} /\ Network)
  /\ WF_vars(Timer)

FairSpec == Spec /\ Fairness
=============================================================================
