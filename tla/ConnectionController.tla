------------------------ MODULE ConnectionController ------------------------
(***************************************************************************)
(* The connection management of the controller                             *)
(* (packages/sdk/src/controller/index.ts): connect(), disconnect(),        *)
(* ready() and the three callbacks it hangs on every engine it opens,      *)
(* which stay subscribed when the engine is replaced.                      *)
(*                                                                         *)
(* The k-th connect() call makes engine k, so k names both. An engine is   *)
(* seen through what the controller and the application can tell of it:    *)
(* its socket, its loop, its events. WebSocketEngine has the details; what *)
(* the reconnect context decides there is a free choice here.              *)
(*                                                                         *)
(* A continuation (microtask) that can run does so before the next socket  *)
(* event or timer, while the application may call in at any time.          *)
(***************************************************************************)
EXTENDS Integers

CONSTANTS
  MaxEngines,       \* bound: connect() calls
  MaxSockets        \* bound: sockets each engine creates

Engines  == 1..MaxEngines
None     == 0                                 \* undefined, where an engine may be
Handlers == Engines \X (1..MaxSockets)        \* #onConnected: by engine and socket

ASSUME BoundsAssumption == MaxEngines \in Nat \ {0} /\ MaxSockets \in Nat \ {0}

VARIABLES
  careful,          \* the application waits before it calls: see MayCall
  engine,           \* #engine (#state is set and unset together with it)
  nextEngine,       \* #nextEngine
  status,           \* #status
  cachedVersion,    \* the engine whose server's version is in #cachedVersion
  made,             \* connect() calls so far
  connect,          \* per connect() call: where it is, or how it ended
  waits,            \* per connect() call: the engine whose end it awaits
  closing,          \* per engine: a disconnect() awaits its end
  loop,             \* per engine: "new", "socket", "cooldown", "done"
  terminated,       \* per engine: close() was called
  active,           \* per engine: it had an open socket
  socket,           \* per engine: "none", "connecting", "open", "closing"
  sockets,          \* per engine: sockets created so far
  restored,         \* per engine: ready() was called on its latest socket
  handler,          \* per handler: where #onConnected is
  on,               \* per handler: the engine its current call was sent to
  inFlight          \* per handler: that call is on its way on an open socket

controllerVars == <<engine, nextEngine, status, cachedVersion>>
appVars        == <<made, connect, waits, closing>>
engineVars     == <<loop, terminated, active, socket, sockets, restored>>
handlerVars    == <<handler, on, inFlight>>
vars == <<controllerVars, appVars, engineVars, handlerVars>>

TypeOK ==
  /\ careful \in BOOLEAN
  /\ engine \in Engines \cup {None}
  /\ nextEngine \in Engines \cup {None}
  /\ status \in {"disconnected", "connecting", "connected", "reconnecting"}
  /\ cachedVersion \in Engines \cup {None}
  /\ made \in 0..MaxEngines
  /\ connect \in [Engines -> {"idle", "closing", "ready",
                              "resolved", "rejected", "superseded"}]
  /\ waits \in [Engines -> Engines \cup {None}]
  /\ closing \in [Engines -> BOOLEAN]
  /\ loop \in [Engines -> {"new", "socket", "cooldown", "done"}]
  /\ terminated \in [Engines -> BOOLEAN]
  /\ active \in [Engines -> BOOLEAN]
  /\ socket \in [Engines -> {"none", "connecting", "open", "closing"}]
  /\ sockets \in [Engines -> 0..MaxSockets]
  /\ restored \in [Engines -> BOOLEAN]
  /\ handler \in [Handlers -> {"idle", "version", "restore", "failing", "ended"}]
  /\ on \in [Handlers -> Engines \cup {None}]
  /\ inFlight \in [Handlers -> BOOLEAN]

Init ==
  /\ careful \in BOOLEAN
  /\ engine = None /\ nextEngine = None
  /\ status = "disconnected"
  /\ cachedVersion = None
  /\ made = 0
  /\ connect = [e \in Engines |-> "idle"]
  /\ waits = [e \in Engines |-> None]
  /\ closing = [e \in Engines |-> FALSE]
  /\ loop = [e \in Engines |-> "new"]
  /\ terminated = [e \in Engines |-> FALSE]
  /\ active = [e \in Engines |-> FALSE]
  /\ socket = [e \in Engines |-> "none"]
  /\ sockets = [e \in Engines |-> 0]
  /\ restored = [e \in Engines |-> FALSE]
  /\ handler = [h \in Handlers |-> "idle"]
  /\ on = [h \in Handlers |-> None]
  /\ inFlight = [h \in Handlers |-> FALSE]

\* A connect() whose disconnect() returned, a handler whose call was rejected.
Resumable(e) == connect[e] = "closing" /\ waits[e] = None
TasksRun ==
  /\ \A e \in Engines : ~Resumable(e)
  /\ \A h \in Handlers : handler[h] # "failing"

-----------------------------------------------------------------------------
(* Faulty variants of the definitions below. The properties tell each of   *)
(* them from the code.                                                     *)

\* close() awaits "disconnected" in the cooldown too.
WaitingAlways(e) == ~terminated[e]

\* connect() does not compare #nextEngine after the await.
AlwaysLatest(e) == loop[e] = "new"

\* connect() sets the status before the await only.
TakeOverQuietly(e) ==
  /\ engine' = e
  /\ nextEngine' = None
  /\ UNCHANGED status

\* close() leaves a socket alone that is still connecting.
ClosedIfOpen(e) ==
  /\ terminated' = [terminated EXCEPT ![e] = TRUE]
  /\ socket' = [socket EXCEPT ![e] = IF @ = "open" THEN "closing" ELSE @]

\* #onReconnecting leaves the status alone.
OnReconnectingQuietly == UNCHANGED <<engine, status>>

\* The engine's "reconnecting" event is taken for "disconnected".
OnReconnectingGivesUp == engine' = None /\ status' = "disconnected"

-----------------------------------------------------------------------------
(* Engine close() and the "disconnected" event.                            *)

Waiting(e) == terminated[e] = FALSE /\ socket[e] \in {"open", "closing"}

\* The state of the engines after close() of engine e.
Closed(e) ==
  /\ terminated' = [terminated EXCEPT ![e] = TRUE]
  /\ socket' = [socket EXCEPT ![e] = IF @ = "none" THEN @ ELSE "closing"]

\* #onDisconnected, and everybody who awaits the event of engine e.
PublishDisconnected(e) ==
  /\ engine' = None
  /\ status' = "disconnected"
  /\ closing' = [closing EXCEPT ![e] = FALSE]

\* close() of the current engine publishes "disconnected" on the spot when
\* its socket is not open or closing.
CloseCurrent ==
  IF engine = None \/ terminated[engine]
    THEN UNCHANGED <<engine, status, closing, terminated, socket>>
    ELSE /\ Closed(engine)
         /\ IF Waiting(engine) THEN UNCHANGED <<engine, status, closing>>
                               ELSE PublishDisconnected(engine)

-----------------------------------------------------------------------------
(* The application: connect() and close().                                 *)

Settled(e) == connect[e] \in {"idle", "resolved", "rejected", "superseded"}

\* A careful application has one connect() or close() under way at a time,
\* makes the next when the status is "connected" or "disconnected" (never
\* while the engine reconnects), and after an "error" event, which closes the
\* engine, first waits for "disconnected".
CarefulCall ==
  /\ \A e \in Engines : Settled(e) /\ ~closing[e]
  /\ status \in {"connected", "disconnected"}
  /\ \A e \in Engines : terminated[e] => loop[e] = "done"

MayCall == careful => CarefulCall

\* connect() up to the await of disconnect().
Connect ==
  /\ MayCall
  /\ made < MaxEngines
  /\ made' = made + 1
  /\ nextEngine' = made'
  /\ connect' = [connect EXCEPT ![made'] = "closing"]
  /\ IF engine = None \/ terminated[engine]
       THEN /\ status' = "connecting"
            /\ UNCHANGED <<engine, closing, terminated, socket, waits>>
       ELSE /\ Closed(engine)
            /\ IF Waiting(engine)
                 THEN /\ waits' = [waits EXCEPT ![made'] = engine]
                      /\ status' = "connecting"
                      /\ UNCHANGED <<engine, closing>>
                 ELSE PublishDisconnected(engine) /\ UNCHANGED waits
  /\ UNCHANGED <<cachedVersion, loop, active, sockets, restored, handlerVars>>

\* connect() was not called again in the meantime.
IsLatest(e) == nextEngine = e

TakeOver(e) ==
  /\ engine' = e
  /\ nextEngine' = None
  /\ status' = "connecting"

\* connect() goes on and opens its engine.
ConnectResumes(e) ==
  /\ Resumable(e)
  /\ IsLatest(e)
  /\ TakeOver(e)
  /\ loop' = [loop EXCEPT ![e] = "socket"]
  /\ socket' = [socket EXCEPT ![e] = "connecting"]
  /\ sockets' = [sockets EXCEPT ![e] = 1]
  /\ connect' = [connect EXCEPT ![e] = "ready"]
  /\ UNCHANGED <<cachedVersion, made, waits, closing, terminated, active,
                 restored, handlerVars>>

ConnectSuperseded(e) ==
  /\ Resumable(e)
  /\ ~IsLatest(e)
  /\ connect' = [connect EXCEPT ![e] = "superseded"]
  /\ UNCHANGED <<controllerVars, made, waits, closing, engineVars, handlerVars>>

\* disconnect(), when there is something to close.
Disconnect ==
  /\ MayCall
  /\ engine # None /\ ~terminated[engine]
  /\ Closed(engine)
  /\ IF Waiting(engine)
       THEN closing' = [closing EXCEPT ![engine] = TRUE] /\ UNCHANGED <<engine, status>>
       ELSE PublishDisconnected(engine)
  /\ UNCHANGED <<nextEngine, cachedVersion, made, connect, waits, loop, active,
                 sockets, restored, handlerVars>>

-----------------------------------------------------------------------------
(* #onConnected.                                                           *)

\* ready() returns to, or throws at, every connect() that awaits it.
ConnectedEvent == [e \in Engines |-> IF connect[e] = "ready" THEN "resolved" ELSE connect[e]]
ErrorEvent     == [e \in Engines |-> IF connect[e] = "ready" THEN "rejected" ELSE connect[e]]

\* The catch block: publish "error" and close the current engine.
Fail(h) ==
  /\ handler' = [handler EXCEPT ![h] = "ended"]
  /\ connect' = ErrorEvent
  /\ CloseCurrent
  /\ UNCHANGED <<restored, on, inFlight>>

\* An RPC on the current engine. Without one it throws; an engine that is not
\* active, or whose socket is still connecting, rejects it; any other records
\* it, and it is on its way if the socket is open.
Call(h, step) ==
  IF engine = None THEN Fail(h)
  ELSE IF ~active[engine] \/ socket[engine] = "connecting"
  THEN /\ handler' = [handler EXCEPT ![h] = "failing"]
       /\ UNCHANGED <<engine, status, connect, closing, terminated, socket,
                      restored, on, inFlight>>
  ELSE /\ handler' = [handler EXCEPT ![h] = step]
       /\ on' = [on EXCEPT ![h] = engine]
       /\ inFlight' = [inFlight EXCEPT ![h] = socket[engine] = "open"]
       /\ UNCHANGED <<engine, status, connect, closing, terminated, socket,
                      restored>>

\* Every session is restored: ready() of the current engine sends the recorded
\* calls again, and "connected" is published.
Finish(h) ==
  /\ handler' = [handler EXCEPT ![h] = "ended"]
  /\ LET sends(e) == e = engine /\ socket[e] = "open" IN
       /\ restored' = [e \in Engines |-> (restored[e] \/ sends(e))]
       /\ inFlight' = [g \in Handlers |->
                         \/ inFlight[g]
                         \/ g # h /\ handler[g] \in {"version", "restore"} /\ sends(on[g])]
  /\ status' = "connected"
  /\ connect' = ConnectedEvent
  /\ UNCHANGED <<engine, closing, terminated, socket, on>>

\* The "open" event of a socket, once the engine has set #active: the
\* "connected" event makes the controller ask its current engine's version.
SocketOpens(e) ==
  /\ TasksRun
  /\ socket[e] = "connecting"
  /\ active' = [active EXCEPT ![e] = TRUE]
  /\ socket' = [socket EXCEPT ![e] = "open"]
  /\ LET h == <<e, sockets[e]>>
         accepts == \/ engine = e
                    \/ active[engine] /\ socket[engine] # "connecting"
     IN IF engine = None
          THEN /\ handler' = [handler EXCEPT ![h] = "ended"]
               /\ connect' = ErrorEvent
               /\ UNCHANGED <<on, inFlight>>
          ELSE /\ handler' = [handler EXCEPT ![h] = IF accepts THEN "version" ELSE "failing"]
               /\ on' = [on EXCEPT ![h] = engine]
               /\ inFlight' = [inFlight EXCEPT ![h] = engine = e \/ socket[engine] = "open"]
               /\ UNCHANGED connect
  /\ UNCHANGED <<controllerVars, made, waits, closing, loop, terminated, sockets,
                 restored>>

\* The call handler h awaits is answered.
Answered(h) ==
  /\ TasksRun
  /\ handler[h] \in {"version", "restore"}
  /\ inFlight[h] /\ socket[on[h]] = "open"
  /\ UNCHANGED <<nextEngine, made, waits, loop, active, sockets>>

\* With success: the next attach, use, set or authenticate is called, until
\* the sessions are restored (there are none without #state).
HandlerGoesOn(h) ==
  /\ Answered(h)
  /\ cachedVersion' = IF handler[h] = "version" THEN on[h] ELSE cachedVersion
  /\ \/ Finish(h)
     \/ ~(handler[h] = "version" /\ engine = None) /\ Call(h, "restore")

\* With an error, or with a version that is not supported.
HandlerGetsError(h) ==
  /\ Answered(h)
  /\ \/ UNCHANGED cachedVersion
     \/ handler[h] = "version" /\ cachedVersion' = on[h]
  /\ Fail(h)

\* The engine rejected the call.
HandlerRejected(h) ==
  /\ handler[h] = "failing"
  /\ Fail(h)
  /\ UNCHANGED <<nextEngine, cachedVersion, made, waits, loop, active, sockets>>

-----------------------------------------------------------------------------
(* The socket loop of an engine, and the events it publishes.              *)

\* What was in flight on the socket of engine e is lost.
LoseSocket(e) ==
  /\ socket' = [socket EXCEPT ![e] = "none"]
  /\ inFlight' = [h \in Handlers |-> inFlight[h] /\ on[h] # e]

SocketStartsClosing(e) ==
  /\ TasksRun
  /\ socket[e] = "open"
  /\ socket' = [socket EXCEPT ![e] = "closing"]
  /\ UNCHANGED <<controllerVars, appVars, loop, terminated, active, sockets,
                 restored, handlerVars>>

OnReconnecting == status' = "reconnecting" /\ UNCHANGED engine

\* "reconnecting".
SocketClosesAndLoops(e) ==
  /\ TasksRun
  /\ loop[e] = "socket" /\ ~terminated[e] /\ sockets[e] < MaxSockets
  /\ LoseSocket(e)
  /\ loop' = [loop EXCEPT ![e] = "cooldown"]
  /\ OnReconnecting
  /\ UNCHANGED <<nextEngine, cachedVersion, appVars, terminated, active, sockets,
                 restored, handler, on>>

\* "disconnected": after close(), or when the engine gives up, which rejects
\* the calls it recorded.
SocketClosesForGood(e) ==
  /\ TasksRun
  /\ loop[e] = "socket"
  /\ LoseSocket(e)
  /\ loop' = [loop EXCEPT ![e] = "done"]
  /\ active' = [active EXCEPT ![e] = FALSE]
  /\ handler' = [h \in Handlers |->
                   IF ~terminated[e] /\ on[h] = e /\ handler[h] \in {"version", "restore"}
                   THEN "failing" ELSE handler[h]]
  /\ waits' = [c \in Engines |-> IF waits[c] = e THEN None ELSE waits[c]]
  /\ PublishDisconnected(e)
  /\ UNCHANGED <<nextEngine, cachedVersion, made, connect, terminated, sockets,
                 restored, on>>

CooldownEnds(e) ==
  /\ TasksRun
  /\ loop[e] = "cooldown" /\ ~terminated[e]
  /\ loop' = [loop EXCEPT ![e] = "socket"]
  /\ socket' = [socket EXCEPT ![e] = "connecting"]
  /\ sockets' = [sockets EXCEPT ![e] = @ + 1]
  /\ restored' = [restored EXCEPT ![e] = FALSE]
  /\ UNCHANGED <<controllerVars, appVars, terminated, active, handlerVars>>

CooldownEndsClosed(e) ==
  /\ TasksRun
  /\ loop[e] = "cooldown" /\ terminated[e]
  /\ loop' = [loop EXCEPT ![e] = "done"]
  /\ UNCHANGED <<controllerVars, appVars, terminated, active, socket, sockets,
                 restored, handlerVars>>

-----------------------------------------------------------------------------

Application == Connect \/ Disconnect

Resume(e) == ConnectResumes(e) \/ ConnectSuperseded(e)

Network(e) ==
  \/ SocketOpens(e) \/ SocketStartsClosing(e)
  \/ SocketClosesAndLoops(e) \/ SocketClosesForGood(e)

Timer(e) == CooldownEnds(e) \/ CooldownEndsClosed(e)

Answer(h) == HandlerGoesOn(h) \/ HandlerGetsError(h)

Next ==
  \/ Application
  \/ \E e \in Engines : Resume(e) \/ Network(e) \/ Timer(e)
  \/ \E h \in Handlers : Answer(h) \/ HandlerRejected(h)

\* An application is careful from the start or never.
Spec == Init /\ [][Next /\ UNCHANGED careful]_<<vars, careful>>

(* Continuations run and timers fire; a socket opens or closes; the server *)
(* answers. The application owes nothing, and the network may fail.        *)
Fairness ==
  /\ \A e \in Engines :
       /\ WF_vars(Resume(e))
       /\ WF_vars(Timer(e))
       /\ WF_vars(socket[e] \in {"connecting", "closing"} /\ Network(e))
  /\ \A h \in Handlers : WF_vars(Answer(h)) /\ WF_vars(HandlerRejected(h))

FairSpec == Spec /\ Fairness

-----------------------------------------------------------------------------
(* Properties.                                                             *)

\* The loop of engine e runs and nobody closed it.
Live(e) == loop[e] \in {"socket", "cooldown"} /\ ~terminated[e]

(* The engine in place is the one of the last connect() that got past its  *)
(* disconnect(), and a superseded connect() never opens its engine: the    *)
(* check of #nextEngine in connect() holds against every order in which    *)
(* the awaited closes end.                                                 *)
LatestConnectWins ==
  /\ engine # None => \A e \in Engines : e > engine => loop[e] = "new"
  /\ \A e \in Engines : connect[e] = "superseded" => loop[e] = "new"

(* A careful application never has two engines that keep a connection.     *)
OneLiveEngine ==
  \A e, f \in Engines : Live(e) /\ Live(f) => e = f

(* For a careful application "connected" means: there is an engine, its    *)
(* sessions were restored on its latest socket, and the cached version,    *)
(* which decides what features it has, is the one of its server.           *)
ConnectedIsUsable ==
  status = "connected" =>
    engine # None /\ restored[engine] /\ cachedVersion = engine

(* "Returns the status of the connection" (api/surreal.ts, of status):     *)
(* while an engine keeps a connection the status is not "disconnected".    *)
StatusIsAccurate ==
  status = "disconnected" => \A e \in Engines : ~Live(e)

(* For a careful application there is one engine that keeps a connection,  *)
(* "connected" means usable (#onConnected publishes it last), and          *)
(* "disconnected" means that nothing is left.                              *)
CarefulConnection == careful => OneLiveEngine /\ ConnectedIsUsable /\ StatusIsAccurate

(* Every engine, the replaced ones included, is led through the life an    *)
(* engine has: what the controller does to engines when calls, events and  *)
(* handshakes cross each other is what EngineLifecycle allows, which is    *)
(* what WebSocketEngine implements.                                        *)
Life(e) == INSTANCE EngineLifecycle WITH
             loop <- loop[e], terminated <- terminated[e], active <- active[e],
             socket <- socket[e], sockets <- sockets[e], restored <- restored[e]
EnginesAsPromised ==
  /\ \A e \in Engines : Life(e)!Init
  /\ [][\A e \in Engines : [Life(e)!Next]_(Life(e)!vars)]_vars

(* close() returns.                                                        *)
CloseReturns == \A e \in Engines : closing[e] ~> ~closing[e]

(* ready is "A promise which resolves when the connection is ready, or     *)
(* rejects if a connection error occurs" (api/surreal.ts), and connect()   *)
(* awaits it: once the engine is gone it has settled.                      *)
ReadySettles ==
  \A e \in Engines : connect[e] = "ready" /\ loop[e] = "done" ~> connect[e] # "ready"
=============================================================================
