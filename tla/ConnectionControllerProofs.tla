---------------------- MODULE ConnectionControllerProofs ----------------------
(***************************************************************************)
(* Proofs about the controller, for every number of connect() calls and of *)
(* sockets. Inv, which every application keeps, says which engine          *)
(* #nextEngine and #engine may name. Steady, which a careful one keeps,    *)
(* says that no two engines run at once, and what the status, the engine   *)
(* in place and the calls of #onConnected then tell of each other.         *)
(***************************************************************************)
EXTENDS ConnectionController, TLAPS

\* An engine is opened by its connect(), which was called before.
OpenedByConnect ==
  \A e \in Engines :
    /\ connect[e] \in {"idle", "closing", "superseded"} => loop[e] = "new"
    /\ e > made => connect[e] = "idle"

\* #nextEngine is the engine of the last connect() call.
NextIsLast == nextEngine \in {None, made}

\* Nothing newer than the engine in place was opened.
NothingNewer == engine # None => \A e \in Engines : e > engine => loop[e] = "new"

\* A loop that goes around again has a socket left.
CooldownSpare == \A e \in Engines : loop[e] = "cooldown" => sockets[e] < MaxSockets

Inv == TypeOK /\ OpenedByConnect /\ NextIsLast /\ NothingNewer /\ CooldownSpare

-----------------------------------------------------------------------------

LEMMA InitInv == Init => Inv
BY BoundsAssumption DEF Init, Inv, TypeOK, OpenedByConnect, NextIsLast, NothingNewer,
   CooldownSpare, Engines, None

\* What publishing "disconnected" and closing an engine do to the types.
LEMMA ClosedType ==
  ASSUME TypeOK, NEW e \in Engines, Closed(e)
  PROVE  terminated' \in [Engines -> BOOLEAN]
         /\ socket' \in [Engines -> {"none", "connecting", "open", "closing"}]
BY DEF TypeOK, Closed

LEMMA PublishType ==
  ASSUME TypeOK, NEW e \in Engines, PublishDisconnected(e)
  PROVE  /\ engine' = None /\ status' = "disconnected"
         /\ closing' \in [Engines -> BOOLEAN]
BY DEF TypeOK, PublishDisconnected

LEMMA ConnectInv ==
  ASSUME Inv, Connect, UNCHANGED careful
  PROVE  Inv'
<1> USE BoundsAssumption DEF Engines, None
<1>1. made \in 0..MaxEngines /\ made' = made + 1 /\ made' \in Engines /\ nextEngine' = made'
      /\ connect' = [connect EXCEPT ![made'] = "closing"] /\ loop' = loop
      /\ engine' \in {engine, None}
  BY DEF Inv, TypeOK, Connect, PublishDisconnected
<1>2. engine # None => engine \in Engines
  BY DEF Inv, TypeOK
<1>3. /\ terminated' \in [Engines -> BOOLEAN]
      /\ socket' \in [Engines -> {"none", "connecting", "open", "closing"}]
      /\ closing' \in [Engines -> BOOLEAN]
      /\ waits' \in [Engines -> Engines \cup {None}]
      /\ status' \in {"disconnected", "connecting", "connected", "reconnecting"}
  <2>1. CASE engine = None \/ terminated[engine]
    BY <2>1 DEF Inv, TypeOK, Connect
  <2>2. CASE ~(engine = None \/ terminated[engine])
    <3>1. engine \in Engines /\ Closed(engine)
      BY <1>2, <2>2 DEF Connect
    <3>2. CASE Waiting(engine)
      <4>1. /\ waits' = [waits EXCEPT ![made'] = engine]
            /\ status' = "connecting" /\ closing' = closing
        BY <2>2, <3>2 DEF Connect
      <4>2. waits' \in [Engines -> Engines \cup {None}]
        BY <1>1, <3>1, <4>1 DEF Inv, TypeOK
      <4> QED BY <3>1, <4>1, <4>2, ClosedType DEF Inv, TypeOK
    <3>3. CASE ~Waiting(engine)
      BY <2>2, <3>1, <3>3, ClosedType, PublishType DEF Inv, TypeOK, Connect
    <3> QED BY <3>2, <3>3
  <2> QED BY <2>1, <2>2
<1>4. TypeOK'
  BY SMTT(30), <1>1, <1>3 DEF Inv, TypeOK, Connect, handlerVars
<1>5. OpenedByConnect'
  BY <1>1 DEF Inv, TypeOK, OpenedByConnect
<1>6. NextIsLast' /\ NothingNewer' /\ CooldownSpare'
  BY <1>1 DEF Inv, NextIsLast, NothingNewer, CooldownSpare, Connect
<1> QED BY <1>4, <1>5, <1>6 DEF Inv

LEMMA ResumeInv ==
  ASSUME Inv, NEW e \in Engines, Resume(e), UNCHANGED careful
  PROVE  Inv'
<1> USE BoundsAssumption DEF Engines, None
<1>1. CASE ConnectResumes(e)
  <2>1. e = made /\ connect[e] = "closing"
    BY <1>1 DEF Inv, ConnectResumes, Resumable, IsLatest, NextIsLast
  <2>2. TypeOK'
    BY <1>1 DEF Inv, TypeOK, ConnectResumes, TakeOver, handlerVars
  <2>3. OpenedByConnect'
    BY <1>1, <2>1 DEF Inv, TypeOK, OpenedByConnect, ConnectResumes, TakeOver
  <2>5. NextIsLast' /\ CooldownSpare'
    BY <1>1 DEF Inv, TypeOK, NextIsLast, CooldownSpare, ConnectResumes, TakeOver
  <2>4. NothingNewer'
    BY <1>1, <2>1 DEF Inv, TypeOK, OpenedByConnect, NothingNewer, ConnectResumes, TakeOver
  <2> QED BY <2>2, <2>3, <2>4, <2>5 DEF Inv
<1>2. CASE ConnectSuperseded(e)
  BY <1>2 DEF Inv, TypeOK, OpenedByConnect, NextIsLast, NothingNewer, CooldownSpare,
     ConnectSuperseded,
     Resumable, controllerVars, engineVars, handlerVars
<1> QED BY <1>1, <1>2 DEF Resume

\* A step that opens no engine, and lets no connect() begin, keeps the rest.
LEMMA Kept ==
  ASSUME Inv, TypeOK',
         made' = made, nextEngine' = nextEngine, engine' \in {engine, None},
         \A e \in Engines : loop[e] = "new" => loop'[e] = "new",
         \A e \in Engines : connect'[e] # connect[e] =>
                              connect[e] = "ready" /\ connect'[e] \in {"resolved", "rejected"},
         \A e \in Engines : loop'[e] = "cooldown" =>
                              \/ loop[e] = "cooldown" /\ sockets'[e] = sockets[e]
                              \/ sockets'[e] < MaxSockets
  PROVE  Inv'
BY DEF Inv, OpenedByConnect, NextIsLast, NothingNewer, CooldownSpare, None

LEMMA DisconnectInv ==
  ASSUME Inv, Disconnect, UNCHANGED careful
  PROVE  Inv'
<1>1. engine \in Engines
  BY DEF Inv, TypeOK, Disconnect
<1>2. TypeOK'
  BY <1>1, ClosedType, PublishType DEF Inv, TypeOK, Disconnect, handlerVars
<1> QED BY <1>2, Kept DEF Disconnect, PublishDisconnected

LEMMA SocketOpensInv ==
  ASSUME Inv, NEW e \in Engines, SocketOpens(e), UNCHANGED careful
  PROVE  Inv'
<1> DEFINE h == <<e, sockets[e]>>
<1>1. TypeOK'
  <2>1. handler' \in [Handlers -> {"idle", "version", "restore", "failing", "ended"}]
    BY DEF Inv, TypeOK, SocketOpens
  <2>2. on' \in [Handlers -> Engines \cup {None}]
    BY DEF Inv, TypeOK, SocketOpens
  <2>3. inFlight' \in [Handlers -> BOOLEAN]
    BY DEF Inv, TypeOK, SocketOpens
  <2>4. connect' \in [Engines -> {"idle", "closing", "ready", "resolved", "rejected", "superseded"}]
    BY DEF Inv, TypeOK, SocketOpens, ErrorEvent
  <2> QED BY <2>1, <2>2, <2>3, <2>4 DEF Inv, TypeOK, SocketOpens, controllerVars
<1>2. \A f \in Engines : connect'[f] # connect[f] => connect[f] = "ready" /\ connect'[f] = "rejected"
  BY DEF Inv, TypeOK, SocketOpens, ErrorEvent
<1> QED BY <1>1, <1>2, Kept DEF SocketOpens, controllerVars

\* What a handler does, whatever it is told.
LEMMA CloseCurrentType ==
  ASSUME TypeOK, CloseCurrent
  PROVE  /\ engine' \in {engine, None}
         /\ status' \in {status, "disconnected"}
         /\ closing' \in [Engines -> BOOLEAN]
         /\ terminated' \in [Engines -> BOOLEAN]
         /\ socket' \in [Engines -> {"none", "connecting", "open", "closing"}]
<1>1. engine # None => engine \in Engines
  BY DEF TypeOK
<1> QED BY <1>1, ClosedType, PublishType DEF TypeOK, CloseCurrent

LEMMA FailInv ==
  ASSUME Inv, NEW h \in Handlers, Fail(h),
         UNCHANGED <<nextEngine, made, waits, loop, active, sockets>>,
         cachedVersion' \in Engines \cup {None}, UNCHANGED careful
  PROVE  Inv'
<1>1. TypeOK'
  <2>1. connect' \in [Engines -> {"idle", "closing", "ready", "resolved", "rejected", "superseded"}]
    BY DEF Inv, TypeOK, Fail, ErrorEvent
  <2> QED BY <2>1, CloseCurrentType DEF Inv, TypeOK, Fail
<1>2. \A f \in Engines : connect'[f] # connect[f] => connect[f] = "ready" /\ connect'[f] = "rejected"
  BY DEF Inv, TypeOK, Fail, ErrorEvent
<1>3. engine' \in {engine, None}
  BY CloseCurrentType DEF Inv, Fail
<1> QED BY <1>1, <1>2, <1>3, Kept

LEMMA HandlerInv ==
  ASSUME Inv, NEW h \in Handlers, Answer(h) \/ HandlerRejected(h), UNCHANGED careful
  PROVE  Inv'
<1>1. /\ UNCHANGED <<nextEngine, made, waits, loop, active, sockets>>
      /\ cachedVersion' \in {cachedVersion, on[h]}
  BY DEF Answer, HandlerGoesOn, HandlerGetsError, HandlerRejected, Answered
<1>2. cachedVersion' \in Engines \cup {None}
  BY <1>1 DEF Inv, TypeOK
<1>3. CASE Fail(h)
  BY <1>1, <1>2, <1>3, FailInv
<1>4. CASE Finish(h)
  <2>1. connect' \in [Engines -> {"idle", "closing", "ready", "resolved", "rejected", "superseded"}]
    BY <1>4 DEF Inv, TypeOK, Finish, ConnectedEvent
  <2>2. restored' \in [Engines -> BOOLEAN] /\ inFlight' \in [Handlers -> BOOLEAN]
    BY <1>4 DEF Inv, TypeOK, Finish
  <2>3. TypeOK'
    BY <1>1, <1>2, <1>4, <2>1, <2>2 DEF Inv, TypeOK, Finish
  <2>4. \A f \in Engines : connect'[f] # connect[f] => connect[f] = "ready" /\ connect'[f] = "resolved"
    BY <1>4 DEF Inv, TypeOK, Finish, ConnectedEvent
  <2> QED BY <1>1, <1>4, <2>3, <2>4, Kept DEF Finish
<1>5. CASE Call(h, "restore") /\ ~Fail(h)
  <2>a. /\ handler' \in [Handlers -> {"idle", "version", "restore", "failing", "ended"}]
        /\ UNCHANGED <<engine, status, connect, closing, terminated, socket, restored>>
    BY <1>5 DEF Inv, TypeOK, Call
  <2>b. engine # None
    BY <1>5 DEF Call
  <2>c. on' \in [Handlers -> Engines \cup {None}] /\ inFlight' \in [Handlers -> BOOLEAN]
    <3>1. engine \in Engines
      BY <2>b DEF Inv, TypeOK
    <3>2. CASE ~active[engine] \/ socket[engine] = "connecting"
      BY <1>5, <2>b, <3>2 DEF Inv, TypeOK, Call
    <3>3. CASE ~(~active[engine] \/ socket[engine] = "connecting")
      <4>1. /\ on' = [on EXCEPT ![h] = engine]
            /\ inFlight' = [inFlight EXCEPT ![h] = socket[engine] = "open"]
        BY <1>5, <2>b, <3>3 DEF Call
      <4> QED BY <3>1, <4>1 DEF Inv, TypeOK
    <3> QED BY <3>2, <3>3
  <2>1. TypeOK'
    BY <1>1, <1>2, <2>a, <2>c DEF Inv, TypeOK
  <2> QED BY <1>1, <1>5, <2>1, Kept DEF Call
<1> QED BY <1>3, <1>4, <1>5 DEF Answer, HandlerGoesOn, HandlerGetsError, HandlerRejected

LEMMA LoopInv ==
  ASSUME Inv, NEW e \in Engines,
         \/ SocketStartsClosing(e) \/ SocketClosesAndLoops(e) \/ SocketClosesForGood(e)
         \/ Timer(e),
         UNCHANGED careful
  PROVE  Inv'
<1>1. CASE SocketStartsClosing(e)
  BY <1>1 DEF Inv, TypeOK, OpenedByConnect, NextIsLast, NothingNewer, CooldownSpare,
     SocketStartsClosing,
     controllerVars, appVars, handlerVars
<1>2. CASE SocketClosesAndLoops(e)
  <2>1. TypeOK'
    BY <1>2 DEF Inv, TypeOK, SocketClosesAndLoops, OnReconnecting, LoseSocket, appVars
  <2> QED BY <1>2, <2>1, Kept DEF Inv, TypeOK, SocketClosesAndLoops, OnReconnecting, appVars
<1>3. CASE SocketClosesForGood(e)
  <2>1. handler' \in [Handlers -> {"idle", "version", "restore", "failing", "ended"}]
    BY <1>3 DEF Inv, TypeOK, SocketClosesForGood
  <2>2. waits' \in [Engines -> Engines \cup {None}]
    BY <1>3 DEF Inv, TypeOK, SocketClosesForGood
  <2>3. inFlight' \in [Handlers -> BOOLEAN]
        /\ socket' \in [Engines -> {"none", "connecting", "open", "closing"}]
    BY <1>3 DEF Inv, TypeOK, SocketClosesForGood, LoseSocket
  <2>4. engine' = None /\ status' = "disconnected" /\ closing' \in [Engines -> BOOLEAN]
    BY <1>3, PublishType DEF Inv, SocketClosesForGood
  <2>5. TypeOK'
    BY <1>3, <2>1, <2>2, <2>3, <2>4 DEF Inv, TypeOK, SocketClosesForGood
  <2> QED BY <1>3, <2>4, <2>5, Kept DEF Inv, TypeOK, SocketClosesForGood
<1>4. CASE CooldownEnds(e)
  <2>1. sockets[e] + 1 \in 0..MaxSockets
    <3>1. sockets[e] \in 0..MaxSockets /\ sockets[e] < MaxSockets
      BY <1>4 DEF Inv, TypeOK, CooldownSpare, CooldownEnds
    <3> QED BY <3>1, BoundsAssumption
  <2>2. TypeOK'
    BY <1>4, <2>1 DEF Inv, TypeOK, CooldownEnds, controllerVars, appVars, handlerVars
  <2> QED BY <1>4, <2>2, Kept DEF Inv, TypeOK, CooldownEnds, controllerVars, appVars
<1>5. CASE CooldownEndsClosed(e)
  <2>1. TypeOK'
    BY <1>5 DEF Inv, TypeOK, CooldownEndsClosed, controllerVars, appVars, handlerVars
  <2> QED BY <1>5, <2>1, Kept DEF Inv, TypeOK, CooldownEndsClosed, controllerVars, appVars
<1> QED BY <1>1, <1>2, <1>3, <1>4, <1>5 DEF Timer

LEMMA NextInv == Inv /\ [Next /\ UNCHANGED careful]_<<vars, careful>> => Inv'
<1> SUFFICES ASSUME Inv, [Next]_vars, UNCHANGED careful PROVE Inv'
  OBVIOUS
<1>1. CASE UNCHANGED vars
  BY <1>1 DEF Inv, TypeOK, OpenedByConnect, NextIsLast, NothingNewer, CooldownSpare, vars,
     controllerVars,
     appVars, engineVars, handlerVars
<1> QED
  BY <1>1, ConnectInv, DisconnectInv, ResumeInv, SocketOpensInv, LoopInv, HandlerInv
     DEF Next, Application, Network

-----------------------------------------------------------------------------
(* The careful application.                                                *)

Running(e) == loop[e] \in {"socket", "cooldown"}

\* There is no second engine, closed or not.
OneRunning == \A e, f \in Engines : Running(e) /\ Running(f) => e = f

\* It is the one in place, or it was closed; the one in place runs.
LiveInPlace == \A e \in Engines : Live(e) => engine = e
InPlaceRuns ==
  engine # None => Running(engine) /\ (terminated[engine] => socket[engine] = "closing")

SocketsAndLoops ==
  \A e \in Engines :
    /\ (loop[e] = "socket") <=> (socket[e] # "none")
    /\ terminated[e] => socket[e] \in {"none", "closing"} /\ loop[e] # "new"

\* While a connect() awaits its disconnect(), there is no other, nothing keeps
\* a connection, and when it may go on nothing runs.
ConnectsAlone ==
  \A e \in Engines : connect[e] = "closing" =>
    /\ \A f \in Engines : connect[f] = "closing" => e = f
    /\ \A f \in Engines : ~Live(f)
    /\ waits[e] = None => \A f \in Engines : ~Running(f)

StatusOfEngine ==
  /\ status = "disconnected" => engine = None
  /\ status = "connected" =>
       /\ engine # None /\ restored[engine] /\ cachedVersion = engine
       /\ socket[engine] \in {"open", "closing"}

\* A call that can be answered is on a socket that is not lost yet, and once
\* the version is known it is the one of that socket's engine.
Awaits(h) == handler[h] \in {"version", "restore"} /\ inFlight[h]
CallsOnSockets ==
  \A h \in Handlers : Awaits(h) =>
    /\ on[h] # None /\ socket[on[h]] \in {"open", "closing"}
    /\ handler[h] = "restore" => cachedVersion = on[h]

Steady ==
  /\ OneRunning /\ LiveInPlace /\ InPlaceRuns /\ SocketsAndLoops
  /\ ConnectsAlone /\ StatusOfEngine /\ CallsOnSockets

LEMMA InitSteady == Init => Steady
BY DEF Init, Steady, OneRunning, LiveInPlace, InPlaceRuns, SocketsAndLoops, ConnectsAlone,
   StatusOfEngine, CallsOnSockets, Running, Live, Awaits, None

\* When a careful application calls, a connection is in place and usable, or
\* nothing runs.
LEMMA AtCall ==
  ASSUME Inv, Steady, CarefulCall
  PROVE  /\ engine = None \/ terminated[engine] => \A f \in Engines : ~Running(f)
         /\ ~(engine = None \/ terminated[engine]) =>
              /\ engine \in Engines /\ Waiting(engine)
              /\ \A f \in Engines : Running(f) => f = engine
         /\ \A f \in Engines : connect[f] # "closing"
<1>1. engine # None => engine \in Engines
  BY DEF Inv, TypeOK
<1>2. \A f \in Engines : Running(f) => Live(f)
  BY DEF CarefulCall, Running, Live
<1>3. \A f \in Engines : Running(f) => engine = f
  BY <1>2 DEF Steady, LiveInPlace
<1>4. \A f \in Engines : connect[f] # "closing"
  BY DEF CarefulCall, Settled
<1>5. CASE engine = None \/ terminated[engine]
  <2>1. \A f \in Engines : ~Running(f)
    BY <1>2, <1>3, <1>5 DEF Live, Engines, None
  <2> QED BY <1>4, <1>5, <2>1
<1>6. CASE ~(engine = None \/ terminated[engine])
  <2>1. engine \in Engines /\ terminated[engine] = FALSE
    BY <1>1, <1>6 DEF Inv, TypeOK
  <2>2. status = "connected"
    BY <1>6 DEF CarefulCall, Steady, StatusOfEngine
  <2>3. Waiting(engine)
    BY <2>1, <2>2 DEF Steady, StatusOfEngine, Waiting
  <2> QED BY <1>3, <1>4, <1>6, <2>1, <2>3
<1> QED BY <1>5, <1>6

LEMMA ConnectSteady ==
  ASSUME Inv, Steady, careful, Connect
  PROVE  Steady'
<1> USE BoundsAssumption DEF Engines, None
<1>1. /\ made \in 0..MaxEngines /\ made' = made + 1 /\ made' \in Engines
      /\ connect' = [connect EXCEPT ![made'] = "closing"] /\ CarefulCall
      /\ UNCHANGED <<loop, restored, cachedVersion, handler, on, inFlight>>
      /\ connect \in [Engines -> {"idle", "closing", "ready", "resolved", "rejected", "superseded"}]
  BY DEF Inv, TypeOK, Connect, MayCall, handlerVars
<1>2. CASE engine = None \/ terminated[engine]
  <2>1. /\ UNCHANGED <<engine, terminated, socket, waits>> /\ status' = "connecting"
        /\ \A f \in Engines : ~Running(f)
        /\ \A f \in Engines : connect[f] # "closing"
    BY <1>1, <1>2, AtCall DEF Connect
  <2> QED BY <1>1, <2>1 DEF Steady, OneRunning, LiveInPlace, InPlaceRuns, SocketsAndLoops,
     ConnectsAlone,
             StatusOfEngine, CallsOnSockets, Running, Live, Awaits
<1>3. CASE ~(engine = None \/ terminated[engine])
  <2>1. /\ engine \in Engines /\ Waiting(engine)
        /\ \A f \in Engines : Running(f) => f = engine
        /\ \A f \in Engines : connect[f] # "closing"
    BY <1>1, <1>3, AtCall
  <2>2. /\ Closed(engine) /\ status' = "connecting" /\ engine' = engine
        /\ waits' = [waits EXCEPT ![made'] = engine]
    BY <1>3, <2>1 DEF Connect
  <2>3. /\ terminated' = [terminated EXCEPT ![engine] = TRUE]
        /\ socket' = [socket EXCEPT ![engine] = "closing"]
        /\ socket[engine] \in {"open", "closing"}
    BY <2>1, <2>2 DEF Closed, Waiting
  <2>4. /\ terminated \in [Engines -> BOOLEAN] /\ waits \in [Engines -> Engines \cup {None}]
        /\ socket \in [Engines -> {"none", "connecting", "open", "closing"}]
    BY DEF Inv, TypeOK
  <2>5. (OneRunning /\ LiveInPlace /\ InPlaceRuns)'
    BY <1>1, <2>1, <2>2, <2>3, <2>4 DEF Steady, OneRunning, LiveInPlace, InPlaceRuns, Running,
       Live
  <2>6. SocketsAndLoops'
    BY <1>1, <2>1, <2>3, <2>4 DEF Steady, SocketsAndLoops, InPlaceRuns, Running
  <2>7. ConnectsAlone'
    <3>1. \A f \in Engines : ~Live(f)'
      BY <1>1, <2>1, <2>3, <2>4 DEF Running, Live
    <3>2. waits'[made'] # None
      BY <1>1, <2>1, <2>2, <2>4
    <3> QED BY <1>1, <2>1, <2>2, <3>1, <3>2 DEF ConnectsAlone
  <2>8. StatusOfEngine' /\ CallsOnSockets'
    BY <1>1, <2>1, <2>2, <2>3, <2>4 DEF Steady, StatusOfEngine, CallsOnSockets, Awaits
  <2> QED BY <2>5, <2>6, <2>7, <2>8 DEF Steady
<1> QED BY <1>2, <1>3

LEMMA DisconnectSteady ==
  ASSUME Inv, Steady, careful, Disconnect
  PROVE  Steady'
<1>1. /\ engine \in Engines /\ Waiting(engine) /\ Closed(engine) /\ CarefulCall
      /\ \A f \in Engines : Running(f) => f = engine
      /\ \A f \in Engines : connect[f] # "closing"
  BY AtCall DEF Disconnect, MayCall
<1>2. UNCHANGED <<engine, status, connect, waits, loop, restored, cachedVersion, handler, on, inFlight>>
  BY <1>1 DEF Disconnect, handlerVars
<1>3. /\ terminated' = [terminated EXCEPT ![engine] = TRUE]
      /\ socket' = [socket EXCEPT ![engine] = "closing"]
      /\ socket[engine] \in {"open", "closing"}
  BY <1>1 DEF Closed, Waiting
<1>4. /\ terminated \in [Engines -> BOOLEAN]
      /\ socket \in [Engines -> {"none", "connecting", "open", "closing"}]
  BY DEF Inv, TypeOK
<1>5. (OneRunning /\ LiveInPlace /\ InPlaceRuns)'
  BY <1>1, <1>2, <1>3, <1>4 DEF Steady, OneRunning, LiveInPlace, InPlaceRuns, Running, Live
<1>6. SocketsAndLoops'
  BY <1>1, <1>2, <1>3, <1>4 DEF Steady, SocketsAndLoops, InPlaceRuns, Running
<1>7. ConnectsAlone'
  BY <1>1, <1>2 DEF ConnectsAlone
<1>8. StatusOfEngine' /\ CallsOnSockets'
  BY <1>1, <1>2, <1>3, <1>4 DEF Steady, StatusOfEngine, CallsOnSockets, Awaits
<1> QED BY <1>5, <1>6, <1>7, <1>8 DEF Steady

LEMMA ResumeSteady ==
  ASSUME Inv, Steady, NEW e \in Engines, Resume(e)
  PROVE  Steady'
<1>1. CASE ConnectSuperseded(e)
  <2>1. /\ UNCHANGED <<engine, status, cachedVersion, waits, loop, terminated, socket, restored,
                       handler, on, inFlight>>
        /\ connect' = [connect EXCEPT ![e] = "superseded"]
    BY <1>1 DEF ConnectSuperseded, controllerVars, engineVars, handlerVars
  <2>2. connect \in [Engines -> {"idle", "closing", "ready", "resolved", "rejected", "superseded"}]
    BY DEF Inv, TypeOK
  <2>3. ConnectsAlone'
    BY <2>1, <2>2 DEF Steady, ConnectsAlone, Running, Live
  <2> QED BY <2>1, <2>3 DEF Steady, OneRunning, LiveInPlace, InPlaceRuns, SocketsAndLoops,
             StatusOfEngine, CallsOnSockets, Running, Live, Awaits
<1>2. CASE ConnectResumes(e)
  <2>1. /\ engine' = e /\ status' = "connecting"
        /\ loop' = [loop EXCEPT ![e] = "socket"]
        /\ socket' = [socket EXCEPT ![e] = "connecting"]
        /\ connect' = [connect EXCEPT ![e] = "ready"]
        /\ UNCHANGED <<cachedVersion, waits, terminated, restored, handler, on, inFlight>>
        /\ connect[e] = "closing" /\ waits[e] = None
    BY <1>2 DEF ConnectResumes, TakeOver, Resumable, handlerVars
  <2>2. /\ loop \in [Engines -> {"new", "socket", "cooldown", "done"}]
        /\ socket \in [Engines -> {"none", "connecting", "open", "closing"}]
        /\ connect \in [Engines -> {"idle", "closing", "ready", "resolved", "rejected", "superseded"}]
        /\ loop[e] = "new" /\ e # None
        /\ on \in [Handlers -> Engines \cup {None}]
    BY <2>1 DEF Inv, TypeOK, OpenedByConnect, Engines, None
  <2>3. \A f \in Engines : ~Running(f) /\ (connect[f] = "closing" => f = e)
    BY <2>1 DEF Steady, ConnectsAlone
  <2>4. terminated[e] # TRUE /\ socket[e] = "none"
    BY <2>2 DEF Steady, SocketsAndLoops
  <2>5. (OneRunning /\ LiveInPlace /\ InPlaceRuns)'
    BY <2>1, <2>2, <2>3, <2>4 DEF OneRunning, LiveInPlace, InPlaceRuns, Running, Live
  <2>6. SocketsAndLoops'
    BY <2>1, <2>2, <2>4 DEF Steady, SocketsAndLoops
  <2>7. ConnectsAlone'
    BY <2>1, <2>2, <2>3 DEF ConnectsAlone
  <2>8. StatusOfEngine' /\ CallsOnSockets'
    BY <2>1, <2>2, <2>4 DEF Steady, StatusOfEngine, CallsOnSockets, Awaits
  <2> QED BY <2>5, <2>6, <2>7, <2>8 DEF Steady
<1> QED BY <1>1, <1>2 DEF Resume

\* What CloseCurrent does, in a steady state: the one that runs, if any, is
\* closed, and stays in place until its socket is gone.
LEMMA CloseCurrentSteady ==
  ASSUME Inv, Steady, CloseCurrent
  PROVE  /\ engine' \in {engine, None}
         /\ status' # status => status' = "disconnected" /\ engine' = None
         /\ engine' # engine => status' = "disconnected"
         /\ \A f \in Engines : terminated[f] => terminated'[f]
         /\ \A f \in Engines :
              \/ terminated'[f] = terminated[f] /\ socket'[f] = socket[f]
              \/ /\ terminated'[f] /\ f = engine /\ socket[f] # "connecting"
                 /\ socket'[f] = IF socket[f] = "none" THEN "none" ELSE "closing"
              \/ /\ terminated'[f] /\ f = engine /\ engine' = None
                 /\ socket'[f] = IF socket[f] = "none" THEN "none" ELSE "closing"
         /\ engine # None => terminated'[engine]
         /\ engine' # None => socket'[engine] = "closing"
<1>1. engine # None => engine \in Engines /\ engine # None
  BY DEF Inv, TypeOK
<1>2. /\ terminated \in [Engines -> BOOLEAN]
      /\ socket \in [Engines -> {"none", "connecting", "open", "closing"}]
  BY DEF Inv, TypeOK
<1>3. CASE engine = None \/ terminated[engine]
  <2>1. UNCHANGED <<engine, status, terminated, socket>>
    BY <1>3 DEF CloseCurrent
  <2>2. engine # None => terminated[engine] /\ socket[engine] = "closing"
    BY <1>3 DEF Steady, InPlaceRuns
  <2> QED BY <2>1, <2>2
<1>4. CASE ~(engine = None \/ terminated[engine])
  <2>1. /\ engine \in Engines
        /\ terminated' = [terminated EXCEPT ![engine] = TRUE]
        /\ socket' = [socket EXCEPT ![engine] = IF @ = "none" THEN @ ELSE "closing"]
    BY <1>1, <1>4 DEF CloseCurrent, Closed
  <2>2. CASE Waiting(engine)
    <3>1. engine' = engine /\ status' = status
      BY <1>4, <2>2 DEF CloseCurrent
    <3> QED BY <1>2, <2>1, <2>2, <3>1 DEF Waiting
  <2>3. CASE ~Waiting(engine)
    <3>1. engine' = None /\ status' = "disconnected"
      BY <1>4, <2>3 DEF CloseCurrent, PublishDisconnected
    <3> QED BY <1>2, <2>1, <3>1
  <2> QED BY <2>2, <2>3
<1> QED BY <1>3, <1>4

LEMMA FailSteady ==
  ASSUME Inv, Steady, NEW h \in Handlers, Fail(h),
         UNCHANGED <<waits, loop>>,
         \/ UNCHANGED cachedVersion
         \/ Awaits(h) /\ socket[on[h]] = "open" /\ cachedVersion' = on[h]
  PROVE  Steady'
<1>1. /\ CloseCurrent
      /\ handler' = [handler EXCEPT ![h] = "ended"] /\ UNCHANGED <<restored, on, inFlight>>
      /\ \A f \in Engines : connect'[f] = "closing" <=> connect[f] = "closing"
  BY DEF Fail, ErrorEvent
<1>2. /\ engine # None => engine \in Engines
      /\ terminated \in [Engines -> BOOLEAN] /\ terminated' \in [Engines -> BOOLEAN]
      /\ handler \in [Handlers -> {"idle", "version", "restore", "failing", "ended"}]
      /\ on \in [Handlers -> Engines \cup {None}]
      /\ None \notin Engines
  BY <1>1, CloseCurrentType DEF Inv, TypeOK, Engines, None
<1>3. (OneRunning /\ LiveInPlace /\ InPlaceRuns)'
  BY <1>1, <1>2, CloseCurrentSteady DEF Steady, OneRunning, LiveInPlace, InPlaceRuns, Running,
     Live
<1>4. SocketsAndLoops'
  BY <1>1, <1>2, CloseCurrentSteady DEF Steady, SocketsAndLoops, InPlaceRuns, Running
<1>5. ConnectsAlone'
  BY <1>1, <1>2, CloseCurrentSteady DEF Steady, ConnectsAlone, Running, Live
<1>6. \A f \in Engines : socket[f] \in {"open", "closing"} => socket'[f] \in {"open", "closing"}
  BY <1>1, <1>2, CloseCurrentSteady
\* The version is set on behalf of the engine that runs.
<1>7. cachedVersion' # cachedVersion =>
        /\ cachedVersion' = on[h] /\ on[h] \in Engines /\ Running(on[h])
        /\ \A f \in Engines : Running(f) => f = on[h]
  BY <1>2 DEF Steady, CallsOnSockets, SocketsAndLoops, OneRunning, Running
<1>8. StatusOfEngine'
  <2>1. CASE engine' = None
    BY <1>1, <2>1, CloseCurrentSteady DEF Steady, StatusOfEngine
  <2>2. CASE engine' # None
    <3>1. engine' = engine /\ status' = status /\ engine \in Engines
      BY <1>1, <1>2, <2>2, CloseCurrentSteady
    <3>2. cachedVersion' # cachedVersion => cachedVersion' = engine
      BY <1>7, <2>2, <3>1 DEF Steady, InPlaceRuns
    <3> QED BY <1>1, <1>6, <3>1, <3>2 DEF Steady, StatusOfEngine
  <2> QED BY <2>1, <2>2
<1>9. CallsOnSockets'
  <2> SUFFICES ASSUME NEW g \in Handlers, Awaits(g)'
               PROVE  /\ on'[g] # None /\ socket'[on'[g]] \in {"open", "closing"}
                      /\ handler'[g] = "restore" => cachedVersion' = on'[g]
    BY DEF CallsOnSockets
  <2>1. Awaits(g) /\ handler'[g] = handler[g] /\ on'[g] = on[g]
    BY <1>1, <1>2 DEF Awaits
  <2>2. on[g] \in Engines /\ socket[on[g]] \in {"open", "closing"} /\ Running(on[g])
        /\ (handler[g] = "restore" => cachedVersion = on[g])
    BY <1>2, <2>1 DEF Steady, CallsOnSockets, SocketsAndLoops, Running
  <2>3. cachedVersion' # cachedVersion => cachedVersion' = on[g]
    BY <1>7, <2>2
  <2>4. socket'[on[g]] \in {"open", "closing"} /\ on[g] # None
    BY <1>2, <1>6, <2>2
  <2> QED BY <2>1, <2>2, <2>3, <2>4
<1> QED BY <1>3, <1>4, <1>5, <1>8, <1>9 DEF Steady

\* A call that is answered was sent to the one engine that runs, which is in
\* place and open.
LEMMA AnsweredInPlace ==
  ASSUME Inv, Steady, NEW h \in Handlers, Answered(h)
  PROVE  /\ engine \in Engines /\ on[h] = engine /\ socket[engine] = "open"
         /\ ~terminated[engine] /\ Running(engine) /\ Awaits(h)
         /\ handler[h] = "restore" => cachedVersion = engine
         /\ \A g \in Handlers : Awaits(g) => on[g] = engine
<1>1. Awaits(h) /\ socket[on[h]] = "open"
  BY DEF Answered, Awaits
<1>2. on \in [Handlers -> Engines \cup {None}]
  BY DEF Inv, TypeOK
<1>3. \A g \in Handlers : Awaits(g) => on[g] \in Engines /\ Running(on[g])
  BY <1>2 DEF Steady, CallsOnSockets, SocketsAndLoops, Running
<1>4. on[h] \in Engines /\ Running(on[h]) /\ ~terminated[on[h]]
  BY <1>1, <1>3 DEF Steady, SocketsAndLoops
<1>5. engine = on[h]
  BY <1>4 DEF Steady, LiveInPlace, Live, Running
<1>6. \A g \in Handlers : Awaits(g) => on[g] = engine
  BY <1>3, <1>4, <1>5 DEF Steady, OneRunning
<1> QED BY <1>1, <1>4, <1>5, <1>6 DEF Steady, CallsOnSockets

LEMMA GoesOnSteady ==
  ASSUME Inv, Steady, NEW h \in Handlers, HandlerGoesOn(h), ~Fail(h)
  PROVE  Steady'
<1>1. /\ UNCHANGED <<waits, loop, active>> /\ Answered(h)
      /\ cachedVersion' = IF handler[h] = "version" THEN on[h] ELSE cachedVersion
  BY DEF HandlerGoesOn, Answered
<1>2. /\ engine \in Engines /\ on[h] = engine /\ socket[engine] = "open"
      /\ ~terminated[engine] /\ Running(engine) /\ Awaits(h)
      /\ \A g \in Handlers : Awaits(g) => on[g] = engine
      /\ handler[h] = "restore" => cachedVersion = engine
  BY <1>1, AnsweredInPlace
<1>3. cachedVersion' = engine
  BY <1>1, <1>2 DEF Awaits
<1>4. /\ handler \in [Handlers -> {"idle", "version", "restore", "failing", "ended"}]
      /\ on \in [Handlers -> Engines \cup {None}] /\ inFlight \in [Handlers -> BOOLEAN]
      /\ restored \in [Engines -> BOOLEAN]
      /\ engine # None
  BY <1>2 DEF Inv, TypeOK, Engines, None
<1>5. CASE Finish(h)
  <2>1. /\ UNCHANGED <<engine, terminated, socket, on>> /\ status' = "connected"
        /\ handler' = [handler EXCEPT ![h] = "ended"]
        /\ restored' = [e \in Engines |-> (restored[e] \/ (e = engine /\ socket[e] = "open"))]
        /\ \A f \in Engines : connect'[f] = "closing" <=> connect[f] = "closing"
        /\ inFlight' = [g \in Handlers |->
                         \/ inFlight[g]
                         \/ g # h /\ handler[g] \in {"version", "restore"}
                                  /\ on[g] = engine /\ socket[on[g]] = "open"]
    BY <1>5 DEF Finish, ConnectedEvent
  <2>2. OneRunning' /\ LiveInPlace' /\ InPlaceRuns' /\ SocketsAndLoops' /\ ConnectsAlone'
    BY <1>1, <2>1 DEF Steady, OneRunning, LiveInPlace, InPlaceRuns, SocketsAndLoops,
       ConnectsAlone,
       Running, Live
  <2>3. StatusOfEngine'
    BY <1>2, <1>3, <1>4, <2>1 DEF StatusOfEngine
  <2>4. CallsOnSockets'
    <3> SUFFICES ASSUME NEW g \in Handlers, Awaits(g)'
                 PROVE  on[g] = engine
      BY <1>2, <1>3, <1>4, <2>1 DEF CallsOnSockets
    <3>1. handler[g] \in {"version", "restore"}
      BY <1>4, <2>1 DEF Awaits
    <3>2. inFlight[g] \/ on[g] = engine
      BY <2>1 DEF Awaits
    <3> QED BY <1>2, <3>1, <3>2 DEF Awaits
  <2> QED BY <2>2, <2>3, <2>4 DEF Steady
<1>6. CASE Call(h, "restore")
  <2>1. UNCHANGED <<engine, status, connect, terminated, socket, restored>>
    BY <1>4, <1>6 DEF Call
  <2>2. OneRunning' /\ LiveInPlace' /\ InPlaceRuns' /\ SocketsAndLoops' /\ ConnectsAlone'
    BY <1>1, <2>1 DEF Steady, OneRunning, LiveInPlace, InPlaceRuns, SocketsAndLoops,
       ConnectsAlone,
       Running, Live
  <2>3. StatusOfEngine'
    BY <1>3, <2>1 DEF Steady, StatusOfEngine
  <2>4. CallsOnSockets'
    <3> SUFFICES ASSUME NEW g \in Handlers, Awaits(g)'
                 PROVE  on'[g] = engine
      BY <1>2, <1>3, <1>4, <2>1 DEF CallsOnSockets
    <3>1. CASE ~active[engine] \/ socket[engine] = "connecting"
      <4>1. handler' = [handler EXCEPT ![h] = "failing"] /\ UNCHANGED <<on, inFlight>>
        BY <1>4, <1>6, <3>1 DEF Call
      <4> QED BY <1>2, <1>4, <4>1 DEF Awaits
    <3>2. CASE ~(~active[engine] \/ socket[engine] = "connecting")
      <4>1. /\ handler' = [handler EXCEPT ![h] = "restore"] /\ on' = [on EXCEPT ![h] = engine]
            /\ inFlight' = [inFlight EXCEPT ![h] = socket[engine] = "open"]
        BY <1>4, <1>6, <3>2 DEF Call
      <4>2. CASE g = h
        BY <1>4, <4>1, <4>2
      <4>3. CASE g # h
        BY <1>2, <1>4, <4>1, <4>3 DEF Awaits
      <4> QED BY <4>2, <4>3
    <3> QED BY <3>1, <3>2
  <2> QED BY <2>2, <2>3, <2>4 DEF Steady
<1> QED BY <1>5, <1>6 DEF HandlerGoesOn

LEMMA HandlerSteady ==
  ASSUME Inv, Steady, NEW h \in Handlers, Answer(h) \/ HandlerRejected(h)
  PROVE  Steady'
<1>1. CASE Fail(h)
  <2>1. UNCHANGED <<waits, loop>>
    BY DEF Answer, HandlerGoesOn, HandlerGetsError, HandlerRejected, Answered
  <2>2. \/ UNCHANGED cachedVersion
        \/ Awaits(h) /\ socket[on[h]] = "open" /\ cachedVersion' = on[h]
    BY DEF Answer, HandlerGoesOn, HandlerGetsError, HandlerRejected, Answered, Awaits
  <2> QED BY <1>1, <2>1, <2>2, FailSteady
<1>2. CASE ~Fail(h)
  BY <1>2, GoesOnSteady DEF Answer, HandlerGetsError, HandlerRejected
<1> QED BY <1>1, <1>2

LEMMA SocketOpensSteady ==
  ASSUME Inv, Steady, NEW e \in Engines, SocketOpens(e)
  PROVE  Steady'
<1> DEFINE h == <<e, sockets[e]>>
<1>1. /\ loop \in [Engines -> {"new", "socket", "cooldown", "done"}]
      /\ socket \in [Engines -> {"none", "connecting", "open", "closing"}]
      /\ handler \in [Handlers -> {"idle", "version", "restore", "failing", "ended"}]
      /\ on \in [Handlers -> Engines \cup {None}] /\ inFlight \in [Handlers -> BOOLEAN]
      /\ e # None
  BY DEF Inv, TypeOK, Engines, None
\* It is the socket of the engine in place, on which no call can be answered yet.
<1>2. socket[e] = "connecting" /\ Running(e) /\ ~terminated[e]
  BY DEF SocketOpens, Steady, SocketsAndLoops, Running
<1>3. engine = e
  BY <1>2 DEF Steady, LiveInPlace, Live, Running
<1>4. \A g \in Handlers : ~Awaits(g)
  BY <1>1, <1>2 DEF Steady, CallsOnSockets, SocketsAndLoops, OneRunning, Running
<1>5. /\ UNCHANGED <<engine, status, cachedVersion, waits, loop, terminated, restored, connect>>
      /\ socket' = [socket EXCEPT ![e] = "open"]
      /\ handler' = [handler EXCEPT ![h] = "version"]
      /\ on' = [on EXCEPT ![h] = e]
      /\ inFlight' = [inFlight EXCEPT ![h] = TRUE]
  BY <1>1, <1>3 DEF SocketOpens, controllerVars
<1>6. (OneRunning /\ LiveInPlace /\ ConnectsAlone)'
  BY <1>5 DEF Steady, OneRunning, LiveInPlace, ConnectsAlone, Running, Live
<1>7. (InPlaceRuns /\ SocketsAndLoops)'
  BY <1>1, <1>2, <1>3, <1>5 DEF Steady, InPlaceRuns, SocketsAndLoops, Running
<1>8. StatusOfEngine'
  BY <1>2, <1>3, <1>5 DEF Steady, StatusOfEngine
<1>9. CallsOnSockets'
  <2> SUFFICES ASSUME NEW g \in Handlers, Awaits(g)'
               PROVE  g = h
    BY <1>1, <1>5 DEF CallsOnSockets
  <2> QED BY <1>1, <1>4, <1>5 DEF Awaits
<1> QED BY <1>6, <1>7, <1>8, <1>9 DEF Steady

\* What a socket loses with it: no call that can be answered is left.
LEMMA LostSocket ==
  ASSUME Inv, Steady, NEW e \in Engines, loop[e] = "socket", LoseSocket(e),
         UNCHANGED on,
         \A h \in Handlers : handler'[h] \in {handler[h], "failing"}
  PROVE  /\ socket' = [socket EXCEPT ![e] = "none"]
         /\ \A f \in Engines : Running(f) => f = e
         /\ \A h \in Handlers : ~Awaits(h)'
<1>1. socket' = [socket EXCEPT ![e] = "none"]
      /\ inFlight' = [h \in Handlers |-> inFlight[h] /\ on[h] # e]
  BY DEF LoseSocket
<1>2. \A f \in Engines : Running(f) => f = e
  BY DEF Steady, OneRunning, Running
<1>3. on \in [Handlers -> Engines \cup {None}]
  BY DEF Inv, TypeOK
<1>4. \A h \in Handlers : Awaits(h) => on[h] = e
  BY <1>2, <1>3 DEF Steady, CallsOnSockets, SocketsAndLoops, Running
<1>5. \A h \in Handlers : ~Awaits(h)'
  BY <1>1, <1>4 DEF Awaits
<1> QED BY <1>1, <1>2, <1>5

LEMMA LoopSteady ==
  ASSUME Inv, Steady, NEW e \in Engines,
         \/ SocketStartsClosing(e) \/ SocketClosesAndLoops(e) \/ SocketClosesForGood(e)
         \/ Timer(e)
  PROVE  Steady'
<1>1. /\ loop \in [Engines -> {"new", "socket", "cooldown", "done"}]
      /\ socket \in [Engines -> {"none", "connecting", "open", "closing"}]
      /\ on \in [Handlers -> Engines \cup {None}]
      /\ waits \in [Engines -> Engines \cup {None}]
      /\ restored \in [Engines -> BOOLEAN]
      /\ e # None
  BY DEF Inv, TypeOK, Engines, None
<1>2. CASE SocketStartsClosing(e)
  <2>1. /\ UNCHANGED <<engine, status, cachedVersion, connect, waits, loop, terminated, restored,
                       handler, on, inFlight>>
        /\ socket[e] = "open" /\ socket' = [socket EXCEPT ![e] = "closing"]
    BY <1>2 DEF SocketStartsClosing, controllerVars, appVars, handlerVars
  <2>2. (OneRunning /\ LiveInPlace /\ InPlaceRuns /\ ConnectsAlone)'
    BY <1>1, <2>1 DEF Steady, OneRunning, LiveInPlace, InPlaceRuns, ConnectsAlone, Running, Live
  <2>3. SocketsAndLoops'
    BY <1>1, <2>1 DEF Steady, SocketsAndLoops
  <2>4. StatusOfEngine'
    BY <1>1, <2>1 DEF Steady, StatusOfEngine
  <2>5. CallsOnSockets'
    BY <1>1, <2>1 DEF Steady, CallsOnSockets, Awaits
  <2> QED BY <2>2, <2>3, <2>4, <2>5 DEF Steady
<1>3. CASE SocketClosesAndLoops(e)
  <2>1. /\ UNCHANGED <<engine, cachedVersion, connect, waits, terminated, restored, handler, on>>
        /\ status' = "reconnecting"
        /\ loop[e] = "socket" /\ ~terminated[e] /\ LoseSocket(e)
        /\ loop' = [loop EXCEPT ![e] = "cooldown"]
    BY <1>3 DEF SocketClosesAndLoops, OnReconnecting, appVars
  <2>2. /\ socket' = [socket EXCEPT ![e] = "none"]
        /\ \A f \in Engines : Running(f) => f = e
        /\ \A h \in Handlers : ~Awaits(h)'
    BY <2>1, LostSocket
  <2>3. (OneRunning /\ LiveInPlace /\ InPlaceRuns /\ ConnectsAlone)'
    BY <1>1, <2>1, <2>2 DEF Steady, OneRunning, LiveInPlace, InPlaceRuns, ConnectsAlone, Running,
       Live
  <2>4. SocketsAndLoops'
    BY <1>1, <2>1, <2>2 DEF Steady, SocketsAndLoops
  <2>5. StatusOfEngine' /\ CallsOnSockets'
    BY <2>1, <2>2 DEF StatusOfEngine, CallsOnSockets
  <2> QED BY <2>3, <2>4, <2>5 DEF Steady
<1>4. CASE SocketClosesForGood(e)
  <2>1. /\ engine' = None /\ status' = "disconnected"
        /\ UNCHANGED <<cachedVersion, connect, terminated, restored, on>>
        /\ loop[e] = "socket" /\ LoseSocket(e)
        /\ loop' = [loop EXCEPT ![e] = "done"]
        /\ \A h \in Handlers : handler'[h] \in {handler[h], "failing"}
        /\ waits' = [c \in Engines |-> IF waits[c] = e THEN None ELSE waits[c]]
    BY <1>4 DEF SocketClosesForGood, PublishDisconnected
  <2>2. /\ socket' = [socket EXCEPT ![e] = "none"]
        /\ \A f \in Engines : Running(f) => f = e
        /\ \A h \in Handlers : ~Awaits(h)'
    BY <2>1, LostSocket
  <2>3. \A f \in Engines : ~Running(f)'
    BY <1>1, <2>1, <2>2 DEF Running
  <2>4. (OneRunning /\ LiveInPlace /\ InPlaceRuns)'
    BY <2>1, <2>3 DEF OneRunning, LiveInPlace, InPlaceRuns, Running, Live
  <2>5. ConnectsAlone'
    BY <2>1, <2>3 DEF Steady, ConnectsAlone, Running, Live
  <2>6. SocketsAndLoops'
    BY <1>1, <2>1, <2>2 DEF Steady, SocketsAndLoops
  <2>7. StatusOfEngine' /\ CallsOnSockets'
    BY <2>1, <2>2 DEF StatusOfEngine, CallsOnSockets
  <2> QED BY <2>4, <2>5, <2>6, <2>7 DEF Steady
<1>5. CASE CooldownEnds(e)
  <2>1. /\ UNCHANGED <<engine, status, cachedVersion, connect, waits, terminated, handler, on, inFlight>>
        /\ loop[e] = "cooldown" /\ ~terminated[e]
        /\ loop' = [loop EXCEPT ![e] = "socket"]
        /\ socket' = [socket EXCEPT ![e] = "connecting"]
        /\ restored' = [restored EXCEPT ![e] = FALSE]
    BY <1>5 DEF CooldownEnds, controllerVars, appVars, handlerVars
  <2>2. socket[e] = "none" /\ engine = e /\ status # "connected"
    BY <1>1, <2>1 DEF Steady, SocketsAndLoops, LiveInPlace, Live, StatusOfEngine
  <2>3. (OneRunning /\ LiveInPlace /\ InPlaceRuns /\ ConnectsAlone)'
    BY <1>1, <2>1, <2>2 DEF Steady, OneRunning, LiveInPlace, InPlaceRuns, ConnectsAlone, Running,
       Live
  <2>4. SocketsAndLoops'
    BY <1>1, <2>1, <2>2 DEF Steady, SocketsAndLoops
  <2>5. StatusOfEngine' /\ CallsOnSockets'
    BY <1>1, <2>1, <2>2 DEF Steady, StatusOfEngine, CallsOnSockets, Awaits
  <2> QED BY <2>3, <2>4, <2>5 DEF Steady
<1>6. CASE CooldownEndsClosed(e)
  <2>1. /\ UNCHANGED <<engine, status, cachedVersion, connect, waits, terminated, socket, restored,
                       handler, on, inFlight>>
        /\ loop[e] = "cooldown" /\ terminated[e]
        /\ loop' = [loop EXCEPT ![e] = "done"]
    BY <1>6 DEF CooldownEndsClosed, controllerVars, appVars, handlerVars
  <2>2. socket[e] = "none" /\ engine # e
    BY <1>1, <2>1 DEF Steady, SocketsAndLoops, InPlaceRuns
  <2>3. (OneRunning /\ LiveInPlace /\ InPlaceRuns /\ ConnectsAlone)'
    BY <1>1, <2>1, <2>2 DEF Steady, OneRunning, LiveInPlace, InPlaceRuns, ConnectsAlone, Running,
       Live
  <2>4. SocketsAndLoops'
    BY <1>1, <2>1, <2>2 DEF Steady, SocketsAndLoops
  <2>5. StatusOfEngine' /\ CallsOnSockets'
    BY <2>1 DEF Steady, StatusOfEngine, CallsOnSockets, Awaits
  <2> QED BY <2>3, <2>4, <2>5 DEF Steady
<1> QED BY <1>2, <1>3, <1>4, <1>5, <1>6 DEF Timer

\* The invariant of every application, with what a careful one adds.
CarefulInv == Inv /\ (careful => Steady)

LEMMA NextCareful ==
  CarefulInv /\ [Next /\ UNCHANGED careful]_<<vars, careful>> => CarefulInv'
<1> SUFFICES ASSUME CarefulInv, [Next]_vars, UNCHANGED careful, careful
             PROVE  Steady'
  BY NextInv DEF CarefulInv
<1>1. Inv /\ Steady
  BY DEF CarefulInv
<1>2. CASE UNCHANGED vars
  BY <1>1, <1>2 DEF Steady, OneRunning, LiveInPlace, InPlaceRuns, SocketsAndLoops, ConnectsAlone,
     StatusOfEngine, CallsOnSockets, Running, Live, Awaits, vars, controllerVars, appVars,
     engineVars, handlerVars
<1> QED
  BY <1>1, <1>2, ConnectSteady, DisconnectSteady, ResumeSteady, SocketOpensSteady, LoopSteady,
     HandlerSteady DEF Next, Application, Network

-----------------------------------------------------------------------------

(* Whatever the application, the network and the servers do, the variables *)
(* of the controller keep their types and the engine in place is the one   *)
(* of the last connect() that got past its disconnect().                   *)
THEOREM Invariance == Spec => []Inv
BY InitInv, NextInv, PTL DEF Spec

(* A connect() that was superseded never opens its engine, and never       *)
(* displaces the engine of a later one.                                    *)
THEOREM LatestWins == Spec => []LatestConnectWins
<1>1. Inv => LatestConnectWins
  BY DEF Inv, OpenedByConnect, NothingNewer, LatestConnectWins
<1> QED BY <1>1, Invariance, PTL
(* For an application that waits for its calls, however its sockets are    *)
(* lost and its handshakes answered: there is one engine that keeps a      *)
(* connection, "connected" is said of an engine whose sessions were        *)
(* restored and whose version is known, and "disconnected" when nothing    *)
(* keeps a connection (connect(), disconnect() and #onConnected).          *)
THEOREM CarefulStaysConnected == Spec => []CarefulConnection
<1>1. Init => CarefulInv
  BY InitInv, InitSteady DEF CarefulInv
<1>2. CarefulInv => CarefulConnection
  <2> SUFFICES ASSUME Inv, Steady
               PROVE  OneLiveEngine /\ ConnectedIsUsable /\ StatusIsAccurate
    BY DEF CarefulInv, CarefulConnection
  <2>1. OneLiveEngine
    BY DEF Steady, LiveInPlace, OneLiveEngine
  <2>2. ConnectedIsUsable
    BY DEF Steady, StatusOfEngine, ConnectedIsUsable
  <2>3. StatusIsAccurate
    BY DEF Steady, StatusOfEngine, LiveInPlace, StatusIsAccurate, Engines, None
  <2> QED BY <2>1, <2>2, <2>3
<1> QED BY <1>1, <1>2, NextCareful, PTL DEF Spec

-----------------------------------------------------------------------------
(* The life of each engine.                                                *)

\* The engine in place was opened, and an engine that was not is as it was made.
Opened == engine # None => loop[engine] # "new"
Untouched == \A e \in Engines : loop[e] = "new" => Life(e)!Init
Lives == Inv /\ Opened /\ Untouched

\* close() of the engine in place, for every engine.
LEMMA CloseLife ==
  ASSUME Lives, NEW f \in Engines, engine # None, ~terminated[engine], Closed(engine),
         UNCHANGED <<loop, active, sockets, restored>>
  PROVE  [Life(f)!Next]_(Life(f)!vars)
<1>1. engine \in Engines /\ loop[engine] # "new"
  BY DEF Lives, Inv, TypeOK, Opened
<1>2. CASE f = engine
  BY <1>1, <1>2 DEF Lives, Inv, TypeOK, Closed, Life!Next, Life!Close
<1>3. CASE f # engine
  BY <1>1, <1>3 DEF Lives, Inv, TypeOK, Closed, Life!vars
<1> QED BY <1>2, <1>3

LEMMA CloseCurrentLife ==
  ASSUME Lives, NEW f \in Engines, CloseCurrent, UNCHANGED <<loop, active, sockets, restored>>
  PROVE  [Life(f)!Next]_(Life(f)!vars)
<1>1. CASE engine = None \/ terminated[engine]
  BY <1>1 DEF CloseCurrent, Life!vars
<1>2. CASE ~(engine = None \/ terminated[engine])
  BY <1>2, CloseLife DEF CloseCurrent
<1> QED BY <1>1, <1>2

LEMMA ApplicationLife ==
  ASSUME Lives, NEW f \in Engines, Application
  PROVE  [Life(f)!Next]_(Life(f)!vars)
<1>1. CASE Connect
  <2>1. CASE engine = None \/ terminated[engine]
    BY <1>1, <2>1 DEF Connect, Life!vars
  <2>2. CASE ~(engine = None \/ terminated[engine])
    BY <1>1, <2>2, CloseLife DEF Connect
  <2> QED BY <2>1, <2>2
<1>2. CASE Disconnect
  BY <1>2, CloseLife DEF Disconnect
<1> QED BY <1>1, <1>2 DEF Application

LEMMA ResumeLife ==
  ASSUME Lives, NEW f \in Engines, NEW e \in Engines, Resume(e)
  PROVE  [Life(f)!Next]_(Life(f)!vars)
<1>1. CASE ConnectResumes(e)
  <2>1. loop[e] = "new" /\ Life(e)!Init
    BY <1>1 DEF Lives, Inv, OpenedByConnect, Untouched, ConnectResumes, Resumable
  <2>2. CASE f = e
    BY <1>1, <2>1, <2>2 DEF Lives, Inv, TypeOK, ConnectResumes, Life!Init, Life!Next, Life!Open,
       Life!CreateSocket
  <2>3. CASE f # e
    BY <1>1, <2>3 DEF Lives, Inv, TypeOK, ConnectResumes, Life!vars
  <2> QED BY <2>2, <2>3
<1>2. CASE ConnectSuperseded(e)
  BY <1>2 DEF ConnectSuperseded, engineVars, Life!vars
<1> QED BY <1>1, <1>2 DEF Resume

LEMMA NetworkLife ==
  ASSUME Lives, NEW f \in Engines, NEW e \in Engines, Network(e) \/ Timer(e)
  PROVE  [Life(f)!Next]_(Life(f)!vars)
<1> USE DEF Lives, Inv, TypeOK, Life!Next, Life!Network, Life!Timer, Life!vars
<1>1. CASE SocketOpens(e)
  BY <1>1 DEF SocketOpens, Life!SocketOpens
<1>2. CASE SocketStartsClosing(e)
  BY <1>2 DEF SocketStartsClosing, Life!SocketStartsClosing
<1>3. CASE SocketClosesAndLoops(e)
  BY <1>3 DEF SocketClosesAndLoops, LoseSocket, Life!SocketClosesAndLoops
<1>4. CASE SocketClosesForGood(e)
  BY <1>4 DEF SocketClosesForGood, LoseSocket, Life!SocketClosesForGood
<1>5. CASE CooldownEnds(e)
  BY <1>5 DEF CooldownEnds, Life!CooldownEnds, Life!CreateSocket
<1>6. CASE CooldownEndsClosed(e)
  BY <1>6 DEF CooldownEndsClosed, Life!CooldownEndsClosed
<1> QED BY <1>1, <1>2, <1>3, <1>4, <1>5, <1>6 DEF Network, Timer

LEMMA HandlerLife ==
  ASSUME Lives, NEW f \in Engines, NEW h \in Handlers, Answer(h) \/ HandlerRejected(h)
  PROVE  [Life(f)!Next]_(Life(f)!vars)
<1>1. UNCHANGED <<loop, active, sockets>>
  BY DEF Answer, HandlerGoesOn, HandlerGetsError, HandlerRejected, Answered
<1>2. CASE Fail(h)
  BY <1>1, <1>2, CloseCurrentLife DEF Fail
<1>3. CASE Finish(h)
  <2>1. CASE f = engine /\ socket[f] = "open"
    BY <1>1, <1>3, <2>1 DEF Finish, Life!Next, Life!Ready
  <2>2. CASE ~(f = engine /\ socket[f] = "open")
    BY <1>1, <1>3, <2>2 DEF Lives, Inv, TypeOK, Finish, Life!vars
  <2> QED BY <2>1, <2>2
<1>4. CASE Call(h, "restore") /\ ~Fail(h)
  BY <1>1, <1>4 DEF Call, Life!vars
<1> QED BY <1>2, <1>3, <1>4 DEF Answer, HandlerGoesOn, HandlerGetsError, HandlerRejected

LEMMA StepLife ==
  ASSUME Lives, [Next]_vars, NEW f \in Engines
  PROVE  [Life(f)!Next]_(Life(f)!vars)
<1>1. CASE UNCHANGED vars
  BY <1>1 DEF vars, engineVars, Life!vars
<1> QED BY <1>1, ApplicationLife, ResumeLife, NetworkLife, HandlerLife DEF Next

\* An engine that was opened does not become new again.
LEMMA NeverNewAgain ==
  ASSUME Lives, NEW e \in Engines, [Life(e)!Next]_(Life(e)!vars), loop'[e] = "new"
  PROVE  loop[e] = "new" /\ UNCHANGED Life(e)!vars
BY DEF Lives, Untouched, Life!Init, Life!Next, Life!Open, Life!Network, Life!Timer, Life!Close,
   Life!Ready,
   Life!CreateSocket, Life!SocketOpens, Life!SocketStartsClosing, Life!SocketClosesAndLoops,
   Life!SocketClosesForGood, Life!CooldownEnds, Life!CooldownEndsClosed, Life!vars

\* Only a connect() that goes on puts an engine in place.
LEMMA PutInPlace ==
  ASSUME Lives, [Next]_vars
  PROVE  engine' \in {engine, None} \/ \E e \in Engines : engine' = e /\ loop'[e] # "new"
<1>1. CASE UNCHANGED vars
  BY <1>1 DEF vars, controllerVars
<1>2. CASE Application
  BY <1>2 DEF Application, Connect, Disconnect, PublishDisconnected
<1>3. ASSUME NEW e \in Engines, Resume(e)
      PROVE  engine' \in {engine, None} \/ \E f \in Engines : engine' = f /\ loop'[f] # "new"
  BY <1>3 DEF Lives, Inv, TypeOK, Resume, ConnectResumes, TakeOver, ConnectSuperseded,
     controllerVars
<1>4. ASSUME NEW e \in Engines, Network(e) \/ Timer(e) PROVE engine' \in {engine, None}
  BY <1>4 DEF Network, Timer, SocketOpens, SocketStartsClosing, SocketClosesAndLoops,
     OnReconnecting,
     SocketClosesForGood, PublishDisconnected, CooldownEnds, CooldownEndsClosed, controllerVars
<1>5. ASSUME NEW h \in Handlers, Answer(h) \/ HandlerRejected(h) PROVE engine' \in {engine, None}
  <2>1. CloseCurrent => engine' \in {engine, None}
    BY CloseCurrentType DEF Lives, Inv
  <2>2. CASE Fail(h)
    BY <2>1, <2>2 DEF Fail
  <2>3. CASE ~Fail(h)
    BY <1>5, <2>3 DEF Answer, HandlerGoesOn, HandlerGetsError, HandlerRejected, Finish, Call
  <2> QED BY <2>2, <2>3
<1> QED BY <1>1, <1>2, <1>3, <1>4, <1>5 DEF Next

LEMMA NextLives ==
  ASSUME Lives, [Next /\ UNCHANGED careful]_<<vars, careful>>
  PROVE  Lives' /\ \A e \in Engines : [Life(e)!Next]_(Life(e)!vars)
<1>1. [Next]_vars
  OBVIOUS
<1>2. \A e \in Engines : [Life(e)!Next]_(Life(e)!vars)
  BY <1>1, StepLife
<1>3. Inv'
  BY NextInv DEF Lives
<1>4. Untouched'
  <2> SUFFICES ASSUME NEW e \in Engines, loop'[e] = "new" PROVE Life(e)!Init'
    BY DEF Untouched
  <2>1. loop[e] = "new" /\ UNCHANGED Life(e)!vars
    BY <1>2, NeverNewAgain
  <2> QED BY <2>1 DEF Lives, Untouched, Life!Init, Life!vars
<1>5. Opened'
  <2>1. engine # None => engine \in Engines /\ loop'[engine] # "new"
    BY <1>2, NeverNewAgain DEF Lives, Inv, TypeOK, Opened
  <2> QED BY <1>1, <2>1, PutInPlace DEF Opened
<1> QED BY <1>2, <1>3, <1>4, <1>5 DEF Lives

(* However connect(), close(), the callbacks of replaced engines and the   *)
(* handshakes cross each other, each engine goes the way EngineLifecycle   *)
(* describes: none is opened twice or before its connect(), none is closed *)
(* before it was opened, and ready() is called on open sockets only.       *)
THEOREM EnginesLiveAsPromised == Spec => EnginesAsPromised
<1>1. Init => Lives /\ \A e \in Engines : Life(e)!Init
  BY InitInv DEF Init, Lives, Opened, Untouched, Life!Init
<1>2. Lives /\ [Next /\ UNCHANGED careful]_<<vars, careful>>
        => Lives' /\ [\A e \in Engines : [Life(e)!Next]_(Life(e)!vars)]_vars
  BY NextLives
<1> QED BY <1>1, <1>2, PTL DEF Spec, EnginesAsPromised
=============================================================================
