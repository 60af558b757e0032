--------------------------- MODULE WebSocketEngine ---------------------------
(***************************************************************************)
(* The engine that speaks RPC over a WebSocket                             *)
(* (packages/sdk/src/engine/websocket.ts) with its reconnect context       *)
(* (internal/reconnect.ts), the network and the server it talks to, and,   *)
(* as far as the engine sees it, the controller that restores the sessions *)
(* of a fresh connection (controller/index.ts, #onConnected).              *)
(*                                                                         *)
(* JavaScript runs one task at a time: an action is one socket event, one  *)
(* timer or one call from the application, together with all the           *)
(* continuations (microtasks) it unblocks. Tasks interleave freely.        *)
(*                                                                         *)
(* The handshake of socket n (the version call and the calls that restore  *)
(* the sessions) is one RPC call, with n as its id. Requests in flight are *)
(* counted and responses are a set: the server handles the requests of one *)
(* connection concurrently, so nothing is assumed about their order.       *)
(***************************************************************************)
EXTENDS Integers

CONSTANTS
  Calls,               \* the RPC calls of the application
  MaxSockets,          \* bound: sockets the engine creates in a behaviour
  ReconnectOptions     \* the reconnect options explored: [enabled, attempts]

Sockets == 1..MaxSockets
Ids     == Calls \cup Sockets

ASSUME BoundAssumption == MaxSockets \in Nat \ {0}
ASSUME CallsAssumption == Calls \cap Sockets = {}
ASSUME OptionsAssumption ==
  ReconnectOptions \subseteq [enabled : BOOLEAN, attempts : Nat \cup {-1}]

VARIABLES
  loop,          \* where open()'s loop is: "new", "socket", "cooldown", "done"
  terminated,    \* #terminated
  active,        \* #active
  hasState,      \* _state is set
  readyState,    \* of #socket: "none" (undefined), "connecting", "open", "closing"
  sockets,       \* sockets created so far: the number of the latest one
  restored,      \* ready() was called on the latest socket
  options,       \* the options of the reconnect context
  attempts,      \* its #attempts
  calls,         \* #calls: the ids of the recorded calls
  outcome,       \* per id: what the promise of send() settled with
  requests,      \* per id: copies of the request on their way to the server
  responses,     \* responses on their way to the client
  executed,      \* history, per id: how often the server executed it
  results,       \* history, per id: the results it computed
  readies,       \* history: how often ready() was called
  issuedAt,      \* history, per id: readies when the call was made
  status,        \* the last lifecycle event published
  closing        \* a close() awaits "disconnected"

loopVars    == <<loop, terminated, hasState, closing>>
socketVars  == <<readyState, sockets, restored>>
callVars    == <<calls, outcome, issuedAt>>
wireVars    == <<requests, responses>>
serverVars  == <<executed, results>>
retryVars   == <<options, attempts>>
vars == <<loopVars, socketVars, callVars, wireVars, serverVars, retryVars,
          active, readies, status>>

Outcomes == {"unissued", "pending", "resolved", "failed",
             "unavailable", "thrown", "terminated"}
Response == [id : Ids, ok : BOOLEAN]

TypeOK ==
  /\ loop \in {"new", "socket", "cooldown", "done"}
  /\ terminated \in BOOLEAN
  /\ active \in BOOLEAN
  /\ hasState \in BOOLEAN
  /\ readyState \in {"none", "connecting", "open", "closing"}
  /\ sockets \in 0..MaxSockets
  /\ restored \in BOOLEAN
  /\ options \in ReconnectOptions
  /\ attempts \in Nat
  /\ calls \in SUBSET Ids
  /\ outcome \in [Ids -> Outcomes]
  /\ requests \in [Ids -> Nat]
  /\ responses \in SUBSET Response
  /\ executed \in [Ids -> Nat]
  /\ results \in [Ids -> SUBSET BOOLEAN]
  /\ readies \in Nat
  /\ issuedAt \in [Ids -> Nat]
  /\ status \in {"none", "connected", "reconnecting", "disconnected"}
  /\ closing \in BOOLEAN

Init ==
  /\ loop = "new"
  /\ terminated = FALSE
  /\ active = FALSE
  /\ hasState = FALSE
  /\ readyState = "none"
  /\ sockets = 0
  /\ restored = FALSE
  /\ options \in ReconnectOptions
  /\ attempts = 0
  /\ calls = {}
  /\ outcome = [i \in Ids |-> "unissued"]
  /\ requests = [i \in Ids |-> 0]
  /\ responses = {}
  /\ executed = [i \in Ids |-> 0]
  /\ results = [i \in Ids |-> {}]
  /\ readies = 0
  /\ issuedAt = [i \in Ids |-> 0]
  /\ status = "none"
  /\ closing = FALSE

-----------------------------------------------------------------------------
(* Faulty variants of the definitions below. The properties tell each of   *)
(* them from the code.                                                     *)

\* One reconnect attempt too many.
AllowedOffByOne ==
  /\ options.enabled
  /\ options.attempts = -1 \/ attempts <= options.attempts

\* The loop does not notice close().
GoesOnAfterClose == options.enabled /\ (options.attempts = -1 \/ attempts < options.attempts)

\* The listeners of a lost socket stay attached.
DropSocketButListen ==
  /\ readyState' = "none"
  /\ requests' = [i \in Ids |-> 0]
  /\ UNCHANGED responses

\* close() unsets _state but not the loop's condition.
CloseEngineHalfway ==
  /\ ~terminated
  /\ hasState' = FALSE
  /\ UNCHANGED terminated
  /\ readyState' = IF readyState = "none" THEN "none" ELSE "closing"
  /\ IF readyState \in {"open", "closing"}
       THEN closing' = TRUE /\ UNCHANGED status
       ELSE status' = "disconnected" /\ UNCHANGED closing

\* The listeners of a socket that close() gave up stay attached: it opens.
SocketOpensAfterAll ==
  /\ readyState \in {"connecting", "closing"}
  /\ readyState' = "open"
  /\ active' = TRUE
  /\ attempts' = 0
  /\ status' = "connected"
  /\ calls' = calls \cup {sockets}
  /\ outcome' = [outcome EXCEPT ![sockets] = "pending"]
  /\ issuedAt' = [issuedAt EXCEPT ![sockets] = readies]
  /\ requests' = [requests EXCEPT ![sockets] = 1]
  /\ UNCHANGED <<loopVars, sockets, restored, responses, serverVars, options,
                 readies>>

\* The loop creates a socket without looking at #terminated or _state.
CooldownEndsBlindly ==
  /\ loop = "cooldown"
  /\ loop' = "socket"
  /\ readyState' = "connecting"
  /\ sockets' = sockets + 1
  /\ restored' = FALSE
  /\ UNCHANGED <<terminated, hasState, closing, callVars, wireVars, serverVars,
                 retryVars, active, readies, status>>

\* The end of the cooldown misses a close(), which unset _state.
CooldownEndsUnnoticed ==
  /\ loop = "cooldown"
  /\ terminated /\ hasState
  /\ loop' = "done"
  /\ UNCHANGED <<terminated, hasState, closing, socketVars, callVars, wireVars,
                 serverVars, retryVars, active, readies, status>>

\* An error response removes the call and settles nothing.
SettledIfOk(r) ==
  [outcome EXCEPT ![r.id] = IF @ = "pending" /\ r.ok THEN "resolved" ELSE @]

\* The error of a response is not looked at.
SettledAsOk(r) ==
  [outcome EXCEPT ![r.id] = IF @ = "pending" THEN "resolved" ELSE @]

\* ready() skips the calls made before the previous ready().
ResendRecent(ids) ==
  [i \in Ids |-> IF i \in ids /\ issuedAt[i] = readies THEN requests[i] + 1
                                                       ELSE requests[i]]

\* ready() sends each call twice.
ResendTwice(ids) == [i \in Ids |-> IF i \in ids THEN requests[i] + 2 ELSE requests[i]]

\* ready() sends the answered calls too.
ResendAnswered(ids) ==
  [i \in Ids |-> IF i \in ids \/ outcome[i] = "resolved" THEN requests[i] + 1
                                                         ELSE requests[i]]

-----------------------------------------------------------------------------
(* The reconnect context.                                                  *)

Allowed ==
  /\ options.enabled
  /\ options.attempts = -1 \/ attempts < options.attempts

\* The loop goes around again once the current socket is closed.
GoesOn == ~terminated /\ options.enabled /\ Allowed

\* Bound: the network fails while there are sockets left to reconnect with.
MayFail == GoesOn => sockets < MaxSockets

-----------------------------------------------------------------------------
(* open(): the socket loop.                                                *)

\* createSocket(), from the loop.
CreateSocket ==
  /\ loop' = "socket"
  /\ readyState' = "connecting"
  /\ sockets' = sockets + 1
  /\ restored' = FALSE

Open ==
  /\ loop = "new"
  /\ terminated' = FALSE
  /\ hasState' = TRUE
  /\ CreateSocket
  /\ UNCHANGED <<closing, callVars, wireVars, serverVars, retryVars, active,
                 readies, status>>

\* The socket's "open" event; the controller sends the handshake at once.
SocketOpens ==
  /\ readyState = "connecting"
  /\ readyState' = "open"
  /\ active' = TRUE
  /\ attempts' = 0
  /\ status' = "connected"
  /\ calls' = calls \cup {sockets}
  /\ outcome' = [outcome EXCEPT ![sockets] = "pending"]
  /\ issuedAt' = [issuedAt EXCEPT ![sockets] = readies]
  /\ requests' = [requests EXCEPT ![sockets] = 1]
  /\ UNCHANGED <<loopVars, sockets, restored, responses, serverVars, options,
                 readies>>

\* The server or the network begins to close an open connection.
SocketStartsClosing ==
  /\ readyState = "open"
  /\ MayFail
  /\ readyState' = "closing"
  /\ UNCHANGED <<loopVars, sockets, restored, callVars, wireVars, serverVars,
                 retryVars, active, readies, status>>

\* Whatever was in flight on the socket is lost with it.
DropSocket ==
  /\ readyState' = "none"
  /\ requests' = [i \in Ids |-> 0]
  /\ responses' = {}

\* The socket's "close" event when the loop goes around again.
SocketClosesAndLoops ==
  /\ loop = "socket"
  /\ GoesOn /\ MayFail
  /\ DropSocket
  /\ status' = "reconnecting"
  /\ attempts' = attempts + 1
  /\ loop' = "cooldown"
  /\ UNCHANGED <<terminated, hasState, closing, sockets, restored, callVars,
                 serverVars, options, active, readies>>

\* The socket's "close" event when the engine was closed, reconnecting is off
\* or the attempts are exhausted: only in the last two are the calls rejected.
SocketClosesForGood ==
  /\ loop = "socket"
  /\ ~GoesOn
  /\ DropSocket
  /\ outcome' = [i \in Ids |-> IF ~terminated /\ i \in calls /\ outcome[i] = "pending"
                               THEN "terminated" ELSE outcome[i]]
  /\ hasState' = FALSE
  /\ active' = FALSE
  /\ calls' = {}
  /\ status' = "disconnected"
  /\ closing' = FALSE
  /\ loop' = "done"
  /\ UNCHANGED <<terminated, sockets, restored, issuedAt, serverVars, retryVars,
                 readies>>

\* The cooldown of reconnect.iterate() is over.
CooldownEnds ==
  /\ loop = "cooldown"
  /\ ~terminated
  /\ hasState
  /\ CreateSocket
  /\ UNCHANGED <<terminated, hasState, closing, callVars, wireVars, serverVars,
                 retryVars, active, readies, status>>

\* close() was called during the cooldown: the loop just ends.
CooldownEndsClosed ==
  /\ loop = "cooldown"
  /\ terminated
  /\ loop' = "done"
  /\ UNCHANGED <<terminated, hasState, closing, socketVars, callVars, wireVars,
                 serverVars, retryVars, active, readies, status>>

-----------------------------------------------------------------------------
(* close().                                                                *)

CloseEngine ==
  /\ ~terminated
  /\ hasState' = FALSE
  /\ terminated' = TRUE
  /\ readyState' = IF readyState = "none" THEN "none" ELSE "closing"
  /\ IF readyState \in {"open", "closing"}
       THEN closing' = TRUE /\ UNCHANGED status
       ELSE status' = "disconnected" /\ UNCHANGED closing

\* The controller forgets the engine on "disconnected": no call after that.
Attached == loop # "new" /\ status # "disconnected"

Close ==
  /\ Attached
  /\ CloseEngine
  /\ UNCHANGED <<loop, sockets, restored, callVars, wireVars, serverVars,
                 retryVars, active, readies>>

-----------------------------------------------------------------------------
(* send().                                                                 *)

\* send() before the first connection.
SendUnavailable(c) ==
  /\ Attached /\ outcome[c] = "unissued"
  /\ ~active
  /\ outcome' = [outcome EXCEPT ![c] = "unavailable"]
  /\ UNCHANGED <<loopVars, socketVars, calls, issuedAt, wireVars, serverVars,
                 retryVars, active, readies, status>>

\* The call is recorded. It is transmitted when the socket is open, dropped
\* by a closing socket, and waits for ready() when there is no socket.
SendRecorded(c) ==
  /\ Attached /\ outcome[c] = "unissued"
  /\ active /\ readyState # "connecting"
  /\ calls' = calls \cup {c}
  /\ outcome' = [outcome EXCEPT ![c] = "pending"]
  /\ issuedAt' = [issuedAt EXCEPT ![c] = readies]
  /\ requests' = [requests EXCEPT ![c] = IF readyState = "open" THEN @ + 1 ELSE @]
  /\ UNCHANGED <<loopVars, socketVars, responses, serverVars, retryVars, active,
                 readies, status>>

\* A socket that is still connecting throws: the promise is rejected, and the
\* call stays recorded.
SendThrows(c) ==
  /\ Attached /\ outcome[c] = "unissued"
  /\ active /\ readyState = "connecting"
  /\ calls' = calls \cup {c}
  /\ outcome' = [outcome EXCEPT ![c] = "thrown"]
  /\ issuedAt' = [issuedAt EXCEPT ![c] = readies]
  /\ UNCHANGED <<loopVars, socketVars, wireVars, serverVars, retryVars, active,
                 readies, status>>

-----------------------------------------------------------------------------
(* The server.                                                             *)

Execute(i, ok) ==
  /\ requests[i] > 0
  /\ requests' = [requests EXCEPT ![i] = @ - 1]
  /\ executed' = [executed EXCEPT ![i] = @ + 1]
  /\ results' = [results EXCEPT ![i] = @ \cup {ok}]
  /\ responses' = responses \cup {[id |-> i, ok |-> ok]}
  /\ UNCHANGED <<loopVars, socketVars, callVars, retryVars, active, readies,
                 status>>

-----------------------------------------------------------------------------
(* The socket's "message" event: handleRpcResponse().                      *)

\* resolve or reject of the call, a no-op on a promise that is settled.
Settled(r) ==
  [outcome EXCEPT ![r.id] =
     IF @ # "pending" THEN @ ELSE IF r.ok THEN "resolved" ELSE "failed"]

Deliver(r) ==
  /\ readyState = "open"
  /\ r \in responses
  /\ responses' = responses \ {r}

\* The response to a call of the application, or to one already removed.
ReceiveResponse(r) ==
  /\ Deliver(r)
  /\ r.id \in Calls \/ r.id \notin calls
  /\ outcome' = IF r.id \in calls THEN Settled(r) ELSE outcome
  /\ calls' = calls \ {r.id}
  /\ UNCHANGED <<loopVars, socketVars, issuedAt, requests, serverVars, retryVars,
                 active, readies, status>>

\* ready() transmits the recorded calls on the current socket.
Resend(ids) == [i \in Ids |-> IF i \in ids THEN requests[i] + 1 ELSE requests[i]]

\* A handshake succeeds: the controller calls ready().
ReceiveHandshake(r) ==
  /\ Deliver(r) /\ r.ok
  /\ r.id \in Sockets \cap calls
  /\ outcome' = Settled(r)
  /\ calls' = calls \ {r.id}
  /\ requests' = Resend(calls')
  /\ readies' = readies + 1
  /\ restored' = TRUE
  /\ UNCHANGED <<loopVars, readyState, sockets, issuedAt, serverVars, retryVars,
                 active, status>>

\* A handshake fails: the controller closes the engine.
ReceiveHandshakeError(r) ==
  /\ Deliver(r) /\ ~r.ok
  /\ r.id \in Sockets \cap calls
  /\ outcome' = Settled(r)
  /\ calls' = calls \ {r.id}
  /\ CloseEngine
  /\ UNCHANGED <<loop, sockets, restored, issuedAt, requests, serverVars,
                 retryVars, active, readies>>

-----------------------------------------------------------------------------

Receive(r) ==
  ReceiveResponse(r) \/ ReceiveHandshake(r) \/ ReceiveHandshakeError(r)

SocketCloses == SocketClosesAndLoops \/ SocketClosesForGood

Loop ==
  Open \/ SocketOpens \/ SocketStartsClosing \/ SocketCloses
       \/ CooldownEnds \/ CooldownEndsClosed

Send(c) == SendUnavailable(c) \/ SendRecorded(c) \/ SendThrows(c)

Next ==
  \/ Loop
  \/ Close
  \/ \E c \in Calls : Send(c)
  \/ \E i \in Ids, ok \in BOOLEAN : Execute(i, ok)
  \/ \E r \in responses : Receive(r)

Spec == Init /\ [][Next]_vars

(* A socket that connects opens or fails, a closing one is closed by the   *)
(* peer or by the closing timeout, timers fire, the server answers what it *)
(* receives and its answers arrive. The application owes nothing.          *)
Fairness ==
  /\ WF_vars(SocketOpens)
  /\ WF_vars(readyState = "closing" /\ SocketCloses)
  /\ WF_vars(CooldownEnds \/ CooldownEndsClosed)
  /\ \A i \in Ids : WF_vars(\E ok \in BOOLEAN : Execute(i, ok))
  /\ \A i \in Ids : WF_vars(\E r \in responses : r.id = i /\ Receive(r))

FairSpec == Spec /\ Fairness

-----------------------------------------------------------------------------
(* Properties.                                                             *)

InFlight(i) == requests[i] > 0 \/ \E r \in responses : r.id = i

(* Until the application closes the engine, a call whose promise is still  *)
(* pending is recorded in #calls, across any number of lost connections:   *)
(* open()'s loop and handleRpcResponse() forget no call they did not       *)
(* settle.                                                                 *)
PendingIsRecorded ==
  \A i \in Ids : outcome[i] = "pending" /\ ~terminated => i \in calls

(* No recorded call is stuck on a live connection: once ready() ran, each  *)
(* one is on its way to the server or back, and before that the handshake  *)
(* ready() waits for is, so no order of send(), reconnects and ready()     *)
(* leaves a call that only the next reconnect would transmit.              *)
NothingStuck ==
  readyState = "open" =>
    IF restored THEN \A i \in calls : InFlight(i)
                ELSE sockets \in calls /\ InFlight(sockets)

(* Delivery is at least once, but a call is only executed again because    *)
(* ready() transmitted it again: at most once more for each ready() since  *)
(* the call was made, and a call whose send() threw has no other.          *)
DuplicatesComeFromReady ==
  \A i \in Ids :
    executed[i] <= readies - issuedAt[i] + (IF outcome[i] = "thrown" THEN 0 ELSE 1)

(* createSocket() rejects when _state is unset, and that rejection would   *)
(* end the loop without any event. The loop never gets there.              *)
LoopNeverDiesSilently ==
  loop = "cooldown" /\ ~terminated => hasState

(* The engine gives up by itself only when the reconnect context says so,  *)
(* and the sockets it creates in a row without one opening are never more  *)
(* than the configured attempts (plus the first socket of all): reset()    *)
(* and iterate() count the same thing.                                     *)
NeverOpened(s) == \A t \in s..sockets : outcome[t] = "unissued"
GivesUpOnlyWhenExhausted ==
  /\ loop = "done" /\ ~terminated => ~Allowed
  /\ options.attempts # -1 =>
       \A s \in 1..sockets :
         NeverOpened(s) => sockets - s < options.attempts + (IF s = 1 THEN 1 ELSE 0)

(* Once "disconnected" was published no other lifecycle event follows: a   *)
(* late "open" event or an ending cooldown does not revive the engine.     *)
DisconnectedIsFinal ==
  [][status = "disconnected" => status' = "disconnected"]_status

(* A call that was answered is never transmitted again: handleRpcResponse() *)
(* removes it before any later ready() can resend it.                      *)
AnsweredIsNotResent ==
  [][\A i \in Ids : outcome[i] \in {"resolved", "failed"} =>
       requests'[i] <= requests[i]]_vars

(* close() ends the reconnecting: no socket is created after it.           *)
NoSocketAfterClose == [][terminated => sockets' = sockets]_sockets

(* A call does not stay pending for ever, whatever connections are lost,   *)
(* unless the engine is closed.                                            *)
CallSettles ==
  \A c \in Calls : outcome[c] = "pending" ~> outcome[c] # "pending" \/ terminated

(* close() returns: the "disconnected" event it awaits is published.       *)
CloseReturns == closing ~> ~closing

(* An opened engine ends up with a restored connection or disconnected.    *)
ConnectSettles ==
  loop # "new" ~> (readyState = "open" /\ restored) \/ status = "disconnected"

(* What open() and close() begin comes to an end.                          *)
OpenAndCloseEnd == ConnectSettles /\ CloseReturns

(* A call ends with the connection it was made on: "Thrown when a call has *)
(* been terminated because the connection was closed" (errors.ts, of       *)
(* CallTerminatedError).                                                   *)
ClosedCallsAreTerminated ==
  status = "disconnected" => \A c \in Calls : outcome[c] # "pending"

(* The engine implements the channel its callers see.                      *)
Channel == INSTANCE RpcChannel WITH
             outcome <- [c \in Calls |-> outcome[c]],
             executed <- [c \in Calls |-> executed[c]],
             results <- [c \in Calls |-> results[c]],
             gone <- status = "disconnected"
ImplementsChannel == Channel!Spec

(* To the controller the engine is what EngineLifecycle says: whatever the *)
(* reconnect context decides, and whoever calls close() and when, open()'s *)
(* loop, the sockets and ready() go no other way.                          *)
Lifecycle == INSTANCE EngineLifecycle WITH socket <- readyState
ImplementsLifecycle == Lifecycle!Spec

(* With the fairness of the engine it also comes to the end of everything  *)
(* the controller waits for: sockets settle and the cooldown ends.         *)
ImplementsFairLifecycle == Lifecycle!FairSpec
=============================================================================
