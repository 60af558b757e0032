# A formal model of the SurrealDB JavaScript SDK

TLA+ modules of `surrealdb.js`: the engines that carry requests, the controller
with its connections, sessions and authentication, live subscriptions, queries
with their retries and builders, the embedded database, the values and their
codecs, and the Spectron client. TLC checks them on small instances; TLAPS
proves properties of seventeen of them for every number of calls, sockets,
connections, consumers, sessions, statements, values and frames. Paths below
are relative to `src/packages/sdk/src/` unless they begin with a package.

## The system

JavaScript runs one task at a time: a socket event, a timer, a call of the
application, each together with the continuations (microtasks) it unblocks. All
concurrency is the interleaving of those tasks at every `await`, event and
timer. That is the granularity of the models: one action is one task. In the
Rust bindings it is what runs under one lock or between two awaits.

| Component | State it keeps | Operations | What must hold | Module |
|---|---|---|---|---|
| WebSocket engine (`engine/websocket.ts`, `internal/reconnect.ts`) | `#socket`, `#calls` (requests without an answer), `#active`, `#terminated`, `_state`, attempts made | `open` (the socket loop), `close`, `ready`, `send`, `handleRpcResponse`, `liveQuery`, the pinger | no call forgotten or stuck over reconnects; an answered call never sent again; reconnecting ends when and only when it should | `WebSocketEngine`, `RpcChannel` |
| Connection controller (`controller/index.ts` 100-171, 440-491) | `#engine`, `#nextEngine`, `#state`, `#status` | `connect`, `disconnect`, `ready`, `#onConnected`, `#onDisconnected`, `#onReconnecting` | the last `connect()` wins; one live connection; the status tells the truth; what is awaited ends | `ConnectionController` |
| Sessions (`controller/index.ts` 316-392, 658-753) | per session: namespace, database, variables | `createSession`, `destroySession`, `use`, `set`, `unset`, `reset`, `#restoreSession` | after a reconnect the server has what the session state says | `Sessions` |
| Authentication (`controller/index.ts` 243-314, 499-650) | tokens, timers, `authOverriden` | `signin`, `signup`, `authenticate`, `refresh`, `revoke`, `invalidate`, renewal | renewed in time; the server has the token the client shows; nobody is signed in as someone else | `AuthRenewal` |
| Live subscriptions (`utils/live.ts`) | current id, channels, killed | `#listen`, `kill`, iteration, `subscribe` | each message once, in order; none lost between streams; nothing after `kill()` | `LiveSubscription` |
| Channel iterator (`utils/channel-iterator.ts`) | `#queue`, `#waiter`, `#cancelled` | `next`, `return`, `throw`, `submit`, `cancel` | order, no loss, no lost wakeup, nothing after the end | `ChannelIterator` |
| Publisher (`utils/publisher.ts`) | listeners per event | `subscribe`, `subscribeFirst`, `publish` | every listener is told once, whatever the others do | `Publisher` |
| Queries (`internal/dispatched-promise.ts`, `query/query.ts`, `utils/frame.ts`, `internal/retry.ts`) | dispatched or not; attempts; results so far | `then`, `collect`, `responses`, `stream`, `run` | dispatched once; the answer whole and of one attempt; a transaction at most once | `QueryExecution` |
| Builders and bound queries (`query/*.ts`, `api/*.ts`, `utils/bound-query.ts`, `utils/tagged-template.ts`, `utils/expr.ts`) | options of a builder; text and bindings | the setters, `compile`, `append`, `and`, `or`, `not` | what is sent is what was said | `Statements`, `Conditions` |
| HTTP engine and RPC wrappers (`engine/http.ts`, `engine/rpc.ts`) | `_state`, a timer | `open`, `close`, `send` | requests run as if the server kept the session | `HttpEngine` |
| Diagnostics (`engine/diagnostics.ts`) | none | a decoration of each call | it changes nothing and hides no failure | `Diagnostics` |
| Embedded engines (`packages/wasm/src-ts`, `packages/node/src-ts`) | worker, resolvers, database, reader | `open`, `send`, `importSql`, `exportSql`, `close` | nothing runs on after `close()`; every call settles | `EmbeddedEngine` |
| Rust bindings (`packages/wasm/src-rust`, `packages/node/src-rust`) | tables of live queries and transactions | `live`, `kill`, `detach`, `commit`, `cancel`, options | no live query outlives its session; a transaction ends once; options mean what they say | `EmbeddedDatabase` |
| Values (`packages/sqon/src/value`) | parts of a duration, a time, a decimal; the parts a geometry shares | arithmetic, parsing, printing; `close`, `clone`, `is` | the exact value; closed rings, independent clones | `Instants`, `Decimals`, `Geometries` |
| Errors (`internal/parse-error.ts`, `errors.ts`) | none | `parseRpcError`, `parseQueryError`, the getters | an error tells what the server meant | `ServerErrors` |
| Codecs (`packages/sqon/src/codec/json`, `packages/sqon/src/codec/cbor`) | none | encode, decode | what is read is what was meant | `ValueCodecs` |
| Spectron client (`packages/spectron/src`) | attempts, timers, keys; the buffer of a stream | every method of the client, by kind; the reader of a chat | a write is written once; calls settle; chunks as sent | `SpectronTransport`, `ChatStream` |

How they interact: the application calls the controller, which sends through
the engine in place and subscribes to its `connected`, `reconnecting` and
`disconnected` events. On `connected` the controller asks the version, restores
every session (`attach`, `use`, `set`, and an authentication) and only then
calls `ready()`, which makes the engine transmit every recorded call on the new
socket. A managed live subscription listens to the controller's `connected` and
starts its live query again; messages flow from the engine's socket through a
channel iterator into the subscription and from there into one channel per
consumer. A query is a promise that is sent when first awaited and, when it is
told to, tried again on a conflict.

What is hard: a call may be made before the first connection, while a socket
opens, closes, is gone, or waits for its handshake; the connection may be lost
between a request and its answer; `close()` may come at any of these times;
`connect()` may be called while the previous one still closes its engine, whose
callbacks stay subscribed for ever; what a session is set to is written by
answers that overtake each other; a renewal timer fires whatever else is under
way. `PROJECT.json` lists the hazards line by line with the properties that
cover them.

## The modules

`MC*` modules are instances for TLC. A `*Proofs` module has the inductive
invariants and theorems of the module it is named after. Two modules are
abstract specifications of an engine. `RpcChannel` is what it promises to a
call: a channel with no socket in sight. `EngineLifecycle` is what it promises
to the controller: where its loop and its socket are, whoever closes it, with
no call in sight. `WebSocketEngine` implements both, and every engine of
`ConnectionController` is one of the second. Parts that share no state are
checked in one run, which chooses in its initial state the part that moves
(`part`, `subject`) while the others stay where they are. `Parts` puts
`QueryExecution`, `HttpEngine`, `EmbeddedDatabase`, `Diagnostics`, `Publisher`
and `Decimals` side by side, names what their constants may be
(`PartsAssumption`), and states their invariants: `PartsProofs` proves them.
`Data` does the same for `ChannelIterator`, `Statements`, `ChatStream`,
`Instants` and `ServerErrors` (`DataAssumption`), and `DataProofs` proves about
those; `Part` has the variables the two share. `MCLibrary` extends both, adds
the three modules that are only checked, which walk trees and heaps
(`Conditions`, `ValueCodecs`, `Geometries`), and gives the constants values.
`MCServices` does the same for `SpectronTransport` and `EmbeddedEngine`, and
`ServicesProofs` proves about both.

Each module has a section of *faulty variants*: what a plausible bug would make
of a definition. They are no part of the specification; putting one in the
place of the definition it varies makes TLC find a property violated.

### WebSocketEngine

`loop` says where the `while` loop of `open()` is: not started, awaiting the
socket, in the cooldown of `reconnect.iterate()`, ended. `readyState` is the
state of `#socket`. An id is a call of the application or the number of a
socket, which stands for the calls of that socket's handshake. Per id,
`outcome` is what the promise of `send()` settled with, `requests` counts the
copies of the request on their way to the server, `executed` and `results`
record what the server did. `responses` is a set: the server handles the
requests of one connection concurrently, so answers come in any order. A lost
socket loses what was in flight on it, but not what the server already
executed.

| Action | Code |
|---|---|
| `Open` | `open()` up to its first await |
| `SocketOpens` | the `open` event: `#active`, `reconnect.reset()`, `connected`, and the handshake the controller sends in the same task |
| `SocketStartsClosing` | the peer begins to close; a `send()` in this state is dropped by the socket |
| `SocketClosesAndLoops`, `SocketClosesForGood` | the `close` event and the rest of the loop's body: `reconnecting`, or rejection of the pending calls and `disconnected` |
| `CooldownEnds`, `CooldownEndsClosed` | the timer of `iterate()` |
| `Close` | `close()`, which awaits `disconnected` only if the socket is open or closing |
| `SendUnavailable`, `SendRecorded`, `SendThrows` | the three ways through `send()` |
| `Execute` | the server (external) |
| `ReceiveResponse`, `ReceiveHandshake`, `ReceiveHandshakeError` | the `message` event; the last two continue into `#onConnected`, hence `ready()` or `close()` |

The properties. `PendingIsRecorded` (proved, and part of `Inv`): until
`close()`, a pending call is in `#calls`. `NothingStuck`: on a live connection
every recorded call, or the handshake that `ready()` waits for, is in flight.
`DuplicatesComeFromReady` (proved): delivery is at least once, and the number
of executions is bounded by the `ready()` calls. `AnsweredIsNotResent`,
`DisconnectedIsFinal` (proved) are action properties. `LoopNeverDiesSilently`
(proved): `createSocket()` is never called without `_state`, where its
rejection would end the loop without an event. `GivesUpOnlyWhenExhausted`
relates the attempts to the sockets really created. `ImplementsChannel` and
`ImplementsLifecycle` are the refinements; the second has in it that a closed
engine creates no socket. `CallSettles` and `OpenAndCloseEnd` are the liveness
properties, and `ImplementsFairLifecycle` that the fairness the controller
counts on is the engine's.

### ConnectionController

Engine *k* is made by the *k*-th `connect()`. `connect` is where that call is
or how it ended, `waits` the engine whose end it awaits. The engine variables
are a projection of `WebSocketEngine` (loop, socket, `#terminated`, `#active`),
and its decision to reconnect or give up is a free choice. `EnginesAsPromised`
is what makes that projection a composition: each engine, seen alone, takes
only steps of `EngineLifecycle`, which `WebSocketEngine` implements. `handler`
follows `#onConnected` once per opened socket, call by call; `on` is the engine
that call was sent to, which is the engine in place at that time, not
necessarily the one whose event started the handler.

A continuation that can run does so before the next socket event or timer
(`TasksRun`); the application may call in at any time. `careful` marks an
application that has one `connect()` or `close()` under way, calls while the
status is `connected` or `disconnected`, and waits for the end of an engine
that was closed by a failed handshake. `OneLiveEngine`, `ConnectedIsUsable` and
`StatusIsAccurate` hold for careful applications and not for others
(`CarefulConnection`: the variable `careful` is chosen in `Init` and never
changes, so that every behaviour is of one kind of application or of the
other); `LatestConnectWins` and `CloseReturns` hold for all.

### Sessions

A session is what each of its keys is set to: `Selected` stands for namespace
and database, the other keys for variables. `known` are the sessions of
`#state`, `client` what it keeps of each; `attached` and `server` are what the
server has on this connection, `calls`, `sent` and `answers` the engine's table
and what is in flight. A restore is a `plan` per handshake (`Handshakes`) or
per `createSession()` (`Clones`): the sessions it has still to attach, and what
is `left` of the variables of the one it is at, each read when the code reads
it (`Selection`, `Definitions`). `GoOn` is `#restoreSession` from one await to
the next, `Finish` its end: `ready()`, or the return of `createSession()`. The
`Receive...` actions are the continuations after an answer, which write the
state; `Late` is an answer to a request that was answered before. `Restored`
compares `client`, `server` and the history of settled calls, `SameSessions`
the sets of sessions. They hold for a careful application (one call at a time,
made while connected) whose network loses no socket during a handshake
(`CarefulRestored`; `careful` is chosen in `Init`). Every other application is
in the same run for the liveness properties.

### AuthRenewal

Time is counted in seconds, and a token says who it was issued to and when it
expires. An authentication of session `s` is under way for a maker `m`
(`Makers`): the application, the session's timer, the `createSession()` that
cloned it, or a handshake that restores it. `flight[s][m]` is the request it is
at; the request travels, waits in `#calls` for `ready()` (`held`), or has its
answer on the way back (`answer`). `Execute` is the server, `Receive` the
continuation after the await, and any number of requests and answers of one
session may lie between the two: answers overtake one another.

| Action | Code |
|---|---|
| `Authenticate`, `Invalidate`, `Revoke`, `Fork`, `Destroy` | calls of the application; `Fork` is `createSession()` with a session to clone, up to its restore |
| `Clone`, `Restore`, `Fire` | `#applyAuthentication` begins: for a clone, for the next session of a handshake, for a timer |
| `Refuse` | the server refuses a token, or the provider has nothing: the next stage of the chain (`StageAfter`, `NextRequest`: the access token, the refresh token, the provider, `invalidate()`) |
| `RefuseProvider` | the server refuses what the provider gave, whoever asked: the timer publishes the error (`GiveUp`), `createSession()` rejects and leaves its clone in `#state.sessions`, a handshake fails and ends the connection (`Over`) |
| `Lose` | the socket is lost, at any time, also in the middle of a restore: answers are lost, what is under way is held, and the next handshake begins to restore all sessions |
| `Tick` | a second passes |

A handshake whose connection was lost is not over: its request is in `#calls`,
the `ready()` of the next handshake sends it again, and it goes on to restore
the sessions it has left, beside everything else. `timer` is when `setTimeout`
fires, with `Delay` the code's own formula.

History: `refused` are the sessions the provider's last signin failed for,
`orphans` the clones among them; `latest` is the maker the server served last
for each session, and `overtaken` the sessions whose last answer was taken
before an earlier one; `raced` says that the call met another request for its
session, or left a refresh token of someone else behind. `RenewedInTime` and
`ServerAgrees` speak of a session that rests: no handshake restores, and no
request is about it. `ServerAgrees` leaves out orphans, and overtaken sessions
until their next request that is alone; `ChosenStays` fails without `~raced`.

What this leaves to others: that `ready()` sends a call twice, and what the
second answer does, is `WebSocketEngine`'s and `Sessions`' matter. The list of
sessions is read when the socket opens instead of one answer (`version()`)
later; `use()` and `set()` of a restore are in `Sessions`. A provider that
gives a token instead of credentials calls `authenticate()`, which is not
modelled; and an answer arrives within the second in which the server gave it.

### LiveSubscription

A managed subscription asks for a live query at every `connected`; the *n*-th
time is listen *n*, and *n* stands for the id. Changes of the data are
numbered, and `wire` holds the answers and notifications in order. A consumer
is one call of `subscribe()` and `got` what its handler was called with.
`Connected` combines `ready()`, which sends what is pending again, with the
listener of `connected`. `OncePerMessage`, `UpToDate` and `NothingAfterKill`
are the promises to a consumer, `StaysListening` the one of a managed
subscription.

### ChannelIterator

Values are numbered in the order of `submit()`, and `promise[p]` is the result
of the *p*-th `next()`. The consumer awaits each result before it asks for the
next, as a `for await` loop does; with `Prompt` it asks again before the next
value is submitted. `NothingIsLost` holds for a prompt consumer only:
`submit()` keeps the waiter it resolved.

### QueryExecution

One query from the promise nobody has awaited to its outcome. `phase` is where
it is, `chunks` what is left of the answer, `responses` what `collect()` or
`responses()` has put in place, `frames` what `stream()` has yielded. The
server answers each statement with a value, an array or an error; a value
carries the number of the attempt, so that an answer mixed of two shows.
`Failed` is the decision of `RetryContext.run`. `applied` counts how often a
statement took effect, also when the answer was lost.

### Publisher, Diagnostics, HttpEngine

`Publisher` has the JavaScript `Set` of listeners and the loops over it, one
inside another, with listeners that subscribe, leave, publish and throw.
`Diagnostics` has the callback that may throw in each of its phases, and
streams whose reader leaves early. `HttpEngine` has the timer of `open()`,
which `close()` does not clear, the session that each request carries, and
answers that arrive after the connection they belong to.

### EmbeddedEngine and EmbeddedDatabase

`EmbeddedEngine` is three engines in one module, told apart by `kind`: a worker
behind a broker, the library in the same thread, and the Node binding with its
lock. Everything asked is a request and `at` is where it is. `AgentTakes`,
`Deliver` and `Ready` are the messages of the worker; `LibraryLoads`, `Opens`,
`Notifies` the awaits of `#initialize()`; `TakesInstance` and `Frees` the end
of the database. `EmbeddedDatabase` is the Rust side: the capabilities that
options become, and the tables of live queries and transactions, one lock at a
time.

### Statements, Conditions, Instants, Decimals, Geometries, ValueCodecs, ServerErrors

`Statements` has builders that are made from one another, bound queries that
are appended to and interpolated, and what each would send; the properties
compare it with the calls that led there. `Conditions` writes a composed
condition as tokens and reads it again with the precedence of SurrealQL.
`Instants` and `Decimals` keep beside each value the number it stands for and
apply the methods one after another; the ratios of the units and the radix are
constants. The constructor of `Decimal` takes all it is given, but not always
as what was meant: `doubt` is history and says so. `"value"` is a number that
prints with an exponent (`MakeOfNumber`), whose digits are not read, or the
`abs()` of parts that differ in sign: the number beside it is forgotten.
`"parts"` is a tuple whose parts differ in sign, or whose fraction is minus one
or less: the value is right, and the methods that look at the parts (`isZero`,
`isNegative`, `toBigInt`, the notations) need not be; arithmetic puts the parts
in order. Strings are well formed: a sign other than `-`, and parts that are no
digits and read as zeros, are left out. `Geometries` is a heap: the arrays of
points, some of them the application's, and the geometries that refer to them
or to one another. What a geometry was made to be, which arrays the application
closed a line over, and which geometry is a clone of which are history;
`StayAsMade` leaves out what the application changed itself. `ValueCodecs`
encodes a tree of values, with keys that look like the marks of the format, and
decodes it. `ServerErrors` sends an error and its causes in each form the
server has (a code, an error, a result, a result whose details repeat the kind)
and asks what is parsed each question the error classes answer.

### SpectronTransport and ChatStream

Every method of the client is a request of its kind: GET or a write, with a key
or without, for JSON, bytes or a stream. `travelling` are the requests on their
way, which may be lost, delayed past the retry of their call, or served after
it; `clock` is what the time bucket of a key is made of. `ChatStream` cuts the
text of a chat at any point, line ends included.

## The runs

| Run | Instance | States | Shows |
|---|---|---|---|
| `WebSocketEngineSafety` | 2 calls, 2 sockets, 4 reconnect options, symmetric calls | 131 225 | no call stuck, exact giving up, no resend, `ImplementsChannel` and `ImplementsLifecycle` |
| `WebSocketEngineLiveness` | 1 call, 2 sockets, fair | 6 672 | a call settles, `close()` returns, `open()` ends, `ImplementsFairLifecycle` |
| `ConnectionControllerMixed` | 3 connects with 1 socket each or 2 with 2, any application; 3 with 2, careful | 77 494 | the last `connect()` wins, one live engine, usable when connected, accurate status, `close()` returns, `EnginesAsPromised` |
| `LiveSubscriptions` | 2 consumers, 3 connections or 2 changes | 410 903 | once each, in order, none lost, nothing after `kill()`, listening again |
| `Sessions` | 4 calls, 2 sessions, 3 sockets careful; 2 calls, 2 sockets otherwise | 38 875 | `CarefulRestored`, calls settle, handshakes end |
| `AuthRenewalSafety` | 2 sessions, 2 calls, 2 handshakes (1 loss), 2 seconds | 1 773 278 | renewed in time, server and client agree, the chosen user stays, no busy timer |
| `Services` | 2 calls and 2 closes of 3 engines; 2 calls of the client, 1 retry | 138 284 | nothing after `close()`, a write once, all calls settle |
| `Library` | the parts in `MCLibrary` | 725 750 | twelve invariants, for the fourteen parts |
| `LiveSubscriptionTwice` | 1 consumer, 2 connections, 1 change | - | violated: a message twice |
| `ChannelIteratorLoss` | 2 values, 2 calls | - | violated: a value is lost |
| `AuthRenewalChosenStays` | as `AuthRenewalSafety`, 3 seconds, also tokens without expiry | - | violated: renewed as someone else |
| `InstantsReadBack` | small units | - | violated: a time printed with the next second |

*Bounds.* Two sockets are one loss and one reconnect at any point of any call's
life; the safety properties of the engine were run on three sockets as well
(10.6 million states, too many for a run kept here). Two calls are needed for
one answer to overtake another; three engines for a `connect()` to be
superseded while it awaits the close of the first; three connections for a live
query to be asked for while an earlier request of the same kind is still
pending; two consumers for one to leave or throw beside another. `MayFail` of
the WebSocket engine keeps the network from failing when no socket is left to
reconnect with: it cuts behaviours, never adds one. The reconnect options cover
off, no attempt, one attempt and no limit, and the retry options of a query
off, none, two and no limit. In `AuthRenewal` a token of two seconds with a
margin of one is renewed within the clock of two seconds, and found expired
when a renewal comes late; two handshakes are one loss at any point of the
first restore or after it, and an old handshake that goes on beside the new
one; two calls are two answers of which one overtakes the other, or a clone and
a call. Simulations with three handshakes, two forks, two users, six calls and
calls at any time (`Quiet` FALSE) found nothing more. `MaxDelay` is longer than
any delay of the run, see the disagreements below. Two `close()` are needed for
one to find the resolver of the other gone. In `Instants` and `Decimals` the
ratios are small (2 and 5, radix 4) so that every carry, borrow and rounding
happens within a few hundred nanoseconds or hundredths. Three geometries are a
line, a polygon of it and a clone; four were run once (416 848 states of that
part). The other bounds are named where they are declared. Deadlock is not
checked where the application may stop calling, which is everywhere.

*Fairness.* A socket that is connecting opens or fails and one that is closing
is closed (the WebSocket standard has a timeout for both); timers fire; the
server executes what it receives and its answers arrive while the socket stays
open; continuations run. In `LiveSubscription` the same is assumed of the
answers and messages of a connection that lasts. In `Sessions` a socket is
opened again after a loss. In `EmbeddedEngine` messages between the threads
arrive, and the database opens, answers and lets go of its lock. In
`SpectronTransport` timers fire and a body ends or breaks off; a request or an
answer may be lost for ever, and a stream has no time limit and is left out of
`EveryCallSettles`. Nothing is assumed of the application, and an open socket
may stay open or be lost at any time.

*What is one step.* In `AuthRenewal` the execution of an authentication and its
answer are two steps. When the answer of a later request is taken first, the
client ends with the earlier token and the server has the later one; that is
what `overtaken` takes out of `ServerAgrees`, and nothing else does. `Sessions`
shows the same race for `use()` and `set()`.

*Hazards of which a property catches a part.* `PROJECT.json` has a note at
each. What is left:

- The late events of a replaced engine (`controller/index.ts:477`) harm an
  application that is not careful: `CarefulConnection` does not speak of it,
  and `StatusIsAccurate` for everybody fails.
- A change made during a restore, and answers of `use()`, `set()` or `reset()`
  that overtake each other (`controller/index.ts:737`, `:326`), leave client
  and server apart: `CarefulRestored` is about one call at a time.
- An answer over HTTP that comes after `close()` (`controller/index.ts:265`)
  writes into whatever session state is there: `crossed` takes it out of
  `AnswersFindTheirConnection`.
- A callback of the diagnostics that throws at a success makes the call tell
  its end twice and fail (`engine/diagnostics.ts:368`): `Transparent` leaves
  these calls out (`threw`), `FailuresStay` does not.
- Of `kill()` before the id is known only the client's half holds.
- `raw()` (`utils/expr.ts:49`) writes the application's own text, with or
  without parentheses: `Conditions` does not model it. Of keys that look like
  marks the codecs wrap those of objects, not those of maps; a chat that mixes
  its line ends is left out; both are below.
- A body that never ends keeps its call for ever
  (`packages/spectron/src/transport.ts:164`): the fairness of the network
  excludes it.
- `WebSocketEngine`: when a request cannot be encoded `send()` throws with the
  call recorded already (`engine/websocket.ts:163-165`), and the next `ready()`
  throws at it, which fails that handshake. Requests of the model can be
  encoded; `SendThrows` is the same throw from a socket that is connecting.
- `QueryExecution` gives every reading of a query the once-guard of
  `DispatchedPromise`, which is how the promise of a query is read with
  `await`. `collect()` and `responses()` called directly (`query/query.ts:106`,
  `:223`) are async methods: they send at once, and again at each call. A retry
  has the `retryable` of the code; one the application gives is not modelled.
- `Instants` parses whole numbers of units and multiplies by whole factors:
  strings and factors with a fraction are left out.

*Assumptions about what is outside.* The Spectron server remembers the keys it
has served; the SurrealDB server executes the requests of a connection
concurrently and undoes all of a transaction that fails; the datastore of the
embedded engines is external, and only its lists of live queries and open
transactions are kept.

## The findings

Each is the counterexample of a run.

1. A connection that is lost while `LIVE SELECT` is pending makes the
   subscription listen twice: `ready()` sends the old request again and
   `connected` makes another (`utils/live.ts:99`). Every later message arrives
   twice.
2. `submit()` hands a value to a waiter it resolved before
   (`utils/channel-iterator.ts:69`): a consumer that is busy loses messages.
3. `authenticate()` keeps the refresh token of an earlier authentication
   (`controller/index.ts:282`): the next renewal or reconnect signs the session
   in as someone else.
4. `toISOString()` adds seconds and nanoseconds in a double
   (`packages/sqon/src/value/datetime.ts:145`): a time in the last nanoseconds
   of a second is printed with the next one.

## Where the code and its documentation disagree

Found in the same way, by giving TLC the definition named as an invariant or a
property, and not kept as runs. The modules model what the code does.

- `close()` never settles the calls that are pending
  (`engine/websocket.ts:96`), although `CallTerminatedError` is documented for
  it.
- When the engine gives up before it connected, `ready()` and with it
  `connect()` never settle (`controller/index.ts:166`): the engine's `error`
  has no subscriber, and `disconnected` is not awaited.
- `StatusIsAccurate` of an application that is not careful: the callbacks of a
  replaced engine stay subscribed, and its late `disconnected` unsets the
  engine and the status of its successor (`controller/index.ts:477`).
- `Restored` without the care described above (`controller/index.ts:464`): a
  call that settles during a restore, or two calls whose answers overtake each
  other, leave client and server apart.
- `ResetDestroys`: `reset()` keeps a session that was created
  (`controller/index.ts:373`; `api/session.ts:118` says it destroys it).
- `AlwaysRenewed`: a session whose provider failed once has no timer any more.
- `AlwaysAgrees`: a clone is documented to inherit the authentication state
  (`api/session.ts:115-124`). When its tokens are refused and the provider's
  signin too, `createSession()` rejects, but the clone stays in
  `#state.sessions` with the copied tokens and is nobody on the server
  (`controller/index.ts:681-683`, `:528`); every reconnect restores it again.
  And when two authentications of a session overtake each other the client
  keeps the token of the one the server executed first.
- `NoBusyRenewal` with a lifetime beyond `MaxDelay`: a delay of more than
  2^31-1 milliseconds fires at once, again and again
  (`controller/index.ts:565-569`). The run keeps to lifetimes a timer can wait
  for.
- `KillStopsServer`: `kill()` before the id is known leaves a live query
  running (`utils/live.ts:133`). `AliveIsListening`: an unmanaged subscription
  reports to be alive when its stream has ended (`utils/live.ts:225`).
- `RefusalIsFinal`: a refusal whose body breaks off is tried again
  (`packages/spectron/src/transport.ts:272`).
- `ParsesScientific`: `"0.05e1"` reads as 50
  (`packages/sqon/src/value/decimal.ts:421`).
- `NumbersAreKept`: the constructor looks for an exponent in strings only
  (`packages/sqon/src/value/decimal.ts:70`, documented at 34-38 to take a
  number): `new Decimal(1e21)` and `new Decimal(1e-7)` are 0, and `new
  Decimal(1.5e-7)` is 1. `DecimalsAreExact` leaves these out (`doubt =
  "value"`).
- `TuplesAreWritten`: a tuple whose fraction is minus one or less is not
  carried, nor are signs reconciled
  (`packages/sqon/src/value/decimal.ts:60-69`): `new Decimal([0n, -15n, 1])` is
  -1.5 to arithmetic and prints `-0.15`, and the `abs()` of a whole part and a
  fraction of different signs is another number.
- `ToBigIntTruncates`: `toBigInt()` is documented to truncate
  (`packages/sqon/src/value/decimal.ts:365`), and rounds down when the whole
  part is negative: -1.5 becomes -2, while -0.5 becomes 0. `DecimalsAreExact`
  says what is true of both: it is off by less than one.
- The constructors of geometries that take another one are documented to clone
  it (`packages/sqon/src/value/geometry.ts:328`) and share its parts, and a
  line keeps the array it is made of
  (`packages/sqon/src/value/geometry.ts:140`): to `close()` a line of the copy
  closes the original's. `ClonesAreApart` extended to those constructors fails;
  it speaks of `clone()` only.
- `Statements!Unheard`: `unique()` of a relation is never written
  (`query/relate.ts:84`), a limit or start of 0 counts as none
  (`query/select.ts:203`); the timeout clause of a builder is written twice
  (`internal/internal-expressions.ts:38`).
- `ChatStream` leaves out a body that mixes its line ends: `"\r\n\n"` loses a
  character (`packages/spectron/src/streaming.ts:67`). `ValueCodecs` leaves out
  a map with keys that start with `$`, which the JSON codec does not escape
  (`packages/sqon/src/codec/json/codec.ts:146`). `Instants` starts at the
  epoch: a `Date` before 1970 with a fraction is a second off
  (`packages/sqon/src/value/datetime.ts:90`). A function name that cannot be
  parsed makes the bindings panic (`packages/node/src-rust/app/options.rs:83`)
  and is left out of `EmbeddedDatabase`.

## The proofs

All proofs are checked by TLAPS for every value of the constants, from the
assumptions the modules name: bounds are natural numbers, calls are not socket
numbers, attempts are natural numbers or -1, the statements of a query are
numbered, "undefined" is no value. TLC evaluates the same assumptions on the
instances. The proofs about live subscriptions and the Spectron client state
theirs as `Assumptions`, in the proof module. Where a property is about careful
applications, the theorem is about the specification of all applications, and
the property has the premise.

*Engine.* None of the properties is inductive alone. `Inv` adds: `LoopShape`
(how `loop`, `readyState`, `#terminated`, `_state` and the last event belong
together: without it `NothingStuck` cannot tell a lost socket from a new one),
`WireShape` (nothing is in flight without a socket, and nothing that was not
accepted), `FreshHandshakes` (a socket that has not opened has not sent its
handshake, so its copy count starts at zero), `RecordedIsUnanswered` (what
`ready()` transmits has no answer yet), `CopiesBounded` (executions and copies
in flight together are bounded by `ready()` calls, the strengthening of
`DuplicatesComeFromReady`) and `AttemptsCounted` (attempts against sockets
created). One lemma per action shows each conjunct preserved; the action
properties follow from `Inv` step by step.

*Refinements.* `Implementation` maps every step of the engine to a step of
`RpcChannel` or to none: sends issue, the server executes, the first answer
answers, and the only steps that disconnect are the end of the loop and
`close()`. `LoopShape` shows that nothing reconnects a channel that is gone,
`PendingIsRecorded` that the calls rejected by the loop are all that are
pending. `LifeOfAnEngine` maps the same steps to `EngineLifecycle`, where calls
and answers stutter but for the ones that continue into `ready()` and
`close()`. `EnginesLiveAsPromised` is the same of every engine of
`ConnectionController`, the replaced ones included. Its invariant `Lives` adds
to the controller's that the engine in place was opened (`Opened`: `close()`
before `open()` is no step of an engine) and that one which was not is as it
was made (`Untouched`); that `ready()` is called on open sockets only comes
from the handshakes, which call it on the engine in place and not on the one
they began with. Together the two show that the controller's projection of the
engine leaves out nothing of it that bears on the connection.

*Controller.* `Inv`: an engine whose `connect()` has not got past its await was
not opened, `#nextEngine` is the engine of the last call, and nothing newer
than the engine in place was opened. `LatestConnectWins` follows.
`CarefulStaysConnected` needs `Steady`: of a careful application one engine
runs at most, closed or not (`OneRunning`), a live one is the one in place
(`LiveInPlace`), nothing runs when a `connect()` that awaited its
`disconnect()` goes on (`ConnectsAlone`), and a handshake that can still be
answered is on a socket that is not lost yet (`CallsOnSockets`), which is why
the status it sets is true (`StatusOfEngine`).

*Sessions* (`SessionsProofs`). `CarefulRestored` is about states that are
connected, and most of the work of its invariant is done in others.
`OneAtATime`: the table holds at most one call of the application beside one
request of the handshake, what is in flight is about the one underway, and no
answer is a rejection. `MakesSense`: a restore asks for sessions the client
knows, and for what the client keeps. `HalfRestored` follows a restore through
its session: every key the server has is the client's, and a key it lacks is
still to come (`Missing`: in the request under way, in what is `left`, or after
the selection). `WhileRestoring` says of all sessions that those before the one
at work are whole and those after it not attached; `WhileConnected`, that only
what the pending call is about may differ, and by what the server has already
done of it (`Attachments`, `Effects`). A socket lost in the middle of a call
leaves that call in the table; `ready()` sends it again, to sessions that are
whole. `CarefulStayRestored` follows, for any number of sessions, variables and
sockets.

*Channel.* `Inv`: calls settle one at a time, a waiter and queued values
exclude each other, what is queued is later than what was delivered. For a
prompt consumer `PromptInv` adds that every value is delivered or queued.

*Live subscriptions* (`LiveSubscriptionProofs`). `Inv` says that nothing is in
flight without a connection, that an answer under way belongs to a request that
was made and is no longer on its own, and that no consumer waits after
`kill()`; `KillIsFinal` follows. `OnceForEveryChange` needs the order of the
wire: while no connection was lost with a `LIVE SELECT` pending
(`OneLiveQuery`), one live query at most can still notify, the changes on the
wire rise (`WireRises`), and what a handler has got is older than all of them
(`HandledIsPast`, `HandledRises`). `NothingFallsBetween` needs the converse: a
live query the server runs has a stream, or its id is on the wire ahead of its
first notification (`LiveIsHeard`, `NotificationsHeard`), which rests on each
`LIVE SELECT` being answered once (`AnswersAwaited`, `AnswersOnce`). Then each
change is with the consumer, on the wire, or was missed with a connection
(`Accounted`).

*Spectron client* (`ServicesProofs`). `Inv`: a key tells one text of one
operation (`KeysTellTexts`), a write without a key is sent once
(`WritesWithoutKeyAreSentOnce`), only a call that may be retried sleeps
(`SleepersMayRetry`), and what the server did it did once (`EffectsAreFinal`).
`WritesOnce` follows for requests served in any order and as late as one likes;
`ResolvedWritesAreStored` from `SeenIsStored` and `AnsweredIsStored`.

*Embedded engines* (`ServicesProofs`). `EngineInv` tells the three engines
apart: only the one with a worker sends messages, a worker whose `close()`
returned was terminated with everything it had (`TerminatedIsOver`), the others
freed their instance first (`FreedIsOver`), which they do because what
`close()` looks at tells whether there is one (`LiveIsKnown`); an answer that
still travels to the host was true when it was given and is true when it
arrives (`AnswersAreTrue`). `ClosedStaysClosed` and `ConnectedCanBeUsed`
follow, the latter step by step. Both keep the exceptions the properties name:
a `close()` that overtakes `#initialize()`.

*Authentication* (`AuthRenewalProofs`). `Inv` follows who is responsible for a
session. `Agreement`: of a session that was not overtaken the server has what
the last answer said, on its way or taken; then it is what the client has,
unless the session is `Missing` on the server: still to be restored by the
handshake under way, still to be authenticated by its `createSession()`, or
left by one that was rejected. This needs `latest`, whose answer the last one
was; `RestoresInTurn` (a handshake, also one that was cut off, works on the
head of its list, so that the list is a record of what it has not done);
`AnswersArrive` (an answer belongs to a request under way, and its token has
not expired); and `NewIsNobody` and `ClonesWait` (nobody authenticates a clone
before `createSession()` does). `SomebodyRenews`: a token that expires is
`Renewed` by a restore or clone to come, by its timer, which fires before its
end or has, or its provider failed; and time does not pass a timer that is due
(`TimersAhead`). `ServersAgree` and `RenewsInTime` are `Inv` for a session that
rests, for any number of losses, wherever they fall. `NoBusyRenewal` needs the
assumption `LifetimesFit`, that no token lives longer than `MaxDelay`, and
`OnceInv` with `FiredThenWaits`: a timer that has fired this second is set to a
later one, which `DelayBounds` shows for every margin. The proofs do not need
`Quiet`: the application may call at any time. `ChosenStaysTheirs` needs
`ChosenInv`: once an application has chosen a token without a race, no request
of the provider is under way for its session, none is made, and what a restore
brings back are the tokens that were chosen.

*The parts* (`PartsProofs`; each invariant is of one part, and `PartsSpec`
moves one).

- `SafeRetries` (queries): `QueryInv` relates the effects of a transaction to
  what is still to be read: an answer under way came with all its effects and
  no failure, or with none and, for `collect()`, a failure ahead
  (`EffectsAwaitAnswer`), so that what is sent again was undone; `SendsCounted`
  counts the sends.
- `WholeAnswers` (queries): `Whole` splits the answer at the chunk being read:
  what `responses` and `frames` hold is the part before it, what is in `chunks`
  the part after it (`ChunksAhead`, `ResponsesSoFar`, `FramesSoFar`). The
  lemmas about positions show that what is put at a position is the statement
  that was asked for there.
- `SessionsOverHttp`: the session kept by the client is at each point the last
  value told of each kind in the log (`LogShape`); what a request carries is
  that value at the time it was made, in whatever order the answers come.
- `KeptTables` (embedded database): `LiveInv` follows each lock: a live query
  that runs is in the table, about to be, or about to be deleted
  (`RunningIsKnown`, `KilledIsGone`), and an entry is of a session that is
  attached, or was made after the cleanup of its session
  (`EntriesAreOfSessions`); `TxInv`: the one who took a transaction out of the
  table is the one who ends it (`OneEnds`, `OpenUntilEnded`). `OptionsHold`
  shows what the options grant for every option.
- `TransparentDiagnostics`: `Begun` says per phase of a call what was told,
  what the delegate did and what the caller got.
- `ExactValues` (`Decimals`): `DecInv` says what is `Known` of a decimal: it is
  whole numbers and a scale (`Numbered`); unless `doubt` is `"value"` it
  `Means` the number beside it, its scale being at least that of the number and
  its value the number, scaled up; and unless it is `"parts"` it has a form
  (`Form`: the fraction is below one and has the sign of the whole part). The
  constructors establish as much as they read; arithmetic takes any two that
  are `Numbered` to one that has a form. Each operation keeps that, because two
  operands at one scale are their numbers at that scale, and `Split` gives the
  one form a value has at a scale. Rounding is a division with remainder, which
  is off by at most a half since the radix is even. For the notations, what
  `ToString`, `ToFixed` and `ToScientific` write is read again digit by digit:
  `NumberOf` undoes `Digits`, leading zeros do not count, and each zero that is
  cut off at the end takes one from the scale; the digits of a scientific
  notation are the same before and after the point moves over them. The powers
  and the digits are recursive functions, with equations from the lemmas below.
  The theorem is for every even radix of at least four and every scale of a
  quotient, ten and 38 included.
- `ListenersHear`: the entries are numbered in the order of `subscribe()`
  (`EntriesNumbered`), so that each loop has called what is behind it once and
  what is ahead not yet, loops inside loops and entries that were taken out
  included (`LoopsTold`); a promise of `subscribeFirst()` that has resolved has
  no entry (`FirstsOnce`).

*Chats, builders, values and errors* (`DataProofs`; each invariant is of one
part of `Data`).

- `ChunksReachTheApplication` (`ChatStream`): `ChatInv` says that what was read
  and what is still to be read, put together, are the frames nobody took yet,
  so that where the network cut them does not matter; and that what the
  application got, with what those frames say, is what the server said. The
  work is in what the buffer can hold: no blank line is found in the beginning
  of a frame that has not arrived as a whole (`StillToCome`), and when one is
  found it is the end of the first frame and what is before it has that frame's
  data. The line ends are of one kind throughout a body, and lines are told
  apart from line ends (`DataAssumption`).
- `StatementsSay` (`Statements`), `BuildInv`: the options of every builder are
  what was said last to it and to those it was made of, and its root
  (`Faithful`). One lemma per kind of builder shows that its statement has a
  clause for each option, but for those the code does not hear (`Unheard`, as
  in the property), one per setter that the options stay faithful. A query that
  is appended or interpolated keeps each of its clauses with the parameter that
  has its value (`ParametersKept`).
- `ErrorsTold` (`ServerErrors`): for each form of an error and each question
  the error classes answer, also of its causes. `MeantIsSaid` is both.
- `InstantsStayExact` (`Instants`), `InstantInv`: a duration and a date are the
  one form (`Canon`) of the number they stand for. Each operation is a division
  with remainder, for whatever ratios the units have; the text of a duration
  takes the units from the largest down, each from the remainder of the one
  before, and reading it adds them again.
- `ChannelAmongTheParts`: a behaviour of `Data` is one of `ChannelIterator`, so
  that its theorems hold of it.

TLAPS has no induction that a proof could name here: the library's theorems
take an operator as a parameter. `DataProofs` and `PartsProofs` get by with the
facts under them. `LessIsWellFounded` is a library fact about the numbers;
`Least` and `SetInduction` follow for sets of numbers instead of predicates.
`Recursion` says that a function which is defined by recursion over the first
numbers exists, and `SameSoFar` that two which compute alike are equal; from
these come the equations of `Left`, `From` and `Data`, which the lemmas about
the chat use by name, and those of `Pow`, `Digits` and `NumberOf` for the
decimals.

## Only model-checked

Every liveness property, with `ImplementsFairLifecycle`: fairness and ENABLED
are out of the prover's reach. Of the safety properties one,
`ReadsWhatWasMeant` of `MCLibrary`: it is about trees (`Conditions`,
`ValueCodecs`) and a heap that refers to itself (`Geometries`), and those
modules walk them with RECURSIVE operators, which the provers do not have.
Three of the findings mark where a theorem stops: `OnceForEveryChange` a
connection lost while a `LIVE SELECT` is pending, `PromptConsumerLosesNothing`
a busy consumer, `ChosenStaysTheirs` a choice that races.

## Not modelled

- The pinger of the WebSocket engine, which is one more call of `send()` on a
  timer; and messages that cannot be decoded. The rejection of a ping whose
  connection is lost is handled by nobody (`engine/websocket.ts:208`: the `try`
  around it does not await); it changes no state of the SDK.
- Feature and version checks (`utils/features.ts`,
  `utils/is-version-supported.ts`): comparisons of constants, without state.
- `inspect`, and the errors that hold only a message: wording.
- Uuids: checks of shape and comparisons. The escaping of identifiers: string
  formatting. Raw expressions: the application's own text.
- `generated.ts` of Spectron: types without behaviour.
- The defaults and planner flags of the bindings' options, which are passed
  through; the database and the datastore.

## Plan

What is left, in this order: the composition of `Sessions` with `AuthRenewal`
in one restore, with providers that give a token; `CarefulRestored` for several
calls at a time about different sessions; the trees of `Conditions` and
`ValueCodecs` as functions on paths instead of RECURSIVE operators, so that
what is read of them can be proved as it is for chats; and a body of a chat
that mixes its line ends, as a finding.
