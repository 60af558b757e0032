---------------------------- MODULE EmbeddedEngine ----------------------------
(***************************************************************************)
(* The engines that run the database in the process of the application:    *)
(*                                                                         *)
(*  - "worker": WebAssemblyEngine over WorkerEngineBroker, and the agent   *)
(*    in the Web Worker that holds the database (packages/wasm/src-ts);    *)
(*  - "local": WebAssemblyEngine over LocalEngineBroker;                   *)
(*  - "node": NodeEngine over the Rust binding (packages/node).            *)
(*                                                                         *)
(* Everything an engine is asked is a request: Connect, made by open(),    *)
(* the calls of send(), importSql() and exportSql(), and the calls of      *)
(* close().  The host runs it: the agent, or the engine itself, or, for    *)
(* the calls of "node", the tasks of the binding, which hold its lock.     *)
(***************************************************************************)
EXTENDS Naturals, Sequences, SequencesExt

CONSTANTS
  Connect,        \* the request of open()
  Calls,          \* send(), importSql() and exportSql()
  Closes,         \* close()
  Kinds           \* which engines

Requests == {Connect} \cup Calls \cup Closes

VARIABLES
  kind,           \* which engine this is
  fresh,          \* the worker is new: its READY is still to come
  status,         \* the last lifecycle event of the engine
  active,         \* #active; for "worker": #worker is set
  handle,         \* #engine is set
  held,           \* requests that await #ready
  inbox,          \* requests on their way to the agent
  outbox,         \* answers on their way back
  at,             \* per request: where it is, or how it ended
  db,             \* the database instance, "freeing" while free() awaits the lock
  reader,         \* the loop that reads the notifications
  raced           \* history: close() was called before #initialize had ended

vars == <<kind, fresh, status, active, handle, held, inbox, outbox, at, db, reader, raced>>
mail == <<held, inbox, outbox>>

Started == {"held", "posted", "library", "opening", "notifying", "queued",
            "running", "reader", "answered"}
Ended   == {"ok", "failed", "refused", "lost"}

TypeOK ==
  /\ kind \in Kinds /\ fresh \in BOOLEAN
  /\ status \in {"connecting", "connected", "error", "disconnected"}
  /\ active \in BOOLEAN /\ handle \in BOOLEAN /\ raced \in BOOLEAN
  /\ held \in Seq(Requests) /\ inbox \in Seq(Requests)
  /\ outbox \in Seq(Requests \X {"ok", "failed"})
  /\ at \in [Requests -> {"none"} \cup Started \cup Ended]
  /\ db \in {"none", "live", "freeing", "freed"}
  /\ reader \in {"none", "reading", "cancelled", "exited"}

\* open() has been called: the worker exists and CONNECT awaits #ready, or the
\* library is being loaded, or the binding opens the datastore.
Init ==
  /\ kind \in Kinds
  /\ fresh \in (IF kind = "worker" THEN BOOLEAN ELSE {TRUE})
  /\ status = "connecting"
  /\ active = (kind # "local") /\ handle = FALSE
  /\ held = (IF kind = "worker" THEN <<Connect>> ELSE << >>)
  /\ inbox = << >> /\ outbox = << >>
  /\ at = [r \in Requests |-> IF r # Connect THEN "none"
             ELSE CASE kind = "worker" -> "held"
                    [] kind = "local"  -> "library"
                    [] kind = "node"   -> "opening"]
  /\ db = "none" /\ reader = "none"
  /\ raced = FALSE

Aborted  == \E k \in Closes : at[k] # "none"      \* signal.aborted
Pending(r) == at[r] \in Started
Put(r, where) == at' = [at EXCEPT ![r] = where]

-----------------------------------------------------------------------------
(* Faulty variants of the definitions below.                               *)

\* close() does not free the instance.
FreesNothing == UNCHANGED db

\* #initialize does not look at the signal.
ConnectedRegardless == status' = "connected"

\* The agent answers a call only when there is an instance.
BeginCallSilently(c) == Put(c, IF db = "live" THEN "running" ELSE "lost") /\ UNCHANGED outbox

\* close() leaves the reader alone, and awaits its end.
AwaitsReader == UNCHANGED reader

-----------------------------------------------------------------------------
(* The answer to a request.                                                *)

\* The rest of #initialize when its last await is over.
AfterConnect == status' = IF Aborted THEN status ELSE "connected"

\* The promise of a request settles in the main thread.
Settle(r, how) ==
  /\ Put(r, how)
  /\ IF r = Connect
       THEN IF how = "ok" THEN AfterConnect ELSE status' = "error"
       ELSE UNCHANGED status

\* The handler of the agent posts the answer.
Post(r, how) ==
  /\ Put(r, "answered")
  /\ outbox' = Append(outbox, <<r, how>>)

\* The host is done with request r.
Answer(r, how) ==
  IF kind = "worker" THEN Post(r, how) /\ UNCHANGED status
                     ELSE Settle(r, how) /\ UNCHANGED outbox

-----------------------------------------------------------------------------
(* Requests of the application.                                            *)

\* isConnected of the brokers, and the test of NodeEngine.
Accepts == IF kind = "worker" THEN active ELSE active /\ handle

\* #send() of the worker broker.
Send(r) ==
  IF held = << >> /\ at[Connect] # "held"
    THEN inbox' = Append(inbox, r) /\ Put(r, "posted") /\ UNCHANGED held
    ELSE held' = Append(held, r) /\ Put(r, "held") /\ UNCHANGED inbox

Call(c) ==
  /\ at[c] = "none"
  /\ IF Accepts /\ kind = "worker" THEN Send(c)
       ELSE /\ Put(c, IF ~Accepts THEN "refused" ELSE IF kind = "local" THEN "running" ELSE "queued")
            /\ UNCHANGED <<held, inbox>>
  /\ UNCHANGED <<kind, fresh, status, active, handle, outbox, db, reader, raced>>

CancelReader == reader' = IF reader = "reading" THEN "cancelled" ELSE reader

Freed == db' = "freed"

\* close(), up to its first await that does not end at once.
Close(k) ==
  /\ at[k] = "none"
  /\ raced' = (raced \/ Pending(Connect))
  /\ CASE kind = "worker" /\ active ->
            Send(k) /\ UNCHANGED <<status, active, handle, db, reader>>
       [] kind = "worker" /\ ~active ->
            Put(k, "ok") /\ status' = "disconnected"
            /\ UNCHANGED <<held, inbox, active, handle, db, reader>>
       [] kind = "local" /\ reader # "none" ->
            Put(k, "reader") /\ active' = FALSE /\ CancelReader
            /\ UNCHANGED <<held, inbox, status, handle, db>>
       [] kind = "local" /\ reader = "none" ->
            Put(k, "ok") /\ active' = FALSE /\ status' = "disconnected"
            /\ UNCHANGED <<held, inbox, handle, db, reader>>
       [] kind = "node" ->
            /\ Put(k, "ok") /\ status' = "disconnected"
            /\ active' = FALSE /\ handle' = FALSE
            /\ db' = IF handle THEN "freeing" ELSE db
            /\ UNCHANGED <<held, inbox, reader>>
  /\ UNCHANGED <<kind, fresh, outbox>>

-----------------------------------------------------------------------------
(* The worker and its broker.                                              *)

\* READY: #send() goes on for each request that awaits it.
Ready ==
  /\ kind = "worker" /\ fresh /\ held # << >>
  /\ inbox' = inbox \o held /\ held' = << >>
  /\ at' = [r \in Requests |-> IF at[r] = "held" THEN "posted" ELSE at[r]]
  /\ UNCHANGED <<kind, fresh, status, active, handle, outbox, db, reader, raced>>

\* handleExecute(), handleImportSql() and handleExportSql() of the agent.
BeginCall(c) ==
  IF db = "live" THEN Put(c, "running") /\ UNCHANGED outbox ELSE Post(c, "failed")

\* handleClose() of the agent, up to the await of the reader.  There is an
\* instance only if there is a reader.
BeginClose(k) ==
  IF reader = "none" THEN Post(k, "ok") /\ UNCHANGED reader
                     ELSE Put(k, "reader") /\ CancelReader /\ UNCHANGED outbox

\* The agent's "message" listener; its handlers run concurrently.
AgentTakes ==
  /\ inbox # << >>
  /\ LET r == Head(inbox) IN
       /\ inbox' = Tail(inbox)
       /\ CASE r = Connect   -> Put(r, "library") /\ UNCHANGED <<outbox, reader>>
            [] r \in Calls   -> BeginCall(r) /\ UNCHANGED reader
            [] r \in Closes  -> BeginClose(r)
  /\ UNCHANGED <<kind, fresh, status, active, handle, held, db, raced>>

\* The worker is terminated with what it holds, and the resolvers are dropped.
Terminate(k) ==
  /\ active' = FALSE /\ status' = "disconnected"
  /\ at' = [r \in Requests |-> IF r = k THEN "ok" ELSE IF Pending(r) THEN "lost" ELSE at[r]]
  /\ held' = << >> /\ inbox' = << >> /\ outbox' = << >>
  /\ db' = (IF db = "live" THEN "freed" ELSE db)
  /\ reader' = (IF reader = "none" THEN "none" ELSE "exited")

\* #handleMessage() of the broker.
Deliver ==
  /\ outbox # << >>
  /\ LET r == Head(outbox)[1]
         how == Head(outbox)[2]
     IN IF r \in Closes /\ how = "ok"
          THEN Terminate(r)
          ELSE /\ Settle(r, how)
               /\ outbox' = Tail(outbox)
               /\ UNCHANGED <<active, held, inbox, db, reader>>
  /\ UNCHANGED <<kind, fresh, handle, raced>>

-----------------------------------------------------------------------------
(* The host.                                                               *)

\* initializeLibrary().
LibraryLoads ==
  /\ at[Connect] = "library"
  /\ \/ Put(Connect, "opening") /\ UNCHANGED <<status, outbox>>
     \/ Answer(Connect, "failed")
  /\ UNCHANGED <<kind, fresh, active, handle, held, inbox, db, reader, raced>>

\* connect() of the binding, and what follows it: the instance is assigned,
\* and, but for "node", read for notifications.
Opens ==
  /\ at[Connect] = "opening"
  /\ db' = "live"
  /\ handle' = (kind # "worker")
  /\ active' = (active \/ kind = "local")
  /\ IF kind = "node"
       THEN /\ Put(Connect, IF Aborted THEN "ok" ELSE "notifying")
            /\ UNCHANGED <<reader, status, outbox>>
       ELSE reader' = "reading" /\ Answer(Connect, "ok")
  /\ UNCHANGED <<kind, fresh, held, inbox, raced>>

OpenFails ==
  /\ at[Connect] = "opening"
  /\ Answer(Connect, "failed")
  /\ UNCHANGED <<kind, fresh, active, handle, held, inbox, db, reader, raced>>

\* notifications() of the Node binding; the signal is not looked at again. The
\* lock is taken before free() takes it, or the instance is gone.
Notifies ==
  /\ at[Connect] = "notifying"
  /\ \/ /\ db \in {"live", "freeing"}
        /\ Put(Connect, "ok") /\ status' = "connected"
        /\ reader' = "reading"
     \/ /\ db = "freed"
        /\ Put(Connect, "failed") /\ status' = "error"
        /\ UNCHANGED reader
  /\ UNCHANGED <<kind, fresh, active, handle, mail, db, raced>>

\* The task of a call gets the lock of the Node binding: before free(), or
\* after it, when the call fails.
TakesLock(c) ==
  /\ at[c] = "queued"
  /\ Put(c, IF db = "freed" THEN "failed" ELSE "running")
  /\ UNCHANGED <<kind, fresh, status, active, handle, mail, db, reader, raced>>

\* execute(), import() and export() of the instance.
Executes(c) ==
  /\ at[c] = "running"
  /\ \E how \in {"ok", "failed"} : Answer(c, how)
  /\ UNCHANGED <<kind, fresh, active, handle, held, inbox, db, reader, raced>>

Running == \E c \in Calls : at[c] = "running"

\* free() of the Node binding takes the lock and the instance with it.
TakesInstance ==
  /\ db = "freeing" /\ ~Running
  /\ Freed
  /\ UNCHANGED <<kind, fresh, status, active, handle, mail, at, reader, raced>>

\* The rest of close() once the reader has left: free() of the WebAssembly
\* binding may throw while a call has the instance borrowed.
Frees(k) ==
  /\ at[k] = "reader"
  /\ reader = "exited"
  /\ \/ /\ IF db = "live" THEN Freed ELSE UNCHANGED db
        /\ handle' = FALSE
        /\ IF kind = "worker" THEN Post(k, "ok") /\ UNCHANGED status
                              ELSE Put(k, "ok") /\ status' = "disconnected" /\ UNCHANGED outbox
        /\ UNCHANGED reader
     \/ /\ db = "live" /\ Running
        /\ Answer(k, "failed")
        /\ UNCHANGED <<db, handle, reader>>
  /\ UNCHANGED <<kind, fresh, active, held, inbox, raced>>

\* readNotifications() and the loop of the Node engine end.
ReaderExits ==
  /\ reader = "cancelled" \/ (kind = "node" /\ reader = "reading" /\ db = "freed")
  /\ reader' = "exited"
  /\ UNCHANGED <<kind, fresh, status, active, handle, mail, at, db, raced>>

-----------------------------------------------------------------------------

Host ==
  \/ LibraryLoads \/ Opens \/ OpenFails \/ Notifies \/ TakesInstance \/ ReaderExits
  \/ \E k \in Closes : Frees(k)

Next ==
  \/ \E c \in Calls : Call(c) \/ TakesLock(c) \/ Executes(c)
  \/ \E k \in Closes : Close(k)
  \/ Ready \/ AgentTakes \/ Deliver \/ Host

Spec == Init /\ [][Next]_vars

\* Messages arrive, and the database opens, answers and lets go.
Fairness ==
  /\ WF_vars(Ready) /\ WF_vars(AgentTakes) /\ WF_vars(Deliver) /\ WF_vars(Host)
  /\ \A c \in Calls : WF_vars(TakesLock(c)) /\ WF_vars(Executes(c))

FairSpec == Spec /\ Fairness

-----------------------------------------------------------------------------
(* Properties.                                                             *)

(* "connected" is published by an engine that has a live database and      *)
(* accepts calls, and by none that was closed, but for "node", which does  *)
(* not look at the signal after the second await of #initialize().         *)
ConnectedIsUsable ==
  [][status # "connected" /\ status' = "connected" =>
       IF Aborted THEN kind = "node" /\ raced ELSE db' = "live" /\ Accepts']_vars

(* When close() has returned nothing is left: the database is freed or     *)
(* about to be, calls are refused, and "disconnected" stays the last       *)
(* event.  If close() overtook #initialize() this holds for "worker" only, *)
(* which takes everything with it.                                         *)
ClosedIsOver ==
  (\E k \in Closes : at[k] = "ok") /\ (raced => kind = "worker") =>
    db # "live" /\ ~Accepts /\ status = "disconnected"

(* A call settles, with the exceptions of "worker": one that its broker    *)
(* dropped when it was closed, and all of them if READY was missed.        *)
CallsSettle ==
  \A c \in Calls :
    Pending(c) ~> at[c] \in {"ok", "failed", "refused"} \/ (kind = "worker" /\ (~fresh \/ ~active))

(* close() returns or throws, unless READY was missed or another close()   *)
(* of the same worker dropped its resolver.                                *)
CloseReturns ==
  \A k \in Closes :
    Pending(k) ~> \/ at[k] \in {"ok", "failed"}
                  \/ kind = "worker" /\ (~fresh \/ \E j \in Closes \ {k} : at[j] = "ok")
=============================================================================
