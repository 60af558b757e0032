------------------------------ MODULE HttpEngine ------------------------------
(***************************************************************************)
(* HttpEngine over RpcEngine, and the part of ConnectionController that    *)
(* depends on it: connecting, and the calls of the root session, which is  *)
(* the only one over HTTP (the engine lacks the feature).                  *)
(*                                                                         *)
(* The server keeps nothing between two requests: each carries the         *)
(* selection, the token and the variables of the session, and requests     *)
(* overtake each other.  close() does not abort a request, so answers      *)
(* arrive after it, or when the next connection is in place.               *)
(***************************************************************************)
EXTENDS Naturals, Sequences

CONSTANTS
  Calls,          \* calls of the application
  Namespaces,     \* what use() selects
  Values,         \* what set() gives the one variable
  Users,          \* who signin() authenticates
  None,           \* undefined
  Null,           \* null, which makes use() unset the selection
  MaxEngines      \* bound: connect() calls

Engines == 1..MaxEngines

VARIABLES
  made,           \* engines made by connect()
  engine,         \* #engine of the controller, 0: none
  opened,         \* engines with _state
  timer,          \* engines whose open() still has to publish "connected"
  status,         \* #status
  session,        \* rootSession of #state
  call,           \* per call: what it is, and how far it is
  handshake,      \* per engine whose timer fired: the engine its version() was sent to
  log,            \* history: the calls that have resolved on this connection
  crossed         \* history: a connection was closed with a request pending

vars == <<made, engine, opened, timer, status, session, call, handshake, log, crossed>>
connection == <<made, engine, opened, timer, status, handshake, crossed>>

Fresh == [selected |-> None, variable |-> None, token |-> None]

Ops ==
  [does : {"use"}, value : Namespaces \cup {None, Null}] \cup [does : {"set"}, value : Values]
    \cup [does : {"signin"}, value : Users]
    \cup [does : {"unset", "invalidate", "reset", "query"}, value : {None}]

TypeOK ==
  /\ made \in 0..MaxEngines /\ engine \in 0..made
  /\ opened \subseteq Engines /\ timer \subseteq Engines
  /\ status \in {"disconnected", "connecting", "connected"}
  /\ session.selected \in Namespaces \cup {None} /\ session.token \in Users \cup {None}
  /\ session.variable \in Values \cup {None}
  /\ \A c \in Calls : call[c].at \in {"none", "local", "sent", "served", "ok", "failed"}
  /\ DOMAIN handshake = Engines /\ log \in Seq(Ops) /\ crossed \in BOOLEAN

Init ==
  /\ made = 0 /\ engine = 0 /\ opened = {} /\ timer = {}
  /\ status = "disconnected" /\ session = Fresh
  /\ call = [c \in Calls |-> [at |-> "none"]]
  /\ handshake = [e \in Engines |-> 0]
  /\ log = << >> /\ crossed = FALSE

InFlight(c) == call[c].at \in {"local", "sent", "served"}

-----------------------------------------------------------------------------
(* Faulty variants of the definitions below.                               *)

\* #onConnected() uses the engine it was subscribed to.
GreetsItsOwn(e) == e

\* A request goes out without the access token.
CarriedUnsigned == [session EXCEPT !.token = None]

-----------------------------------------------------------------------------
(* Connecting.                                                             *)

\* Requests that will outlive the connection.
Outlives ==
  engine # 0 /\ ((\E c \in Calls : InFlight(c)) \/ \E e \in Engines : handshake[e] # 0)

\* The engine in place is closed, and #onDisconnected() forgets it.
CloseCurrent ==
  /\ opened' = opened \ {engine} /\ engine' = 0
  /\ status' = "disconnected"
  /\ session' = Fresh /\ log' = << >>
  /\ crossed' = (crossed \/ Outlives)

\* connect(): the old engine is closed, open() sets a timer.
Connect ==
  /\ made < MaxEngines
  /\ made' = made + 1 /\ engine' = made'
  /\ crossed' = (crossed \/ Outlives)
  /\ opened' = (opened \ {engine}) \cup {made'}
  /\ timer' = timer \cup {made'}
  /\ status' = "connecting" /\ session' = Fresh /\ log' = << >>
  /\ UNCHANGED <<call, handshake>>

Close ==
  /\ engine # 0
  /\ CloseCurrent
  /\ UNCHANGED <<made, timer, call, handshake>>

\* #engine.version() of #onConnected().
Greets(e) == engine

\* The timer of open(): #onConnected() sends version(), or catches the error
\* that there is no engine.
TimerFires(e) ==
  /\ e \in timer
  /\ timer' = timer \ {e}
  /\ handshake' = [handshake EXCEPT ![e] = Greets(e)]
  /\ UNCHANGED <<made, engine, opened, status, session, call, log, crossed>>

\* #onConnected() after its await: it looks at nothing but the version.
Greeted(e) ==
  /\ handshake[e] # 0
  /\ handshake' = [handshake EXCEPT ![e] = 0]
  /\ status' = "connected"
  /\ UNCHANGED <<made, engine, opened, timer, session, call, log, crossed>>

\* fetch() fails: "error", and close().
Unreachable(e) ==
  /\ handshake[e] # 0
  /\ handshake' = [handshake EXCEPT ![e] = 0]
  /\ IF engine # 0
       THEN CloseCurrent
       ELSE UNCHANGED <<opened, crossed, engine, status, session, log>>
  /\ UNCHANGED <<made, timer, call>>

-----------------------------------------------------------------------------
(* Calls.                                                                  *)

\* send(): what HTTP does not support resolves at once; an empty use() is sent,
\* for the defaults.  A query needs a selection.
Where(op) ==
  CASE op.does \in {"set", "unset", "reset", "invalidate"} -> "local"
    [] op.does = "use" /\ op.value # None -> "local"
    [] op.does = "query" /\ session.selected = None -> "failed"
    [] OTHER -> "sent"

\* What fetchSurreal() and send() put into the request.
Carried == session

Call(c) ==
  /\ call[c].at = "none"
  /\ \E op \in Ops :
       call' = [call EXCEPT ![c] =
         [at |-> IF engine \in opened THEN Where(op) ELSE "failed",
          op |-> op, engine |-> engine, carries |-> Carried, knew |-> log, answer |-> None]]
  /\ UNCHANGED <<connection, session, log>>

\* The server executes a request; the defaults of use() are its own.
Serve(c) ==
  /\ call[c].at = "sent"
  /\ \E n \in (IF call[c].op.does = "use" THEN Namespaces \cup {None} ELSE {None}) :
       call' = [call EXCEPT ![c].at = "served", ![c].answer = n]
  /\ UNCHANGED <<connection, session, log>>

Refuse(c) ==
  /\ call[c].at = "sent"
  /\ call' = [call EXCEPT ![c].at = "failed"]
  /\ UNCHANGED <<connection, session, log>>

\* reset() after its await.
ResetAll == Fresh

\* What a call writes into the session after its await.
Written(op, answer) ==
  CASE op.does = "use" ->
         LET n == IF answer # None THEN answer ELSE op.value
         IN CASE n = None -> session
              [] n = Null -> [session EXCEPT !.selected = None]
              [] OTHER    -> [session EXCEPT !.selected = n]
    [] op.does = "set"        -> [session EXCEPT !.variable = op.value]
    [] op.does = "unset"      -> [session EXCEPT !.variable = None]
    [] op.does = "signin"     -> [session EXCEPT !.token = op.value]
    [] op.does = "invalidate" -> [session EXCEPT !.token = None]
    [] op.does = "reset"      -> ResetAll
    [] op.does = "query"      -> session

\* getSession() throws when there is no #state; it does not tell whose it is.
Resolve(c) ==
  /\ call[c].at \in {"local", "served"}
  /\ LET op == call[c].op IN
       IF engine = 0 /\ op.does # "query"
         THEN call' = [call EXCEPT ![c].at = "failed"] /\ UNCHANGED <<session, log>>
         ELSE /\ call' = [call EXCEPT ![c].at = "ok"]
              /\ session' = Written(op, call[c].answer)
              /\ log' = IF op.does = "query" \/ engine = 0 THEN log
                        ELSE Append(log, [op EXCEPT !.value =
                               IF call[c].answer # None THEN call[c].answer ELSE @])
  /\ UNCHANGED connection

Next ==
  \/ Connect \/ Close
  \/ \E e \in Engines : TimerFires(e) \/ Greeted(e) \/ Unreachable(e)
  \/ \E c \in Calls : Call(c) \/ Serve(c) \/ Refuse(c) \/ Resolve(c)

Spec == Init /\ [][Next]_vars

-----------------------------------------------------------------------------
(* Properties.                                                             *)

\* The value the last of some calls gave, among those of a log.
LastOf(known, gives, clears) ==
  LET at == {i \in DOMAIN known : \/ known[i].does = gives /\ (gives = "use" => known[i].value # None)
                                  \/ known[i].does \in clears}
  IN IF at = {} THEN None
     ELSE LET last == known[CHOOSE i \in at : \A j \in at : j <= i]
          IN IF last.does = gives /\ last.value # Null THEN last.value ELSE None

\* What a server that keeps the session would have after these calls.
Kept(known) ==
  [selected |-> LastOf(known, "use", {"reset"}),
   variable |-> LastOf(known, "set", {"unset", "reset"}),
   token    |-> LastOf(known, "signin", {"invalidate", "reset"})]

(* Without a session on the server, every request runs as if there was     *)
(* one: with what the calls that had resolved on this connection when it   *)
(* was made have left, and nothing of those that resolve later.            *)
RunsAsKept == \A c \in Calls : call[c].at # "none" => call[c].carries = Kept(call[c].knew)

(* "connected" means that there is an open engine, and every answer comes  *)
(* from the server whose session it changes, whatever timers of closed     *)
(* engines fire.  A request that was pending when its connection was       *)
(* closed is the only way out of this: #onConnected() and the calls do not *)
(* look whose #state they find after their await.                          *)
AnswersFindTheirConnection ==
  ~crossed =>
    /\ status = "connected" => engine \in opened
    /\ \A e \in Engines : handshake[e] \in {0, engine}
    /\ \A c \in Calls : InFlight(c) => call[c].engine = engine
=============================================================================
