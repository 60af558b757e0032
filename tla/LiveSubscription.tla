--------------------------- MODULE LiveSubscription ---------------------------
(***************************************************************************)
(* Live subscriptions (packages/sdk/src/utils/live.ts) over the events of  *)
(* the connection and the live messages of the engine.                     *)
(*                                                                         *)
(* A managed subscription asks for a new live query at every "connected";  *)
(* the n-th time is listen n, and n stands for the id the server gives it. *)
(* An unmanaged one follows a live query that exists, number 1.  Changes   *)
(* of the data are numbered; every live query notifies of each of them.    *)
(* A consumer is one call of subscribe(): its handler runs, and its loop   *)
(* asks for the next message, in the task that delivers the message.       *)
(***************************************************************************)
EXTENDS Naturals, Sequences, FiniteSets, SequencesExt

CONSTANTS
  Consumers,      \* calls of subscribe()
  Kinds,          \* subset of {"managed", "unmanaged"}
  MaxListens,     \* bound: "connected" events
  MaxChanges      \* bound: changes of the data

Listens == 1..MaxListens
Changes == 1..MaxChanges
None    == 0

LiveSelect(n) == <<"live", n>>
KillQuery(n)  == <<"kill", n>>
Calls == {LiveSelect(n) : n \in Listens} \cup {KillQuery(n) : n \in Listens}

VARIABLES
  kind,           \* ManagedLiveSubscription or UnmanagedLiveSubscription
  link,           \* status of the controller
  connects,       \* "connected" events so far
  listen,         \* what each #listen() is at
  currentId,      \* #currentId
  killed,         \* #killed
  kill,           \* the promise kill() returned
  calls,          \* requests without an answer, in the table of the engine
  sent,           \* of those, on their way to the server
  live,           \* live queries the server runs for this connection
  wire,           \* messages from the server, in order
  consumer,       \* what each subscribe() is at
  got,            \* the messages each handler was called with
  since,          \* changes made before the consumer subscribed
  changes,        \* changes made so far
  missed,         \* history: changes nobody was notified of, or the connection lost
  overlapped      \* history: a connection was lost while a LIVE SELECT was pending

vars == <<kind, link, connects, listen, currentId, killed, kill, calls, sent,
          live, wire, consumer, got, since, changes, missed, overlapped>>
clientVars == <<listen, currentId, killed, kill, calls>>
serverVars == <<sent, live, wire>>
consumerVars == <<consumer, got, since>>
changeVars == <<changes, missed>>
linkVars == <<kind, link, connects, overlapped>>

Message == [type : {"id", "refused", "killed", "unknown"}, id : Listens, change : {None}]
             \cup [type : {"notification"}, id : Listens, change : Changes]

TypeOK ==
  /\ kind \in Kinds
  /\ link \in {"connected", "reconnecting", "disconnected"}
  /\ connects \in Listens
  /\ listen \in [Listens -> {"none", "asking", "streaming", "failed", "ended"}]
  /\ currentId \in Listens \cup {None}
  /\ killed \in BOOLEAN
  /\ kill \in {"no", "asking", "done", "failed"}
  /\ calls \subseteq Calls /\ sent \subseteq calls
  /\ live \subseteq Listens
  /\ wire \in Seq(Message)
  /\ consumer \in [Consumers -> {"none", "waiting", "unsubscribed", "done"}]
  /\ got \in [Consumers -> Seq(Changes)]
  /\ since \in [Consumers -> 0..MaxChanges]
  /\ changes \in 0..MaxChanges
  /\ missed \subseteq Changes
  /\ overlapped \in BOOLEAN

\* The constructor, which runs once ready() has resolved: the controller is
\* connected, and a managed subscription calls #listen() at once.
Init ==
  /\ kind \in Kinds
  /\ link = "connected" /\ connects = 1
  /\ LET managed == kind = "managed" IN
       /\ listen = [n \in Listens |->
            IF n > 1 THEN "none" ELSE IF managed THEN "asking" ELSE "streaming"]
       /\ currentId = IF managed THEN None ELSE 1
       /\ calls = IF managed THEN {LiveSelect(1)} ELSE {}
       /\ live = IF managed THEN {} ELSE {1}
  /\ sent = calls
  /\ killed = FALSE /\ kill = "no"
  /\ wire = << >>
  /\ consumer = [k \in Consumers |-> "none"]
  /\ got = [k \in Consumers |-> << >>]
  /\ since = [k \in Consumers |-> 0]
  /\ changes = 0 /\ missed = {}
  /\ overlapped = FALSE

-----------------------------------------------------------------------------
(* Faulty variants of the definitions below.                               *)

\* kill() leaves the listener of "connected" in place.
ListensRegardless == kind = "managed"

\* The message goes to the first channel only.
FirstChannelOnly == {k \in Consumers : consumer[k] = "waiting" /\
  \A j \in Consumers : consumer[j] = "waiting" => since[k] <= since[j]}

\* Every stream receives the messages of every live query.
AllStreams(id) == {n \in Listens : listen[n] = "streaming"}

\* What was on its way to the server is not lost with the socket.
LoseAnswersOnly ==
  /\ live' = {} /\ wire' = << >>
  /\ missed' = missed \cup {m.change : m \in {w \in Range(wire) : w.type = "notification"}}
  /\ UNCHANGED <<sent, changes>>

\* A subscription that has a stream does not open another.
OpensFirstStreamOnly(n) ==
  IF \E m \in Listens : listen[m] = "streaming" THEN "ended" ELSE "streaming"

-----------------------------------------------------------------------------
(* The connection.                                                         *)

\* What was on its way to the client is lost with the socket.
LoseSocket ==
  /\ sent' = {} /\ live' = {} /\ wire' = << >>
  /\ missed' = missed \cup {m.change : m \in {w \in Range(wire) : w.type = "notification"}}
  /\ UNCHANGED changes

Lose ==
  /\ link = "connected"
  /\ overlapped' = (overlapped \/ \E n \in Listens : LiveSelect(n) \in calls)
  /\ link' = "reconnecting"
  /\ LoseSocket
  /\ UNCHANGED <<kind, connects, clientVars, consumerVars>>

\* kill() has unsubscribed from "connected".
ListensAgain == kind = "managed" /\ ~killed

\* The handshake is done: ready() transmits what is pending, and "connected"
\* makes a managed subscription listen again.
Connected ==
  /\ link # "connected"
  /\ connects < MaxListens
  /\ link' = "connected" /\ connects' = connects + 1
  /\ IF ListensAgain
       THEN /\ listen' = [listen EXCEPT ![connects'] = "asking"]
            /\ calls' = calls \cup {LiveSelect(connects')}
       ELSE UNCHANGED <<listen, calls>>
  /\ sent' = calls'
  /\ UNCHANGED <<kind, currentId, killed, kill, live, wire, overlapped, consumerVars,
                 changeVars>>

\* The engine publishes "disconnected": liveQuery() cancels every stream, and
\* an unmanaged subscription then cancels its channels.
StreamsEnd(asking) ==
  /\ link' = "disconnected"
  /\ listen' = [n \in Listens |-> CASE listen[n] = "streaming" -> "ended"
                                    [] listen[n] = "asking" -> asking
                                    [] OTHER -> listen[n]]
  /\ calls' = {}
  /\ consumer' = [k \in Consumers |->
       IF kind = "unmanaged" /\ consumer[k] # "none" THEN "done" ELSE consumer[k]]
  /\ LoseSocket
  /\ UNCHANGED <<kind, connects, overlapped, currentId, killed, got, since>>

\* The engine gives up, and rejects the pending calls.
GiveUp ==
  /\ link # "disconnected"
  /\ StreamsEnd("failed")
  /\ kill' = IF kill = "asking" THEN "failed" ELSE kill

\* The application calls close(), and pending calls stay pending.
Close ==
  /\ link # "disconnected"
  /\ StreamsEnd("asking")
  /\ UNCHANGED kill

-----------------------------------------------------------------------------
(* The server.                                                             *)

Answer(type, id) == wire' = Append(wire, [type |-> type, id |-> id, change |-> None])

ExecuteLive(n) ==
  /\ LiveSelect(n) \in sent
  /\ sent' = sent \ {LiveSelect(n)}
  /\ \/ live' = live \cup {n} /\ Answer("id", n)
     \/ Answer("refused", n) /\ UNCHANGED live
  /\ UNCHANGED <<linkVars, clientVars, consumerVars, changeVars>>

ExecuteKill(n) ==
  /\ KillQuery(n) \in sent
  /\ sent' = sent \ {KillQuery(n)}
  /\ live' = live \ {n}
  /\ Answer(IF n \in live THEN "killed" ELSE "unknown", n)
  /\ UNCHANGED <<linkVars, clientVars, consumerVars, changeVars>>

Change ==
  /\ changes < MaxChanges
  /\ changes' = changes + 1
  /\ wire' = wire \o SetToSeq({[type |-> "notification", id |-> n, change |-> changes'] : n \in live})
  /\ missed' = IF live = {} THEN missed \cup {changes'} ELSE missed
  /\ UNCHANGED <<linkVars, clientVars, sent, live, consumerVars>>

-----------------------------------------------------------------------------
(* The messages.                                                           *)

Receive(types) ==
  /\ wire # << >> /\ Head(wire).type \in types
  /\ wire' = Tail(wire)
  /\ UNCHANGED <<linkVars, killed, sent, live, since, changeVars>>

OpenStream(n) == "streaming"

\* #listen() goes on: it takes the id and opens the stream of its messages.
ReceiveId ==
  /\ Receive({"id"})
  /\ LET n == Head(wire).id IN
       /\ listen' = [listen EXCEPT ![n] = OpenStream(n)]
       /\ currentId' = n
       /\ calls' = calls \ {LiveSelect(n)}
  /\ UNCHANGED <<kill, consumer, got>>

\* #listen() fails, and the controller publishes an "error".
ReceiveRefusal ==
  /\ Receive({"refused"})
  /\ LET n == Head(wire).id IN
       /\ listen' = [listen EXCEPT ![n] = "failed"]
       /\ calls' = calls \ {LiveSelect(n)}
  /\ UNCHANGED <<currentId, kill, consumer, got>>

ReceiveKilled ==
  /\ Receive({"killed", "unknown"})
  /\ kill' = IF Head(wire).type = "killed" THEN "done" ELSE "failed"
  /\ calls' = calls \ {KillQuery(Head(wire).id)}
  /\ UNCHANGED <<listen, currentId, consumer, got>>

\* The streams liveQuery() subscribed to the messages of a live query.
StreamsOf(id) == {n \in Listens : n = id /\ listen[n] = "streaming"}

\* The channels a message is submitted to, of those whose handler is called.
Audience == {k \in Consumers : consumer[k] = "waiting"}

\* A handler that throws ends its loop, and so does a message for a consumer
\* that has unsubscribed.
ReceiveNotification ==
  /\ Receive({"notification"})
  /\ LET streams == StreamsOf(Head(wire).id)
         copies  == [s \in 1..Cardinality(streams) |-> Head(wire).change]
     IN IF streams = {}
          THEN UNCHANGED <<consumer, got>>
          ELSE \E throwing \in SUBSET Audience :
                 /\ got' = [k \in Consumers |->
                      IF k \in Audience THEN got[k] \o copies ELSE got[k]]
                 /\ consumer' = [k \in Consumers |->
                      IF k \in throwing \/ consumer[k] = "unsubscribed" THEN "done" ELSE consumer[k]]
  /\ UNCHANGED <<listen, currentId, kill, calls>>

-----------------------------------------------------------------------------
(* The application.                                                        *)

Subscribe(k) ==
  /\ consumer[k] = "none" /\ ~killed
  /\ consumer' = [consumer EXCEPT ![k] = "waiting"]
  /\ since' = [since EXCEPT ![k] = changes]
  /\ UNCHANGED <<linkVars, clientVars, serverVars, got, changeVars>>

Unsubscribe(k) ==
  /\ consumer[k] = "waiting"
  /\ consumer' = [consumer EXCEPT ![k] = "unsubscribed"]
  /\ UNCHANGED <<linkVars, clientVars, serverVars, got, since, changeVars>>

CancelChannels ==
  [k \in Consumers |-> IF consumer[k] = "none" THEN "none" ELSE "done"]

\* A subscription that has no id yet sends no KILL.
Kill ==
  /\ kill = "no"
  /\ killed' = TRUE
  /\ consumer' = CancelChannels
  /\ IF currentId # None /\ link # "disconnected"
       THEN /\ kill' = "asking"
            /\ calls' = calls \cup {KillQuery(currentId)}
            /\ sent' = IF link = "connected" THEN sent \cup {KillQuery(currentId)} ELSE sent
       ELSE /\ kill' = IF currentId = None THEN "done" ELSE "failed"
            /\ UNCHANGED <<calls, sent>>
  /\ UNCHANGED <<linkVars, listen, currentId, live, wire, got, since, changeVars>>

Server  == Change \/ \E n \in Listens : ExecuteLive(n) \/ ExecuteKill(n)
Arrive  == ReceiveId \/ ReceiveRefusal \/ ReceiveKilled \/ ReceiveNotification
User    == Kill \/ Close \/ \E k \in Consumers : Subscribe(k) \/ Unsubscribe(k)

Next == Lose \/ Connected \/ GiveUp \/ Server \/ Arrive \/ User

Spec == Init /\ [][Next]_vars

\* While the connection lasts, the server answers and its messages arrive.
Fairness == WF_vars(Arrive) /\ \A n \in Listens : WF_vars(ExecuteLive(n))
FairSpec == Spec /\ Fairness

-----------------------------------------------------------------------------
(* Properties.                                                             *)

(* "A managed live subscription that is automatically restarted when the   *)
(* connection" is established again (live.ts:74) calls a handler once for  *)
(* every change, and in their order.                                       *)
NoDuplicates ==
  \A k \in Consumers : \A i, j \in DOMAIN got[k] : i < j => got[k][i] < got[k][j]

(* It does over any number of restarts, if no connection is lost while a   *)
(* LIVE SELECT is pending: ready() sends that again on the next one, where *)
(* "connected" makes the subscription send another.                        *)
OncePerMessage == ~overlapped => NoDuplicates

(* No message falls between two streams or between two consumers: when     *)
(* nothing is on its way, whoever waits has got every change made since it *)
(* subscribed, but for those no live query was there to report and those   *)
(* that were on a connection when it was lost.  A handler that throws      *)
(* takes nothing away from the others.                                     *)
UpToDate ==
  wire = << >> =>
    \A k \in Consumers : consumer[k] = "waiting" =>
      (since[k] + 1)..changes \subseteq Range(got[k]) \cup missed

(* kill() is final: no handler is called after it, whatever is on its way, *)
(* and the subscription does not ask for another live query when the       *)
(* connection is established again.                                        *)
NothingAfterKill ==
  [][killed => /\ got' = got
               /\ \A n \in Listens : listen[n] = "none" => listen'[n] = "none"]_vars

(* A managed subscription that is connected for good and not killed ends   *)
(* up with a stream of a live query the server runs, unless the server     *)
(* refused it.                                                             *)
StaysListening ==
  <>[](kind = "managed" /\ link = "connected" /\ ~killed) =>
    <>[](listen[connects] = "failed" \/
         (listen[connects] = "streaming" /\ connects \in live))

(* live.ts:42, of kill(): "Kill the live subscription and stop receiving   *)
(* updates".  When kill() has resolved, the server runs no live query of   *)
(* this subscription.  It does if kill() is called before the id is known. *)
KillStopsServer == kill = "done" => live = {}

(* live.ts:36, of isAlive: "Although the connection may be disconnected,   *)
(* the LiveQuery may still be alive if it is managed by the driver."  One  *)
(* that is not managed is alive only while its stream is.                  *)
AliveIsListening ==
  kind = "unmanaged" /\ ~killed => listen[1] = "streaming"
=============================================================================
