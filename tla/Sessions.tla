------------------------------- MODULE Sessions -------------------------------
(***************************************************************************)
(* The sessions of a connection                                            *)
(* (packages/sdk/src/controller/index.ts): the state the client keeps of   *)
(* each, the session the server keeps of it, and the restoring of every    *)
(* session after a reconnect.                                              *)
(*                                                                         *)
(* A session is what each of its keys is set to: Selected stands for the   *)
(* namespace and database of use(), the other keys for the variables of    *)
(* set() and unset().  Requests go through the table of the WebSocket      *)
(* engine: they are sent while a socket is open, and again by ready().     *)
(***************************************************************************)
EXTENDS Integers

CONSTANTS
  Ops,            \* calls of the application
  Forks,          \* sessions that can be created
  Root,           \* the default session
  Variables,      \* names of variables
  Selected,       \* the namespace and database
  Values, None,   \* what a key can be set to, or not be set
  MaxSockets      \* bound: sockets

Sessions == Forks \cup {Root}
Keys     == Variables \cup {Selected}
Sockets  == 1..MaxSockets
Handshakes == {<<n>> : n \in Sockets}   \* who restores: #onConnected,
Clones     == {<<o>> : o \in Ops}       \* or the o-th call, a createSession()
Fresh    == [k \in Keys |-> None]

ASSUME SessionsAssumption ==
  /\ Root \notin Forks /\ Selected \notin Variables /\ None \notin Values \cup Sessions
  /\ MaxSockets \in Nat \ {0}
  /\ Ops \cap (Handshakes \cup Clones) = {} /\ Ops \cap Sockets = {}

VARIABLES
  link,           \* the socket and the status: "handshake" while sessions are restored
  socket,         \* sockets opened so far
  known,          \* #allSessions(): the sessions of #state
  client,         \* what the client keeps of each session
  attached,       \* sessions the server knows on this connection
  server,         \* what the server keeps of each
  calls,          \* requests in the table of the engine
  sent,           \* of those, on their way to the server
  answers,        \* answers on their way back, in any order
  op,             \* the promises of the application's calls
  plan,           \* what each restore has still to do
  acked,          \* history: what the settled calls made of each session
  careful         \* how this application and its network behave, see Next

vars ==
  <<link, socket, known, client, attached, server, calls, sent, answers, op, plan, acked, careful>>
serverVars == <<attached, server>>

(* A call is one request: who made it, what it does, to which session. *)
Request(who, do, s, k, v) == [by |-> who, do |-> do, session |-> s, key |-> k, value |-> v]
Plain(who, do, s) == Request(who, do, s, Selected, None)
Nothing == [sessions |-> {}, left |-> {}]

TypeOK ==
  /\ link \in {"connected", "handshake", "reconnecting", "closed"}
  /\ socket \in Sockets
  /\ known \subseteq Sessions /\ Root \in known
  /\ attached \subseteq Sessions /\ Root \in attached
  /\ \A s \in Sessions : {client[s], server[s], acked[s]} \subseteq [Keys -> Values \cup {None}]
  /\ \A c \in calls \cup sent : c.session \in Sessions /\ c.key \in Keys
  /\ op \in [Ops -> {"new", "pending", "done", "failed"}]
  /\ DOMAIN plan = Handshakes \cup Clones
  /\ careful \in BOOLEAN

Init ==
  /\ link = "connected" /\ socket = 1
  /\ known = {Root}
  /\ client = [s \in Sessions |-> Fresh]
  /\ attached = {Root}
  /\ server = [s \in Sessions |-> Fresh]
  /\ calls = {} /\ sent = {} /\ answers = {}
  /\ op = [o \in Ops |-> "new"]
  /\ plan = [r \in Handshakes \cup Clones |-> Nothing]
  /\ acked = [s \in Sessions |-> Fresh]
  /\ careful \in BOOLEAN

-----------------------------------------------------------------------------
(* Faulty variants of the definitions below.                               *)

\* ready() transmits nothing.
ReadyForgets == sent

\* The request for the version is kept until ready().
SocketOpensAndHolds ==
  /\ link = "reconnecting"
  /\ link' = "handshake" /\ socket' = socket + 1
  /\ calls' = calls \cup {Plain(<<socket'>>, "version", Root)}
  /\ UNCHANGED <<known, client, attached, server, sent, answers, op, plan, acked>>

\* destroySession() drops no session.
ForgetNone(s) == known

-----------------------------------------------------------------------------
(* The connection and the server.                                          *)

Lose ==
  /\ link \in {"connected", "handshake"} /\ socket < MaxSockets
  /\ link' = "reconnecting"
  /\ attached' = {Root} /\ server' = [s \in Sessions |-> Fresh]
  /\ sent' = {} /\ answers' = {}
  /\ UNCHANGED <<socket, known, client, calls, op, plan, acked>>

\* The engine publishes "connected", and #onConnected asks for the version.
SocketOpens ==
  /\ link = "reconnecting"
  /\ link' = "handshake" /\ socket' = socket + 1
  /\ calls' = calls \cup {Plain(<<socket'>>, "version", Root)}
  /\ sent' = sent \cup {Plain(<<socket'>>, "version", Root)}
  /\ UNCHANGED <<known, client, attached, server, answers, op, plan, acked>>

Answer(c, ok) ==
  /\ sent' = sent \ {c}
  /\ answers' = answers \cup {[call |-> c, ok |-> ok]}
  /\ UNCHANGED <<link, socket, known, client, calls, op, plan, acked>>

\* A session is attached twice only if attach was sent twice: the server may
\* refuse that.
ExecuteAttach(c) ==
  /\ c.do = "attach"
  /\ attached' = attached \cup {c.session}
  /\ UNCHANGED server
  /\ Answer(c, TRUE) \/ (c.session \in attached /\ Answer(c, FALSE))

ExecuteDetach(c) ==
  /\ c.do = "detach"
  /\ attached' = attached \ {c.session}
  /\ server' = [server EXCEPT ![c.session] = Fresh]
  /\ Answer(c, c.session \in attached)

\* Every other request is about a session the server must know.
ExecuteOther(c) ==
  /\ c.do \in {"version", "use", "set", "reset"}
  /\ server' = IF c.session \notin attached \/ c.do = "version" THEN server
               ELSE [server EXCEPT ![c.session] =
                      IF c.do = "reset" THEN Fresh ELSE [@ EXCEPT ![c.key] = c.value]]
  /\ UNCHANGED attached
  /\ Answer(c, c.session \in attached)

Execute == \E c \in sent : ExecuteAttach(c) \/ ExecuteDetach(c) \/ ExecuteOther(c)

-----------------------------------------------------------------------------
(* The calls of the application.                                           *)

Issue(o, c) ==
  /\ op[o] = "new" /\ link # "closed"
  /\ op' = [op EXCEPT ![o] = "pending"]
  /\ calls' = calls \cup {c}
  /\ sent' = IF link = "reconnecting" THEN sent ELSE sent \cup {c}
  /\ UNCHANGED <<link, socket, known, client, serverVars, answers, plan, acked>>

Use(o) ==
  \E s \in known, v \in Values \cup {None} : Issue(o, Request(o, "use", s, Selected, v))

SetOrUnset(o) ==
  \E s \in known, k \in Variables, v \in Values \cup {None} : Issue(o, Request(o, "set", s, k, v))

Reset(o) == \E s \in known : Issue(o, Plain(o, "reset", s))

\* createSession(): the value is the session to clone, or None.
CreateSession(o) ==
  \E f \in Forks \ known, from \in known \cup {None} :
    /\ \A c \in calls : c.session # f
    /\ Issue(o, Request(o, "attach", f, Selected, from))

DestroySession(o) == \E s \in known \ {Root} : Issue(o, Plain(o, "detach", s))

-----------------------------------------------------------------------------
(* Restoring.  A restore has sessions before it, and requests left for the *)
(* session it is at: the loop over the variables takes them as they are    *)
(* when it starts, the selection before it as it is then.  What is not set *)
(* is not restored.                                                        *)

Selection(s) ==
  {Request(<< >>, "use", s, Selected, v) : v \in {client'[s][Selected]} \ {None}}

Definitions(s) ==
  {Request(<< >>, "set", s, k, client'[s][k]) : k \in {x \in Variables : client'[s][x] # None}}

\* #restoreSession() is at session s, and its selection is still to come.
RestoreSteps(s) == IF Selection(s) # {} THEN Selection(s) ELSE Definitions(s)

\* ready() transmits every request of the table.
Resent == calls'

\* The restore has nothing left to do: the handshake signals ready(), and
\* createSession() returns.
Finish(r) ==
  /\ plan' = [plan EXCEPT ![r] = Nothing]
  /\ IF r \in Handshakes
       THEN /\ link' = "connected"
            /\ sent' = Resent
            /\ UNCHANGED op
       ELSE /\ op' = [op EXCEPT ![r[1]] = "done"]
            /\ UNCHANGED <<link, sent>>

\* The restore r makes its next request.  The answer to its last one, the
\* request done, is taken from the table.
Make(r, done, step, sessions, left) ==
  LET next == [step EXCEPT !.by = r] IN
  /\ plan' = [plan EXCEPT ![r] = [sessions |-> sessions, left |-> left]]
  /\ calls' = (calls \ {done}) \cup {next}
  /\ sent' = sent \cup {next}
  /\ UNCHANGED <<link, op>>

\* The restore r goes on with these steps of its session, then with these
\* sessions: each is attached before its steps.
GoOn(r, done, steps, sessions) ==
  \/ \E step \in steps :
       Make(r, done, step, sessions, IF step.do = "set" THEN steps \ {step} ELSE {})
  \/ steps = {} /\ \E s \in sessions :
       Make(r, done, Plain(<< >>, "attach", s), sessions \ {s}, {})
  \/ steps = {} /\ sessions = {} /\ calls' = calls \ {done} /\ Finish(r)

\* After use() the variables are restored, after set() those that are left.
Rest(c) == IF c.do = "use" THEN Definitions(c.session) ELSE plan[c.by].left

-----------------------------------------------------------------------------
(* The answers.                                                            *)

\* Only the first answer to a request finds it in the table.
Late ==
  \E a \in answers :
    /\ a.call \notin calls
    /\ answers' = answers \ {a}
    /\ UNCHANGED <<link, socket, known, client, serverVars, calls, sent, op, plan, acked>>

Receive(a) ==
  /\ a.call \in calls
  /\ answers' = answers \ {a}
  /\ UNCHANGED <<socket, serverVars>>

\* An error, or an answer about a session destroyed meanwhile: getSession()
\* throws, at the end of a restore if there is nothing else to restore.
Rejected(a) ==
  LET c == a.call IN
  \/ ~a.ok
  \/ c.do \in {"use", "set", "reset"} /\ c.session \notin known
  \/ /\ c.do = "attach" /\ c.by \in Handshakes
     /\ c.session \notin known /\ client[c.session] = Fresh
  \/ c.do = "attach" /\ c.by \in Ops /\ c.value \notin known \cup {None}

Settle(o, c, how) ==
  /\ op' = [op EXCEPT ![o] = how]
  /\ calls' = calls \ {c}
  /\ UNCHANGED <<link, sent, plan>>

\* A call of the application is rejected, and so is createSession() whose
\* restore fails; a handshake that fails closes the connection.
ReceiveRejection ==
  \E a \in answers :
    LET c == a.call IN
    /\ Receive(a) /\ Rejected(a)
    /\ CASE c.by \in Ops -> Settle(c.by, c, "failed")
         [] c.by \in Handshakes ->
              /\ link' = "closed" /\ calls' = calls \ {c}
              /\ UNCHANGED <<sent, op, plan>>
         [] OTHER -> Settle(c.by[1], c, "failed")
    /\ UNCHANGED <<known, client, acked>>

\* The state is written when the answer is there, whether the application
\* called use() or set(), or a restore did.
ReceiveWritten ==
  \E a \in answers :
    LET c == a.call IN
    /\ Receive(a) /\ ~Rejected(a) /\ c.do \in {"use", "set"}
    /\ client' = [client EXCEPT ![c.session][c.key] = c.value]
    /\ IF c.by \in Ops
         THEN Settle(c.by, c, "done") /\ acked' = [acked EXCEPT ![c.session][c.key] = c.value]
         ELSE GoOn(c.by, c, Rest(c), plan[c.by].sessions) /\ UNCHANGED acked
    /\ UNCHANGED known

ReceiveReset ==
  \E a \in answers :
    LET c == a.call IN
    /\ Receive(a) /\ ~Rejected(a) /\ c.do = "reset"
    /\ client' = [client EXCEPT ![c.session] = Fresh]
    /\ acked' = [acked EXCEPT ![c.session] = Fresh]
    /\ Settle(c.by, c, "done")
    /\ UNCHANGED known

\* The state a session is created with.
CloneState(from) == IF from = None THEN Fresh ELSE client[from]

\* createSession() goes on: a clone is restored as after a reconnect.
ReceiveCreated ==
  \E a \in answers :
    LET c == a.call IN
    /\ Receive(a) /\ ~Rejected(a) /\ c.do = "attach" /\ c.by \in Ops
    /\ known' = known \cup {c.session}
    /\ client' = [client EXCEPT ![c.session] = CloneState(c.value)]
    /\ acked' = [acked EXCEPT ![c.session] = CloneState(c.value)]
    /\ IF c.value = None
         THEN Settle(c.by, c, "done")
         ELSE GoOn(<<c.by>>, c, RestoreSteps(c.session), {})

WithoutSession(s) == known \ {s}

ReceiveDestroyed ==
  \E a \in answers :
    LET c == a.call IN
    /\ Receive(a) /\ ~Rejected(a) /\ c.do = "detach"
    /\ known' = WithoutSession(c.session)
    /\ Settle(c.by, c, "done")
    /\ UNCHANGED <<client, acked>>

\* The handshake: the sessions to restore are those of the moment when the
\* version is known; the default session comes first, and is not attached.
ReceiveHandshake ==
  \E a \in answers :
    LET c == a.call IN
    /\ Receive(a) /\ ~Rejected(a)
    /\ c.by \in Handshakes /\ c.do \in {"version", "attach"}
    /\ UNCHANGED <<known, client, acked>>
    /\ GoOn(c.by, c, RestoreSteps(c.session),
            IF c.do = "version" THEN known \ {Root} ELSE plan[c.by].sessions)

Apply == ReceiveWritten \/ ReceiveReset \/ ReceiveCreated \/ ReceiveDestroyed \/ ReceiveHandshake
User  == \E o \in Ops : Use(o) \/ SetOrUnset(o) \/ Reset(o) \/ CreateSession(o) \/ DestroySession(o)

\* Of a careful application each call settles before the next, and each is made
\* while connected; its network loses no socket before the handshake is done.
CarefulCall == link = "connected" /\ \A o \in Ops : op[o] # "pending"
CarefulLoss == link = "connected"

Next ==
  /\ UNCHANGED careful
  /\ \/ SocketOpens \/ Execute \/ Late \/ ReceiveRejection \/ Apply
     \/ (careful => CarefulLoss) /\ Lose
     \/ (careful => CarefulCall) /\ User

Spec == Init /\ [][Next]_vars

\* A socket is opened again, and while one is open every request is answered
\* and every answer arrives.  (Of the steps, those are the ones that take one
\* request from sent, or one answer; TLC evaluates it faster in this form.)
Executes == link' = link /\ \E c \in sent : sent' = sent \ {c}
Arrives  == link' \in {"connected", "handshake", "closed"} /\ \E a \in answers : answers' = answers \ {a}

Fairness ==
  WF_link(SocketOpens) /\ WF_<<link, sent>>(Executes) /\ WF_<<link, answers>>(Arrives)
FairSpec == Spec /\ Fairness

-----------------------------------------------------------------------------
(* Properties.                                                             *)

Writes(c, s, k) ==
  /\ c.session = s
  /\ c.do \in {"use", "set"} /\ c.by \in Ops => c.key = k

(* session.ts:116: when the "connection reconnects, the session will be    *)
(* automatically restored."  While connected, a key that no pending call   *)
(* is about to write has one value: what the last settled call made of it, *)
(* what the client keeps, and what the server has.                         *)
Restored ==
  link = "connected" =>
    \A s \in known, k \in Keys : (\A c \in calls : ~Writes(c, s, k)) =>
      server[s][k] = client[s][k] /\ client[s][k] = acked[s][k]

(* The server has the sessions the client has, no more and no fewer:       *)
(* nothing leaks, whichever of createSession(), destroySession() and the   *)
(* handshake a lost socket cuts in two.                                    *)
SameSessions == link = "connected" /\ calls = {} => attached = known

(* No session makes the handshake fail, which would close the connection   *)
(* for all of them: each is attached before it is restored, and none is    *)
(* destroyed in between.                                                   *)
HandshakeSurvives == link # "closed"

(* With a careful application and a careful network, whatever it does with *)
(* its sessions and however often the connection is lost, even in the      *)
(* middle of a call, what the client keeps of every session and what the   *)
(* server has are the same while connected; the server has the client's    *)
(* sessions, and no handshake fails.                                       *)
CarefulRestored == careful => Restored /\ SameSessions /\ HandshakeSurvives

(* Every call settles and every handshake ends, whatever is in flight when *)
(* a socket is lost, unless a handshake that fails closes the connection.  *)
CallsSettle == \A o \in Ops : op[o] = "pending" ~> op[o] # "pending" \/ link = "closed"
HandshakeEnds == link = "handshake" ~> link \in {"connected", "closed"}

(* session.ts:118: "You can invoke `reset()` on the created session to     *)
(* destroy it, after which it cannot be used again."                       *)
ResetDestroys ==
  [][\A a \in answers : a.call.do = "reset" /\ a.call.session # Root
       /\ a.ok /\ a.call \in calls /\ a \notin answers' => a.call.session \notin known']_vars
=============================================================================
