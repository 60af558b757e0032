--------------------------- MODULE SessionsProofs ---------------------------
(***************************************************************************)
(* Proofs about the sessions of a connection, for any number of sessions,  *)
(* variables, values, calls and sockets: with a careful application the    *)
(* client and the server agree on every session while connected, however   *)
(* often the connection is lost, even in the middle of a call.             *)
(***************************************************************************)
EXTENDS Sessions, TLAPS

-----------------------------------------------------------------------------
(* The inductive invariant.                                                *)

State == [Keys -> Values \cup {None}]
Who   == Ops \cup Handshakes \cup Clones
Kinds == {"version", "attach", "detach", "use", "set", "reset"}

AnyRequest ==
  [by : Who, do : Kinds, session : Sessions, key : Keys, value : Values \cup {None} \cup Sessions]
AnyStep ==
  [by : {<< >>}, do : Kinds, session : Sessions, key : Keys,
   value : Values \cup {None} \cup Sessions]

Shapes ==
  /\ link \in {"connected", "handshake", "reconnecting"} /\ socket \in Sockets
  /\ link = "reconnecting" => socket < MaxSockets
  /\ known \subseteq Sessions /\ Root \in known
  /\ attached \subseteq Sessions /\ Root \in attached
  /\ client \in [Sessions -> State] /\ server \in [Sessions -> State] /\ acked \in [Sessions -> State]
  /\ calls \subseteq AnyRequest /\ sent \subseteq calls
  /\ op \in [Ops -> {"new", "pending", "done", "failed"}]
  /\ plan \in [Handshakes \cup Clones -> [sessions : SUBSET Sessions, left : SUBSET AnyStep]]

\* A request that has been sent on this socket.
Underway(c) == link = "connected" \/ (link = "handshake" /\ c.by \in Handshakes)

Answered(c) == \E a \in answers : a.call = c

\* At most one call of the application is in the table, and one request of the
\* handshake; what is in flight is about one of them, and no answer is a
\* rejection.
OneAtATime ==
  /\ \A c, d \in calls : (c.by \in Handshakes <=> d.by \in Handshakes) => c = d
  /\ \A c \in calls : c.by \in Handshakes => link = "handshake"
  /\ \A c \in calls : c.by \in Ops => op[c.by] = "pending"
  /\ \A c \in calls, o \in Ops : c.by = <<o>> => op[o] = "pending"
  /\ \A c \in sent : Underway(c)
  /\ \A a \in answers : /\ a = [call |-> a.call, ok |-> TRUE]
                        /\ a.call \in calls \ sent /\ Underway(a.call)

\* What is asked makes sense: the sessions are those the client knows, and a
\* restore asks for what the client keeps.
MakesSense(c) ==
  /\ c.do = "version" => c.by \in Handshakes /\ c.session = Root
  /\ c.do \in {"use", "set"} =>
       /\ c.session \in known /\ c.value \in Values \cup {None}
       /\ c.by \notin Ops => c.value = client[c.session][c.key]
  /\ c.do = "reset" => c.by \in Ops /\ c.session \in known
  /\ c.do = "detach" => c.by \in Ops /\ c.session \in known \ {Root}
  /\ c.do = "attach" =>
       IF c.by \in Ops THEN c.session \notin known /\ c.value \in known \cup {None}
                       ELSE c.by \in Handshakes /\ c.session \in known \ {Root}
  /\ c.by \notin Ops /\ c.do = "use" => c.key = Selected
  /\ c.by \notin Ops /\ c.do = "set" =>
       /\ c.key \in Variables
       /\ \A d \in plan[c.by].left :
            /\ d.key \in Variables
            /\ d = Request(<< >>, "set", c.session, d.key, client[c.session][d.key])
  /\ c.by \in Clones => plan[c.by].sessions = {}

\* The sessions that wait for the handshake.
ToCome(c) == IF c.do = "version" THEN known \ {Root} ELSE plan[c.by].sessions

Same(s, k) == server[s][k] = client[s][k]

\* The restore that asks for c has still to write the key k.
Missing(c, k) ==
  \/ c.do \in {"version", "attach"}
  \/ c.do = "use" /\ (k \in Variables \/ ~Answered(c))
  \/ c.do = "set" /\ ((k = c.key /\ ~Answered(c)) \/ \E d \in plan[c.by].left : d.key = k)

\* A restore has written what it has not still to write, and nothing else.
HalfRestored(c) ==
  \A k \in Keys : /\ server[c.session][k] \in {None, client[c.session][k]}
                  /\ Missing(c, k) \/ Same(c.session, k)

\* While connected, what the pending call is about is as far as the call is.
Attachments(c) ==
  CASE Answered(c) /\ c.do = "attach" -> known \cup {c.session}
    [] Answered(c) /\ c.do = "detach" -> known \ {c.session}
    [] OTHER -> known

Effects(c) ==
  /\ Answered(c) /\ c.do \in {"use", "set"} => server[c.session][c.key] = c.value
  /\ Answered(c) /\ c.do \in {"reset", "attach"} => server[c.session] = Fresh

WhileConnected ==
  link = "connected" =>
    /\ calls = {} => attached = known
    /\ \A c \in calls : attached = Attachments(c)
    /\ \A s \in known, k \in Keys : (\A c \in calls : ~Writes(c, s, k)) => Same(s, k)
    /\ \A c \in calls : IF c.by \in Ops THEN Effects(c) ELSE HalfRestored(c)

\* In a handshake the sessions are attached and restored one by one.
WhileRestoring ==
  link = "handshake" =>
    /\ attached \subseteq known
    /\ \A c \in calls : c.by \in Handshakes =>
         /\ ToCome(c) \subseteq known \ {Root}
         /\ c.do # "version" => c.session \notin ToCome(c)
         /\ \A s \in known : s \in attached <=>
              s \notin ToCome(c) /\ ~(s = c.session /\ c.do = "attach" /\ ~Answered(c))
         /\ \A s \in known \ ToCome(c) : s # c.session => \A k \in Keys : Same(s, k)
         /\ HalfRestored(c)

Kept ==
  /\ \A s \in known : client[s] = acked[s]
  /\ \A s \in Sessions \ attached : server[s] = Fresh
  /\ link = "reconnecting" =>
       attached = {Root} /\ sent = {} /\ answers = {} /\ \A s \in Sessions : server[s] = Fresh

Inv ==
  /\ Shapes /\ OneAtATime /\ (\A c \in calls : MakesSense(c))
  /\ WhileConnected /\ WhileRestoring /\ Kept

\* What a restore at session s still has to ask for: its selection, and its
\* variables after that, or what is left of the variables.
StepsFor(s, steps) ==
  /\ \A d \in steps :
       /\ d.key \in Keys /\ d = Request(<< >>, d.do, s, d.key, client[s][d.key])
       /\ (d.do = "use" /\ d.key = Selected) \/ (d.do = "set" /\ d.key \in Variables)
  /\ \A d, e \in steps : d.do = "use" => d = e
  /\ \A k \in Keys :
       /\ server[s][k] \in {None, client[s][k]}
       /\ Same(s, k) \/ \E d \in steps : d.key = k \/ (k \in Variables /\ d.do = "use")

-----------------------------------------------------------------------------

\* The sets the model is made of, told apart.
LEMMA Parts ==
  /\ \A o \in Ops : o \notin Handshakes /\ o \notin Clones /\ <<o>> \in Clones
  /\ \A r \in Handshakes : r \notin Clones /\ r \notin Ops
  /\ \A r \in Clones : r \notin Handshakes /\ r \notin Ops /\ \E o \in Ops : r = <<o>>
  /\ \A o, p \in Ops : <<o>> = <<p>> => o = p
  /\ \A n \in Sockets : <<n>> \in Handshakes
  /\ Selected \in Keys /\ Selected \notin Variables /\ Variables \subseteq Keys
  /\ \A k \in Keys : k \notin Variables => k = Selected
  /\ Root \in Sessions /\ Forks \subseteq Sessions /\ Root \notin Forks
  /\ \A s \in Sessions : s # None
  /\ Fresh \in State /\ \A k \in Keys : Fresh[k] = None
<1>1. \A o \in Ops, n \in Sockets : <<o>> # <<n>>
  BY SessionsAssumption
<1> QED BY <1>1, SessionsAssumption DEF Handshakes, Clones, Keys, Sessions, Fresh, State

\* The fields of a request.
LEMMA Requested ==
  ASSUME NEW who, NEW do, NEW s, NEW k, NEW v
  PROVE  /\ Request(who, do, s, k, v).by = who /\ Request(who, do, s, k, v).do = do
         /\ Request(who, do, s, k, v).session = s /\ Request(who, do, s, k, v).key = k
         /\ Request(who, do, s, k, v).value = v
         /\ Plain(who, do, s) = Request(who, do, s, Selected, None)
BY DEF Request, Plain

\* A request of parts of the right type is one.
LEMMA Typed ==
  ASSUME NEW who \in Who, NEW do \in Kinds, NEW s \in Sessions, NEW k \in Keys,
         NEW v \in Values \cup {None} \cup Sessions
  PROVE  Request(who, do, s, k, v) \in AnyRequest
BY DEF Request, AnyRequest

\* The invariant holds at the start.
LEMMA InitInv == ASSUME Init PROVE Inv
<1> USE Parts
<1>1. Shapes
  BY SessionsAssumption DEF Init, Shapes, Nothing, Sockets
<1>2. /\ calls = {} /\ sent = {} /\ answers = {} /\ link = "connected"
      /\ known = {Root} /\ attached = {Root} /\ client = acked
      /\ \A s \in Sessions : server[s] = Fresh /\ client[s] = Fresh
  BY DEF Init
<1> QED BY <1>1, <1>2
    DEF Inv, OneAtATime, WhileConnected, WhileRestoring, Kept, Same

-----------------------------------------------------------------------------
(* The connection.                                                         *)

\* A careful network loses the socket while connected.
LEMMA LoseInv == ASSUME Inv, CarefulLoss, Lose PROVE Inv'
<1> USE Parts
<1>1. /\ link = "connected" /\ link' = "reconnecting" /\ socket < MaxSockets
      /\ attached' = {Root} /\ server' = [s \in Sessions |-> Fresh]
      /\ sent' = {} /\ answers' = {}
      /\ UNCHANGED <<socket, known, client, calls, op, plan, acked>>
  BY DEF Lose, CarefulLoss
<1>2. Shapes'
  BY <1>1 DEF Inv, Shapes
<1>3. OneAtATime'
  BY <1>1 DEF Inv, OneAtATime
<1>4. \A c \in calls' : MakesSense(c)'
  BY <1>1 DEF Inv, MakesSense
<1>5. Kept'
  BY <1>1 DEF Inv, Kept
<1> QED BY <1>1, <1>2, <1>3, <1>4, <1>5 DEF Inv, WhileConnected, WhileRestoring

\* A socket opens again, and the handshake asks for the version.
LEMMA SocketOpensInv == ASSUME Inv, SocketOpens PROVE Inv'
<1> USE Parts
<1>0. PICK h : h = Plain(<<socket + 1>>, "version", Root)
  OBVIOUS
<1>1. /\ link = "reconnecting" /\ link' = "handshake" /\ socket' = socket + 1
      /\ calls' = calls \cup {h} /\ sent' = sent \cup {h}
      /\ UNCHANGED <<known, client, attached, server, answers, op, plan, acked>>
  BY <1>0 DEF SocketOpens
<1>2. socket + 1 \in Sockets /\ <<socket + 1>> \in Handshakes
  BY <1>1, SessionsAssumption DEF Inv, Shapes, Sockets
<1>3. /\ h.by = <<socket + 1>> /\ h.do = "version" /\ h.session = Root /\ h \in AnyRequest
  BY <1>0, <1>2, Requested, Typed DEF Who, Kinds
<1>4. /\ attached = {Root} /\ sent = {} /\ answers = {} /\ \A s \in Sessions : server[s] = Fresh
      /\ \A c \in calls : c.by \notin Handshakes
  BY <1>1 DEF Inv, Kept, OneAtATime
<1>5. Shapes'
  BY <1>1, <1>2, <1>3 DEF Inv, Shapes
<1>6. OneAtATime'
  BY <1>1, <1>2, <1>3, <1>4 DEF Inv, OneAtATime, Underway
<1>7. \A c \in calls' : MakesSense(c)'
  <2>1. \A c \in calls : MakesSense(c)'
    BY <1>1 DEF Inv, MakesSense
  <2>2. MakesSense(h)'
    BY <1>1, <1>2, <1>3 DEF MakesSense
  <2> QED BY <1>1, <2>1, <2>2
<1>8. WhileRestoring'
  <2>1. \A c \in calls' : c.by \in Handshakes => c = h
    BY <1>1, <1>4
  <2>2. known' = known /\ Root \in known /\ known \subseteq Sessions
    BY <1>1 DEF Inv, Shapes
  <2>3. ToCome(h)' = known \ {Root}
    BY <1>1, <1>3 DEF ToCome
  <2>4. \A k \in Keys : server'[Root][k] = None
    BY <1>1, <1>4
  <2>5. HalfRestored(h)'
    BY <1>3, <2>4 DEF HalfRestored, Missing
  <2> QED BY <1>1, <1>3, <1>4, <2>1, <2>2, <2>3, <2>5 DEF WhileRestoring
<1>9. Kept'
  BY <1>1 DEF Inv, Kept
<1> QED BY <1>1, <1>5, <1>6, <1>7, <1>8, <1>9 DEF Inv, WhileConnected

-----------------------------------------------------------------------------
(* The server.                                                             *)

\* What all answers of the server have in common.
LEMMA AnswerInv ==
  ASSUME Inv, NEW c \in sent, Answer(c, TRUE), attached' \subseteq Sessions, Root \in attached',
         server' \in [Sessions -> State],
         \A s \in Sessions \ attached' : server'[s] = Fresh
  PROVE  /\ c \in calls /\ Underway(c) /\ ~Answered(c) /\ Answered(c)' /\ MakesSense(c)
         /\ UNCHANGED <<link, socket, known, client, calls, op, plan, acked>>
         /\ \A d \in calls : d # c => (Answered(d)' <=> Answered(d))
         /\ Shapes' /\ OneAtATime' /\ (\A d \in calls' : MakesSense(d)') /\ Kept'
<1> DEFINE b == [call |-> c, ok |-> TRUE]
<1>1. /\ sent' = sent \ {c} /\ answers' = answers \cup {b}
      /\ UNCHANGED <<link, socket, known, client, calls, op, plan, acked>>
  BY DEF Answer
<1>2. b.call = c /\ b.ok = TRUE /\ b = [call |-> b.call, ok |-> TRUE]
  OBVIOUS
<1> HIDE DEF b
<1>3. c \in calls /\ Underway(c) /\ ~Answered(c) /\ MakesSense(c)
  BY DEF Inv, Shapes, OneAtATime, Answered
<1>4. Answered(c)' /\ \A d \in calls : d # c => (Answered(d)' <=> Answered(d))
  BY <1>1, <1>2 DEF Answered
<1>5. Shapes'
  BY <1>1 DEF Inv, Shapes
<1>6. OneAtATime'
  <2>1. \A a \in answers' : a = [call |-> a.call, ok |-> TRUE] /\ a.call \in calls \ (sent \ {c})
                            /\ Underway(a.call)
    BY <1>1, <1>2, <1>3 DEF Inv, OneAtATime
  <2>2. \A d \in calls : Underway(d)' <=> Underway(d)
    BY <1>1 DEF Underway
  <2>3. \A a \in answers' : a.call \in calls
    BY <2>1
  <2> QED BY <1>1, <2>1, <2>2, <2>3 DEF Inv, OneAtATime, Shapes
<1>7. \A d \in calls' : MakesSense(d)'
  BY <1>1 DEF Inv, MakesSense
<1>8. Kept'
  <2>1. link # "reconnecting"
    BY <1>3 DEF Underway
  <2> QED BY <1>1, <2>1 DEF Inv, Kept
<1> QED BY <1>1, <1>3, <1>4, <1>5, <1>6, <1>7, <1>8

\* While connected there is no other call in the table, in a handshake no
\* other request of a handshake.
LEMMA Alone ==
  ASSUME Inv, NEW c \in calls, Underway(c)
  PROVE  /\ link \in {"connected", "handshake"}
         /\ link = "connected" => calls = {c} /\ c.by \in Ops \cup Clones
         /\ link = "handshake" => /\ c.by \in Handshakes
                                  /\ \A d \in calls : d.by \in Handshakes => d = c
         /\ c.by \in Who
<1>1. c.by \in Who /\ link \in {"connected", "handshake"}
  BY DEF Inv, Shapes, AnyRequest, Underway
<1>2. ASSUME link = "connected"
      PROVE  calls = {c} /\ c.by \in Ops \cup Clones
  <2>1. \A d \in calls : d.by \notin Handshakes
    BY <1>2 DEF Inv, OneAtATime
  <2>2. \A d \in calls : d = c
    BY <2>1 DEF Inv, OneAtATime
  <2> QED BY <1>1, <2>1, <2>2 DEF Who
<1>3. ASSUME link = "handshake"
      PROVE  /\ c.by \in Handshakes
             /\ \A d \in calls : d.by \in Handshakes => d = c
  BY <1>3 DEF Inv, OneAtATime, Underway
<1> QED BY <1>1, <1>2, <1>3

\* The server attaches a session, which it did not know.
LEMMA AttachInv == ASSUME Inv, NEW c \in sent, ExecuteAttach(c) PROVE Inv'
<1> USE Parts
<1>1. /\ c.do = "attach" /\ attached' = attached \cup {c.session} /\ UNCHANGED server
      /\ c \in calls /\ c.session \in Sessions
      /\ Answer(c, TRUE) \/ (c.session \in attached /\ Answer(c, FALSE))
  <2>1. c \in calls /\ c \in AnyRequest
    BY DEF Inv, Shapes
  <2> QED BY <2>1 DEF ExecuteAttach, AnyRequest
<1>2. Underway(c) /\ ~Answered(c) /\ MakesSense(c)
  BY <1>1 DEF Inv, OneAtATime, Answered
<1>3. c.session \notin attached
  <2>1. CASE link = "connected"
    <3>1. c.by \in Ops
      BY <1>1, <1>2, <2>1, Alone DEF MakesSense
    <3>2. attached = known
      BY <1>1, <1>2, <2>1 DEF Inv, WhileConnected, Attachments
    <3> QED BY <1>1, <1>2, <3>1, <3>2 DEF MakesSense
  <2>2. CASE link = "handshake"
    <3>1. c.by \in Handshakes
      BY <1>1, <1>2, <2>2, Alone
    <3> QED BY <1>1, <1>2, <2>2, <3>1 DEF Inv, WhileRestoring, MakesSense
  <2> QED BY <1>1, <1>2, <2>1, <2>2, Alone
<1>4. Answer(c, TRUE)
  BY <1>1, <1>3
<1>5. /\ attached' \subseteq Sessions /\ Root \in attached' /\ server' \in [Sessions -> State]
      /\ \A s \in Sessions \ attached' : server'[s] = Fresh
  BY <1>1 DEF Inv, Shapes, Kept
<1>6. /\ Answered(c)' /\ UNCHANGED <<link, socket, known, client, calls, op, plan, acked>>
      /\ \A d \in calls : d # c => (Answered(d)' <=> Answered(d))
      /\ Shapes' /\ OneAtATime' /\ (\A d \in calls' : MakesSense(d)') /\ Kept'
  BY <1>4, <1>5, AnswerInv
<1>7. WhileConnected'
  <2>1. SUFFICES ASSUME link = "connected" PROVE WhileConnected'
    BY <1>6 DEF WhileConnected
  <2>2. calls = {c} /\ c.by \in Ops
    BY <1>1, <1>2, <2>1, Alone DEF MakesSense
  <2>3. attached = known
    BY <1>2, <2>1, <2>2 DEF Inv, WhileConnected, Attachments
  <2>4. Attachments(c)' = known \cup {c.session}
    BY <1>1, <1>6 DEF Attachments
  <2>5. Effects(c)'
    BY <1>1, <1>3 DEF Effects, Inv, Kept
  <2>6. \A s \in known', k \in Keys : (\A d \in calls' : ~Writes(d, s, k)) => Same(s, k)'
    BY <1>1, <1>6, <2>1 DEF Inv, WhileConnected, Same
  <2> QED BY <1>1, <1>6, <2>2, <2>3, <2>4, <2>5, <2>6 DEF WhileConnected
<1>8. WhileRestoring'
  <2>1. SUFFICES ASSUME link = "handshake" PROVE WhileRestoring'
    BY <1>6 DEF WhileRestoring
  <2>2. c.by \in Handshakes /\ \A d \in calls : d.by \in Handshakes => d = c
    BY <1>1, <1>2, <2>1, Alone
  <2>3. c.session \in known
    BY <1>1, <1>2, <2>2 DEF MakesSense
  <2>4. ToCome(c)' = ToCome(c)
    BY <1>6 DEF ToCome
  <2>5. HalfRestored(c)'
    BY <1>1, <1>6, <2>1, <2>2 DEF HalfRestored, Missing, Inv, WhileRestoring
  <2>6. \A s \in known, k \in Keys : Same(s, k)' <=> Same(s, k)
    BY <1>1, <1>6 DEF Same
  <2>7. /\ attached' \subseteq known' /\ ToCome(c)' \subseteq known' \ {Root}
        /\ c.session \notin ToCome(c)'
        /\ \A s \in known' : s \in attached' <=>
             s \notin ToCome(c)' /\ ~(s = c.session /\ c.do = "attach" /\ ~Answered(c)')
    BY <1>1, <1>2, <1>6, <2>1, <2>2, <2>3, <2>4 DEF Inv, WhileRestoring
  <2>8. \A s \in known' \ ToCome(c)' : s # c.session => \A k \in Keys : Same(s, k)'
    <3>1. \A s \in known \ ToCome(c) : s # c.session => \A k \in Keys : Same(s, k)
      BY <1>1, <2>1, <2>2 DEF Inv, WhileRestoring
    <3> QED BY <1>6, <2>4, <2>6, <3>1
  <2> QED BY <1>6, <2>2, <2>5, <2>7, <2>8 DEF WhileRestoring
<1> QED BY <1>6, <1>7, <1>8 DEF Inv

\* The server detaches a session, which it knew.
LEMMA DetachInv == ASSUME Inv, NEW c \in sent, ExecuteDetach(c) PROVE Inv'
<1> USE Parts
<1>1. /\ c.do = "detach" /\ attached' = attached \ {c.session}
      /\ server' = [server EXCEPT ![c.session] = Fresh]
      /\ Answer(c, c.session \in attached) /\ c \in calls /\ c.session \in Sessions
  <2>1. c \in calls /\ c \in AnyRequest
    BY DEF Inv, Shapes
  <2> QED BY <2>1 DEF ExecuteDetach, AnyRequest
<1>2. Underway(c) /\ ~Answered(c) /\ MakesSense(c)
  BY <1>1 DEF Inv, OneAtATime, Answered
<1>3. c.by \in Ops /\ c.session \in known \ {Root}
  BY <1>1, <1>2 DEF MakesSense
<1>4. link = "connected" /\ calls = {c}
  BY <1>1, <1>2, <1>3, Alone
<1>5. attached = known
  BY <1>2, <1>4 DEF Inv, WhileConnected, Attachments
<1>6. (c.session \in attached) = TRUE
  BY <1>3, <1>5
<1>7. Answer(c, TRUE)
  BY <1>1, <1>6
<1>8. /\ attached' \subseteq Sessions /\ Root \in attached' /\ server' \in [Sessions -> State]
      /\ server'[c.session] = Fresh /\ \A s \in Sessions : s # c.session => server'[s] = server[s]
  BY <1>1, <1>3 DEF Inv, Shapes
<1>9. \A s \in Sessions \ attached' : server'[s] = Fresh
  BY <1>1, <1>8 DEF Inv, Kept
<1>10. /\ Answered(c)' /\ UNCHANGED <<link, socket, known, client, calls, op, plan, acked>>
       /\ Shapes' /\ OneAtATime' /\ (\A d \in calls' : MakesSense(d)') /\ Kept'
  BY <1>7, <1>8, <1>9, AnswerInv
<1>11. WhileConnected'
  <2>1. Attachments(c)' = known \ {c.session}
    BY <1>1, <1>10 DEF Attachments
  <2>2. Effects(c)'
    BY <1>1 DEF Effects
  <2>3. ASSUME NEW s \in known, NEW k \in Keys, ~Writes(c, s, k)
        PROVE  Same(s, k)'
    <3>1. s # c.session
      BY <1>1, <2>3 DEF Writes
    <3>2. Same(s, k)
      BY <1>4, <2>3 DEF Inv, WhileConnected
    <3> QED BY <1>8, <1>10, <3>1, <3>2 DEF Same, Inv, Shapes
  <2> QED BY <1>1, <1>3, <1>4, <1>5, <1>10, <2>1, <2>2, <2>3 DEF WhileConnected
<1> QED BY <1>4, <1>10, <1>11 DEF Inv, WhileRestoring

\* The server answers a version, or writes a session it knows.
LEMMA OtherInv == ASSUME Inv, NEW c \in sent, ExecuteOther(c) PROVE Inv'
<1> USE Parts
<1>1. /\ c.do \in {"version", "use", "set", "reset"} /\ UNCHANGED attached
      /\ server' = IF c.session \notin attached \/ c.do = "version" THEN server
                   ELSE [server EXCEPT ![c.session] =
                          IF c.do = "reset" THEN Fresh ELSE [@ EXCEPT ![c.key] = c.value]]
      /\ Answer(c, c.session \in attached)
      /\ c \in calls /\ c.session \in Sessions /\ c.key \in Keys
  <2>1. c \in calls /\ c \in AnyRequest
    BY DEF Inv, Shapes
  <2> QED BY <2>1 DEF ExecuteOther, AnyRequest
<1>2. Underway(c) /\ ~Answered(c) /\ MakesSense(c)
  BY <1>1 DEF Inv, OneAtATime, Answered
<1>3. c.session \in attached /\ c.session \in known
  <2>0. c.session \in known
    BY <1>1, <1>2 DEF MakesSense, Inv, Shapes
  <2>1. CASE link = "connected"
    BY <1>1, <1>2, <2>0, <2>1 DEF Inv, WhileConnected, Attachments
  <2>2. CASE link = "handshake" /\ c.do = "version"
    BY <1>2, <2>0, <2>2 DEF MakesSense, Inv, Shapes
  <2>3. CASE link = "handshake" /\ c.do # "version"
    <3>1. c.by \in Handshakes /\ c.do # "attach"
      BY <1>1, <1>2, <2>3, Alone
    <3> QED BY <1>1, <2>0, <2>3, <3>1 DEF Inv, WhileRestoring
  <2> QED BY <1>1, <1>2, <2>0, <2>1, <2>2, <2>3, Alone
<1>4. Answer(c, TRUE)
  BY <1>1, <1>3
<1>5. c.do \in {"use", "set"} => c.value \in Values \cup {None}
  BY <1>2 DEF MakesSense
<1>6. /\ c.do = "version" => UNCHANGED server
      /\ c.do = "reset" => server'[c.session] = Fresh
      /\ c.do \in {"use", "set"} =>
           /\ server'[c.session][c.key] = c.value
           /\ \A k \in Keys : k # c.key => server'[c.session][k] = server[c.session][k]
      /\ \A s \in Sessions : s # c.session => server'[s] = server[s]
  BY <1>1, <1>3 DEF Inv, Shapes, State
<1>7. server' \in [Sessions -> State]
  <2>1. CASE c.do = "version"
    BY <1>6, <2>1 DEF Inv, Shapes
  <2>2. CASE c.do = "reset"
    BY <1>1, <1>3, <2>2 DEF Inv, Shapes
  <2>3. CASE c.do \in {"use", "set"}
    <3>1. server' = [server EXCEPT ![c.session] = [server[c.session] EXCEPT ![c.key] = c.value]]
      BY <1>1, <1>3, <2>3
    <3>2. [server[c.session] EXCEPT ![c.key] = c.value] \in State
      BY <1>1, <1>5, <2>3 DEF Inv, Shapes, State
    <3> QED BY <3>1, <3>2 DEF Inv, Shapes
  <2> QED BY <1>1, <2>1, <2>2, <2>3
<1>8. /\ attached' \subseteq Sessions /\ Root \in attached'
      /\ \A s \in Sessions \ attached' : server'[s] = Fresh
  BY <1>1, <1>3, <1>6 DEF Inv, Shapes, Kept
<1>9. /\ Answered(c)' /\ UNCHANGED <<link, socket, known, client, calls, op, plan, acked>>
      /\ \A d \in calls : d # c => (Answered(d)' <=> Answered(d))
      /\ Shapes' /\ OneAtATime' /\ (\A d \in calls' : MakesSense(d)') /\ Kept'
  BY <1>4, <1>7, <1>8, AnswerInv
<1>10. ASSUME c.by \notin Ops, HalfRestored(c) PROVE HalfRestored(c)'
  <2>1. c.do \in {"version", "use", "set"}
    BY <1>1, <1>2, <1>10 DEF MakesSense
  <2>2. CASE c.do = "version"
    <3>1. UNCHANGED server /\ UNCHANGED client
      BY <1>6, <1>9, <2>2
    <3> QED BY <1>10, <2>2, <3>1 DEF HalfRestored, Missing
  <2>3. CASE c.do \in {"use", "set"}
    <3>1. c.value = client[c.session][c.key]
      BY <1>2, <1>10, <2>3 DEF MakesSense
    <3>2. SUFFICES ASSUME NEW k \in Keys
                   PROVE  /\ server'[c.session][k] \in {None, client[c.session][k]}
                          /\ Missing(c, k)' \/ server'[c.session][k] = client[c.session][k]
      BY <1>9 DEF HalfRestored, Same
    <3>3. CASE k = c.key
      BY <1>6, <2>3, <3>1, <3>3
    <3>4. CASE k # c.key
      <4>1. server'[c.session][k] = server[c.session][k]
        BY <1>6, <2>3, <3>4
      <4>2. Missing(c, k) => Missing(c, k)'
        <5>1. CASE c.do = "use"
          <6>1. c.key = Selected /\ k \in Variables
            BY <1>2, <1>10, <3>4, <5>1 DEF MakesSense
          <6> QED BY <5>1, <6>1 DEF Missing
        <5>2. CASE c.do = "set"
          BY <1>9, <3>4, <5>2 DEF Missing
        <5> QED BY <2>3, <5>1, <5>2
      <4> QED BY <1>10, <4>1, <4>2 DEF HalfRestored, Same
    <3> QED BY <3>3, <3>4
  <2> QED BY <2>1, <2>2, <2>3
<1>11. WhileConnected'
  <2>1. SUFFICES ASSUME link = "connected" PROVE WhileConnected'
    BY <1>9 DEF WhileConnected
  <2>2. calls = {c} /\ c.by \in Ops \cup Clones
    BY <1>1, <1>2, <2>1, Alone
  <2>3. attached = known /\ Attachments(c)' = known
    BY <1>1, <1>2, <1>9, <2>1, <2>2 DEF Inv, WhileConnected, Attachments
  <2>4. ASSUME NEW s \in known, NEW k \in Keys, ~Writes(c, s, k)
        PROVE  Same(s, k)'
    <3>1. Same(s, k) /\ s \in Sessions
      BY <2>1, <2>2, <2>4 DEF Inv, WhileConnected, Shapes
    <3>2. s # c.session \/ (c.do \in {"use", "set"} /\ k # c.key) \/ c.do = "version"
      BY <1>1, <2>4 DEF Writes
    <3>3. server'[s][k] = server[s][k]
      BY <1>6, <3>1, <3>2
    <3> QED BY <1>9, <3>1, <3>3 DEF Same
  <2>5. c.by \in Ops => Effects(c)'
    BY <1>1, <1>6 DEF Effects
  <2>6. c.by \notin Ops => HalfRestored(c)'
    BY <1>10, <2>1, <2>2 DEF Inv, WhileConnected
  <2> QED BY <1>1, <1>9, <2>2, <2>3, <2>4, <2>5, <2>6 DEF WhileConnected
<1>12. WhileRestoring'
  <2>1. SUFFICES ASSUME link = "handshake" PROVE WhileRestoring'
    BY <1>9 DEF WhileRestoring
  <2>2. c.by \in Handshakes /\ \A d \in calls : d.by \in Handshakes => d = c
    BY <1>1, <1>2, <2>1, Alone
  <2>3. ToCome(c)' = ToCome(c)
    BY <1>9 DEF ToCome
  <2>4. HalfRestored(c)'
    BY <1>1, <1>10, <2>1, <2>2 DEF Inv, WhileRestoring
  <2>5. /\ attached' \subseteq known' /\ ToCome(c)' \subseteq known' \ {Root}
        /\ c.do # "version" => c.session \notin ToCome(c)'
        /\ \A s \in known' : s \in attached' <=>
             s \notin ToCome(c)' /\ ~(s = c.session /\ c.do = "attach" /\ ~Answered(c)')
    BY <1>1, <1>9, <2>1, <2>2, <2>3 DEF Inv, WhileRestoring
  <2>6. \A s \in known' \ ToCome(c)' : s # c.session => \A k \in Keys : Same(s, k)'
    <3>1. \A s \in known \ ToCome(c) : s # c.session => \A k \in Keys : Same(s, k)
      BY <1>1, <2>1, <2>2 DEF Inv, WhileRestoring
    <3>2. \A s \in known : s # c.session => server'[s] = server[s]
      BY <1>6 DEF Inv, Shapes
    <3> QED BY <1>9, <2>3, <3>1, <3>2 DEF Same
  <2> QED BY <1>9, <2>2, <2>4, <2>5, <2>6 DEF WhileRestoring
<1> QED BY <1>9, <1>11, <1>12 DEF Inv

-----------------------------------------------------------------------------
(* The calls of the application.                                           *)

\* No call is pending: nothing is in flight, and both sides agree.
LEMMA Idle ==
  ASSUME Inv, CarefulCall
  PROVE  /\ link = "connected" /\ calls = {} /\ sent = {} /\ answers = {} /\ attached = known
         /\ \A s \in known, k \in Keys : Same(s, k)
<1> USE Parts
<1>1. link = "connected" /\ \A o \in Ops : op[o] # "pending"
  BY DEF CarefulCall
<1>2. ASSUME NEW c \in calls PROVE FALSE
  <2>1. Underway(c)
    BY <1>1 DEF Underway
  <2>2. c.by \in Ops \cup Clones
    BY <1>1, <2>1, Alone
  <2>3. CASE c.by \in Ops
    BY <1>1, <2>3 DEF Inv, OneAtATime
  <2>4. CASE c.by \in Clones
    BY <1>1, <2>4 DEF Inv, OneAtATime
  <2> QED BY <2>2, <2>3, <2>4
<1>3. calls = {}
  BY <1>2
<1>4. sent = {} /\ answers = {}
  BY <1>3 DEF Inv, Shapes, OneAtATime
<1> QED BY <1>1, <1>3, <1>4 DEF Inv, WhileConnected

\* A careful application makes a call that makes sense.
LEMMA IssueInv ==
  ASSUME Inv, CarefulCall, NEW o \in Ops, NEW c \in AnyRequest, c.by = o, MakesSense(c),
         Issue(o, c)
  PROVE  Inv'
<1> USE Parts
<1>1. /\ link = "connected" /\ calls = {} /\ sent = {} /\ answers = {} /\ attached = known
      /\ \A s \in known, k \in Keys : Same(s, k)
  BY Idle
<1>2. /\ op' = [op EXCEPT ![o] = "pending"] /\ calls' = {c} /\ sent' = {c}
      /\ UNCHANGED <<link, socket, known, client, attached, server, answers, plan, acked>>
  BY <1>1 DEF Issue, serverVars
<1>3. Shapes'
  BY <1>1, <1>2 DEF Inv, Shapes
<1>4. OneAtATime'
  <2>1. \A d \in calls' : d = c /\ d.by = o
    BY <1>2
  <2>2. op'[o] = "pending"
    BY <1>2 DEF Inv, Shapes
  <2>3. \A p \in Ops : o # <<p>>
    OBVIOUS
  <2> QED BY <1>1, <1>2, <2>1, <2>2, <2>3 DEF OneAtATime, Underway
<1>5. \A d \in calls' : MakesSense(d)'
  BY <1>2 DEF MakesSense
<1>6. ~Answered(c)'
  BY <1>1, <1>2 DEF Answered
<1>7. \A s \in known, k \in Keys : Same(s, k)'
  BY <1>1, <1>2 DEF Same
<1>8. WhileConnected'
  BY <1>1, <1>2, <1>6, <1>7 DEF WhileConnected, Attachments, Effects
<1>9. Kept'
  BY <1>1, <1>2 DEF Inv, Kept
<1> QED BY <1>1, <1>2, <1>3, <1>4, <1>5, <1>8, <1>9 DEF Inv, WhileRestoring

\* So are all the calls of the application.
LEMMA UserInv == ASSUME Inv, CarefulCall, User PROVE Inv'
<1> USE Parts
<1>1. PICK o \in Ops : Use(o) \/ SetOrUnset(o) \/ Reset(o) \/ CreateSession(o) \/ DestroySession(o)
  BY DEF User
<1>2. known \subseteq Sessions /\ o \in Who
  BY DEF Inv, Shapes, Who
<1>3. CASE Use(o)
  <2>1. PICK s \in known, v \in Values \cup {None} : Issue(o, Request(o, "use", s, Selected, v))
    BY <1>3 DEF Use
  <2>2. PICK c : c = Request(o, "use", s, Selected, v)
    OBVIOUS
  <2>3. c \in AnyRequest /\ c.by = o
    BY <1>2, <2>2, Requested, Typed DEF Kinds
  <2>4. MakesSense(c)
    BY <2>2, Requested DEF MakesSense
  <2> QED BY <2>1, <2>2, <2>3, <2>4, IssueInv
<1>4. CASE SetOrUnset(o)
  <2>1. PICK s \in known, k \in Variables, v \in Values \cup {None} :
          Issue(o, Request(o, "set", s, k, v))
    BY <1>4 DEF SetOrUnset
  <2>2. PICK c : c = Request(o, "set", s, k, v)
    OBVIOUS
  <2>3. c \in AnyRequest /\ c.by = o
    BY <1>2, <2>2, Requested, Typed DEF Kinds
  <2>4. MakesSense(c)
    BY <2>2, Requested DEF MakesSense
  <2> QED BY <2>1, <2>2, <2>3, <2>4, IssueInv
<1>5. CASE Reset(o)
  <2>1. PICK s \in known : Issue(o, Plain(o, "reset", s))
    BY <1>5 DEF Reset
  <2>2. PICK c : c = Request(o, "reset", s, Selected, None)
    OBVIOUS
  <2>3. c \in AnyRequest /\ c.by = o
    BY <1>2, <2>2, Requested, Typed DEF Kinds
  <2>4. MakesSense(c)
    BY <2>2, Requested DEF MakesSense
  <2> QED BY <2>1, <2>2, <2>3, <2>4, Requested, IssueInv
<1>6. CASE CreateSession(o)
  <2>1. PICK f \in Forks \ known, from \in known \cup {None} :
          Issue(o, Request(o, "attach", f, Selected, from))
    BY <1>6 DEF CreateSession
  <2>2. PICK c : c = Request(o, "attach", f, Selected, from)
    OBVIOUS
  <2>3. c \in AnyRequest /\ c.by = o
    BY <1>2, <2>2, Requested, Typed DEF Kinds
  <2>4. MakesSense(c)
    BY <2>2, Requested DEF MakesSense
  <2> QED BY <2>1, <2>2, <2>3, <2>4, IssueInv
<1>7. CASE DestroySession(o)
  <2>1. PICK s \in known \ {Root} : Issue(o, Plain(o, "detach", s))
    BY <1>7 DEF DestroySession
  <2>2. PICK c : c = Request(o, "detach", s, Selected, None)
    OBVIOUS
  <2>3. c \in AnyRequest /\ c.by = o
    BY <1>2, <2>2, Requested, Typed DEF Kinds
  <2>4. MakesSense(c)
    BY <2>2, Requested DEF MakesSense
  <2> QED BY <2>1, <2>2, <2>3, <2>4, Requested, IssueInv
<1> QED BY <1>1, <1>3, <1>4, <1>5, <1>6, <1>7

-----------------------------------------------------------------------------
(* The answers.                                                            *)

\* An answer is to the one request underway, and is no rejection.
LEMMA Replied ==
  ASSUME Inv, NEW a \in answers
  PROVE  /\ a.call \in calls /\ Underway(a.call) /\ Answered(a.call) /\ MakesSense(a.call)
         /\ a.call \in AnyRequest
         /\ sent = {} /\ answers = {a} /\ ~Rejected(a)
<1>1. /\ a.call \in calls /\ Underway(a.call) /\ Answered(a.call) /\ MakesSense(a.call)
      /\ a.call \notin sent /\ a = [call |-> a.call, ok |-> TRUE] /\ a.call \in AnyRequest
  BY DEF Inv, OneAtATime, Answered, Shapes
<1>2. \A c \in calls : Underway(c) => c = a.call
  <2>1. link = "connected" => calls = {a.call}
    BY <1>1, Alone
  <2>2. link = "handshake" => \A d \in calls : d.by \in Handshakes => d = a.call
    BY <1>1, Alone
  <2> QED BY <2>1, <2>2 DEF Underway
<1>3. sent = {}
  BY <1>1, <1>2 DEF Inv, OneAtATime, Shapes
<1>4. answers = {a}
  <2>1. \A b \in answers : b = [call |-> b.call, ok |-> TRUE] /\ b.call = a.call
    BY <1>2 DEF Inv, OneAtATime
  <2> QED BY <1>1, <2>1
<1>5. ~Rejected(a)
  <2>1. a.ok
    BY <1>1
  <2>2. ~(a.call.do \in {"use", "set", "reset"} /\ a.call.session \notin known)
    BY <1>1 DEF MakesSense
  <2>3. ~(/\ a.call.do = "attach" /\ a.call.by \in Handshakes
          /\ a.call.session \notin known /\ client[a.call.session] = Fresh)
    BY <1>1, Parts DEF MakesSense
  <2>4. ~(/\ a.call.do = "attach" /\ a.call.by \in Ops
          /\ a.call.value \notin known \cup {None})
    BY <1>1 DEF MakesSense
  <2> QED BY <2>1, <2>2, <2>3, <2>4 DEF Rejected
<1> QED BY <1>1, <1>3, <1>4, <1>5

\* A call of the application has its answer: it leaves the table empty.
LEMMA Settled ==
  ASSUME Inv, NEW c \in calls, c.by \in Ops, Underway(c), Settle(c.by, c, "done"), sent = {},
         answers' = {}, UNCHANGED <<socket, attached, server>>,
         known' \subseteq Sessions, Root \in known',
         client' \in [Sessions -> State], acked' \in [Sessions -> State],
         \A s \in known' : client'[s] = acked'[s],
         attached = known', \A s \in known', k \in Keys : server[s][k] = client'[s][k]
  PROVE  Inv'
<1> USE Parts
<1>1. link = "connected" /\ calls = {c}
  BY Alone
<1>2. /\ calls' = {} /\ op' = [op EXCEPT ![c.by] = "done"] /\ UNCHANGED <<link, sent, plan>>
  BY <1>1 DEF Settle
<1>3. Shapes'
  BY <1>1, <1>2 DEF Inv, Shapes
<1>4. OneAtATime' /\ (\A d \in calls' : MakesSense(d)')
  BY <1>2 DEF OneAtATime
<1>5. WhileConnected' /\ WhileRestoring' /\ Kept'
  BY <1>1, <1>2 DEF Inv, WhileConnected, WhileRestoring, Kept, Same
<1> QED BY <1>3, <1>4, <1>5 DEF Inv

\* createSession() of a clone goes on.
LEMMA CloneGoesOn ==
  ASSUME Inv, NEW c \in calls, NEW o \in Ops, c.by = o \/ c.by = <<o>>,
         link = "connected", calls = {c}, sent = {}, answers' = {},
         UNCHANGED <<socket, attached, server>>, known' \subseteq Sessions, Root \in known',
         client' \in [Sessions -> State], acked' \in [Sessions -> State],
         \A s \in known' : client'[s] = acked'[s],
         NEW f \in Sessions, f \in known', attached = known',
         \A s \in known' \ {f} : \A k \in Keys : server[s][k] = client'[s][k],
         NEW steps \in SUBSET AnyStep, StepsFor(f, steps)', GoOn(<<o>>, c, steps, {})
  PROVE  Inv'
<1> USE Parts
<1>1. op[o] = "pending" /\ <<o>> \in Clones /\ <<o>> \in Who
  BY DEF Inv, OneAtATime, Who
<1>2. ASSUME NEW d \in steps,
             Make(<<o>>, c, d, {}, IF d.do = "set" THEN steps \ {d} ELSE {})
      PROVE  Inv'
  <2>1. /\ d.key \in Keys /\ d = Request(<< >>, d.do, f, d.key, client'[f][d.key])
        /\ (d.do = "use" /\ d.key = Selected) \/ (d.do = "set" /\ d.key \in Variables)
    BY DEF StepsFor
  <2>2. PICK next : next = [d EXCEPT !.by = <<o>>]
    OBVIOUS
  <2>3. next = Request(<<o>>, d.do, f, d.key, client'[f][d.key])
    <3>1. PICK v : v = client'[f][d.key]
      OBVIOUS
    <3>2. d = Request(<< >>, d.do, f, d.key, v)
      BY <2>1, <3>1
    <3>3. [Request(<< >>, d.do, f, d.key, v) EXCEPT !.by = <<o>>] = Request(<<o>>, d.do, f, d.key, v)
      BY DEF Request
    <3> QED BY <2>2, <3>1, <3>2, <3>3
  <2>4. client'[f][d.key] \in Values \cup {None}
    BY <2>1 DEF State
  <2>5. /\ next \in AnyRequest /\ next.by = <<o>> /\ next.do = d.do /\ next.session = f
        /\ next.key = d.key /\ next.value = client'[f][d.key]
    BY <1>1, <2>1, <2>3, <2>4, Requested, Typed DEF Kinds
  <2>6. /\ calls' = {next} /\ sent' = {next} /\ UNCHANGED <<link, op>>
        /\ plan' = [plan EXCEPT ![<<o>>] =
             [sessions |-> {}, left |-> IF d.do = "set" THEN steps \ {d} ELSE {}]]
    BY <1>2, <2>2 DEF Make
  <2>7. plan'[<<o>>].sessions = {} /\ plan'[<<o>>].left = IF d.do = "set" THEN steps \ {d} ELSE {}
    BY <1>1, <2>6 DEF Inv, Shapes
  <2>8. Shapes'
    <3>1. [sessions |-> {}, left |-> IF d.do = "set" THEN steps \ {d} ELSE {}]
            \in [sessions : SUBSET Sessions, left : SUBSET AnyStep]
      OBVIOUS
    <3>2. plan' \in [Handshakes \cup Clones -> [sessions : SUBSET Sessions, left : SUBSET AnyStep]]
      BY <2>6, <3>1 DEF Inv, Shapes
    <3> QED BY <2>5, <2>6, <3>2 DEF Inv, Shapes
  <2>9. OneAtATime'
    <3>1. \A e \in calls' : e = next /\ e.by = <<o>>
      BY <2>5, <2>6
    <3>2. \A p \in Ops : <<o>> = <<p>> => op'[p] = "pending"
      BY <1>1, <2>6
    <3> QED BY <2>6, <3>1, <3>2 DEF OneAtATime, Underway
  <2>10. ~Answered(next)'
    BY DEF Answered
  <2>11. MakesSense(next)'
    <3>1. \A e \in plan'[<<o>>].left : d.do = "set" =>
            /\ e.key \in Variables
            /\ e = Request(<< >>, "set", f, e.key, client'[f][e.key])
      BY <2>1, <2>7 DEF StepsFor
    <3> QED BY <2>1, <2>4, <2>5, <2>7, <3>1 DEF MakesSense
  <2>12. HalfRestored(next)'
    <3>1. SUFFICES ASSUME NEW k \in Keys
                   PROVE  /\ server'[f][k] \in {None, client'[f][k]}
                          /\ Missing(next, k)' \/ Same(f, k)'
      BY <2>5 DEF HalfRestored
    <3>2. server'[f][k] \in {None, client'[f][k]}
      BY DEF StepsFor
    <3>3. ASSUME ~Same(f, k)' PROVE Missing(next, k)'
      <4>1. PICK e \in steps : e.key = k \/ (k \in Variables /\ e.do = "use")
        BY <3>3 DEF StepsFor
      <4>2. CASE d.do = "use"
        <5>1. e = d
          BY <4>2 DEF StepsFor
        <5> QED BY <2>1, <2>5, <2>10, <4>1, <4>2, <5>1 DEF Missing
      <4>3. CASE d.do = "set"
        <5>1. e.do # "use"
          BY <4>3 DEF StepsFor
        <5>2. e = d \/ e \in plan'[<<o>>].left
          BY <2>7, <4>3
        <5> QED BY <2>5, <2>10, <4>1, <4>3, <5>1, <5>2 DEF Missing
      <4> QED BY <2>1, <4>2, <4>3
    <3> QED BY <3>2, <3>3
  <2>13. WhileConnected'
    <3>1. Attachments(next)' = known'
      BY <2>10 DEF Attachments
    <3>2. \A s \in known', k \in Keys : (\A e \in calls' : ~Writes(e, s, k)) => Same(s, k)'
      <4>1. \A k \in Keys : Writes(next, f, k)
        BY <1>1, <2>5 DEF Writes
      <4> QED BY <2>6, <4>1 DEF Same
    <3> QED BY <1>1, <2>5, <2>6, <2>12, <3>1, <3>2 DEF WhileConnected
  <2>14. WhileRestoring' /\ Kept'
    BY <2>6 DEF Inv, WhileRestoring, Kept
  <2> QED BY <2>6, <2>8, <2>9, <2>11, <2>13, <2>14 DEF Inv
<1>3. ASSUME steps = {}, calls' = calls \ {c}, Finish(<<o>>)
      PROVE  Inv'
  <2>1. /\ calls' = {} /\ plan' = [plan EXCEPT ![<<o>>] = Nothing]
        /\ op' = [op EXCEPT ![o] = "done"] /\ UNCHANGED <<link, sent>>
    BY <1>1, <1>3 DEF Finish
  <2>2. \A s \in known', k \in Keys : Same(s, k)'
    BY <1>3 DEF StepsFor, Same
  <2>3. Shapes'
    BY <2>1 DEF Inv, Shapes, Nothing
  <2>4. OneAtATime' /\ (\A d \in calls' : MakesSense(d)')
    BY <2>1 DEF OneAtATime
  <2>5. WhileConnected' /\ WhileRestoring' /\ Kept'
    BY <2>1, <2>2 DEF Inv, WhileConnected, WhileRestoring, Kept
  <2> QED BY <2>3, <2>4, <2>5 DEF Inv
<1> QED BY <1>2, <1>3 DEF GoOn

\* What a restore asks for when it comes to a session, and after its selection.
LEMMA Restores ==
  ASSUME Shapes, NEW s \in Sessions, client' \in [Sessions -> State], NEW steps,
         \A k \in Keys : server'[s][k] \in {None, client'[s][k]},
         steps = RestoreSteps(s) \/ (steps = Definitions(s) /\ Same(s, Selected)')
  PROVE  steps \in SUBSET AnyStep /\ StepsFor(s, steps)'
<1> USE Parts
<1>1. PICK v : v = client'[s][Selected]
  OBVIOUS
<1>2. PICK state \in State : state = client'[s]
  OBVIOUS
<1>3. v \in Values \cup {None} /\ \A k \in Variables : state[k] \in Values \cup {None}
  BY <1>1, <1>2 DEF State
<1>4. Definitions(s) = {Request(<< >>, "set", s, k, state[k]) : k \in {x \in Variables : state[x] # None}}
  BY <1>2 DEF Definitions
<1>5. Selection(s) = IF v = None THEN {} ELSE {Request(<< >>, "use", s, Selected, v)}
  <2>1. Selection(s) = {Request(<< >>, "use", s, Selected, w) : w \in {v} \ {None}}
    BY <1>1 DEF Selection
  <2> QED BY <2>1
<1>6. CASE steps = Definitions(s) /\ (Same(s, Selected)' \/ v = None)
  <2>1. \A d \in steps : \E k \in Variables :
          state[k] # None /\ d = Request(<< >>, "set", s, k, state[k])
    BY <1>4, <1>6
  <2>2. \A d \in steps : d.do = "set" /\ d.key \in Variables /\ d.key \in Keys
                         /\ d = Request(<< >>, d.do, s, d.key, state[d.key]) /\ d \in AnyStep
    <3>1. SUFFICES ASSUME NEW d \in steps
                   PROVE  d.do = "set" /\ d.key \in Variables /\ d.key \in Keys
                          /\ d = Request(<< >>, d.do, s, d.key, state[d.key]) /\ d \in AnyStep
      OBVIOUS
    <3>2. PICK k \in Variables : d = Request(<< >>, "set", s, k, state[k])
      BY <2>1
    <3>3. d.do = "set" /\ d.key = k
      BY <3>2, Requested
    <3>4. d \in AnyStep
      BY <1>3, <3>2 DEF AnyStep, Request, Kinds
    <3> QED BY <3>2, <3>3, <3>4
  <2>3. ASSUME NEW k \in Keys, ~Same(s, k)' PROVE \E d \in steps : d.key = k
    <3>1. state[k] # None
      BY <1>2, <2>3 DEF Same
    <3>2. k \in Variables
      BY <1>1, <1>2, <1>6, <2>3, <3>1
    <3>3. Request(<< >>, "set", s, k, state[k]) \in steps
      BY <1>4, <1>6, <3>1, <3>2
    <3> QED BY <3>3, Requested
  <2> QED BY <1>2, <2>2, <2>3 DEF StepsFor
<1>7. CASE steps = Selection(s) /\ v # None
  <2>1. steps = {Request(<< >>, "use", s, Selected, v)}
    BY <1>5, <1>7
  <2>2. PICK d : d = Request(<< >>, "use", s, Selected, v)
    OBVIOUS
  <2>3. d.do = "use" /\ d.key = Selected /\ d \in AnyStep /\ steps = {d}
    BY <1>3, <2>1, <2>2, Requested DEF AnyStep, Request, Kinds
  <2>4. d = Request(<< >>, d.do, s, d.key, client'[s][d.key])
    BY <1>1, <2>2, <2>3
  <2> QED BY <2>3, <2>4 DEF StepsFor
<1> QED BY <1>5, <1>6, <1>7 DEF RestoreSteps

\* The handshake goes on at session s, with the sessions that wait for it.
LEMMA HandshakeGoesOn ==
  ASSUME Inv, NEW c \in calls, NEW r \in Handshakes, c.by = r, link = "handshake", sent = {},
         answers' = {}, UNCHANGED <<socket, attached, server, known, client, acked>>,
         NEW s \in known, NEW sessions \in SUBSET known, Root \notin sessions,
         s \notin sessions,
         attached \subseteq known, \A x \in known : x \in attached <=> x \notin sessions,
         \A x \in known \ sessions : x # s => \A k \in Keys : Same(x, k),
         NEW steps \in SUBSET AnyStep, StepsFor(s, steps)', GoOn(r, c, steps, sessions)
  PROVE  Inv'
<1> USE Parts
<1>1. /\ r \in Who /\ \A d \in calls \ {c} : d.by \notin Handshakes
      /\ known \subseteq Sessions /\ s \in Sessions /\ sessions \in SUBSET Sessions
      /\ \A d, e \in calls \ {c} : d = e
  BY DEF Inv, OneAtATime, Who, Shapes
<1>2. \A x \in known, k \in Keys : Same(x, k)' <=> Same(x, k)
  BY DEF Same
<1>3. \A d \in calls : ~Answered(d)'
  BY DEF Answered
<1>4. ASSUME NEW p \in [sessions : SUBSET Sessions, left : SUBSET AnyStep],
             plan' = [plan EXCEPT ![r] = p]
      PROVE  /\ plan' \in [Handshakes \cup Clones -> [sessions : SUBSET Sessions, left : SUBSET AnyStep]]
             /\ plan'[r] = p
             /\ \A d \in calls \ {c} : MakesSense(d)'
  <2>1. /\ plan' \in [Handshakes \cup Clones -> [sessions : SUBSET Sessions, left : SUBSET AnyStep]]
        /\ plan'[r] = p /\ \A q \in Handshakes \cup Clones : q # r => plan'[q] = plan[q]
    BY <1>4 DEF Inv, Shapes
  <2>2. \A d \in calls \ {c} : d.by \in Ops \cup Clones /\ d.by # r /\ MakesSense(d)
    BY <1>1 DEF Inv, Shapes, AnyRequest, Who
  <2>3. \A d \in calls \ {c} : d.by \notin Ops => plan'[d.by] = plan[d.by]
    BY <2>1, <2>2
  <2> QED BY SMTT(30), <2>1, <2>2, <2>3 DEF MakesSense
<1>5. ASSUME NEW next \in AnyRequest, next.by = r, next.session \in known,
             NEW ahead \in SUBSET sessions, NEW left \in SUBSET AnyStep,
             plan' = [plan EXCEPT ![r] = [sessions |-> ahead, left |-> left]],
             calls' = (calls \ {c}) \cup {next}, sent' = sent \cup {next}, UNCHANGED <<link, op>>,
             MakesSense(next)', HalfRestored(next)', next.do # "version",
             next.session \notin ahead,
             next.do = "attach" => sessions \ {next.session} = ahead /\ next.session \in sessions,
             next.do # "attach" => sessions = ahead /\ next.session = s,
             next.do = "attach" => \A k \in Keys : Same(s, k)
      PROVE  Inv'
  <2>1. [sessions |-> ahead, left |-> left] \in [sessions : SUBSET Sessions, left : SUBSET AnyStep]
    BY <1>1
  <2>2. /\ plan' \in [Handshakes \cup Clones -> [sessions : SUBSET Sessions, left : SUBSET AnyStep]]
        /\ plan'[r].sessions = ahead /\ \A d \in calls \ {c} : MakesSense(d)'
    BY <1>4, <1>5, <2>1
  <2>3. Shapes'
    BY <1>5, <2>2 DEF Inv, Shapes
  <2>4. OneAtATime'
    <3>1. \A d, e \in calls' : (d.by \in Handshakes <=> e.by \in Handshakes) => d = e
      BY <1>1, <1>5
    <3>2. \A d \in calls' : d.by \in Ops => op'[d.by] = "pending"
      BY <1>5 DEF Inv, OneAtATime
    <3>3. \A d \in calls', o \in Ops : d.by = <<o>> => op'[o] = "pending"
      BY <1>5 DEF Inv, OneAtATime
    <3> QED BY <1>5, <3>1, <3>2, <3>3 DEF OneAtATime, Underway
  <2>5. \A d \in calls' : MakesSense(d)'
    BY <1>5, <2>2
  <2>6. ToCome(next)' = ahead
    BY <1>5, <2>2 DEF ToCome
  <2>7. ~Answered(next)'
    BY DEF Answered
  <2>8. \A x \in known \ ahead : x # next.session => \A k \in Keys : Same(x, k)
    BY <1>5
  <2>9. \A x \in known : x \in attached <=> x \notin ahead /\ ~(x = next.session /\ next.do = "attach")
    BY <1>5
  <2>10. \A d \in calls' : d.by \in Handshakes => d = next
    BY <1>1, <1>5
  <2>11. WhileRestoring'
    <3>1. attached' \subseteq known' /\ ahead \subseteq known' \ {Root}
      OBVIOUS
    <3>2. \A x \in known' : x \in attached' <=>
            x \notin ahead /\ ~(x = next.session /\ next.do = "attach" /\ ~Answered(next)')
      BY <2>7, <2>9
    <3>3. \A x \in known' \ ahead : x # next.session => \A k \in Keys : Same(x, k)'
      BY <1>2, <2>8
    <3> QED BY <1>5, <2>6, <2>10, <3>1, <3>2, <3>3 DEF WhileRestoring
  <2>12. WhileConnected' /\ Kept'
    BY <1>5 DEF Inv, WhileConnected, Kept
  <2> QED BY <2>3, <2>4, <2>5, <2>11, <2>12 DEF Inv
<1>6. ASSUME NEW d \in steps,
             Make(r, c, d, sessions, IF d.do = "set" THEN steps \ {d} ELSE {})
      PROVE  Inv'
  <2>1. /\ d.key \in Keys /\ d = Request(<< >>, d.do, s, d.key, client'[s][d.key])
        /\ (d.do = "use" /\ d.key = Selected) \/ (d.do = "set" /\ d.key \in Variables)
    BY DEF StepsFor
  <2>2. PICK next : next = [d EXCEPT !.by = r]
    OBVIOUS
  <2>3. PICK left : left = IF d.do = "set" THEN steps \ {d} ELSE {}
    OBVIOUS
  <2>4. next = Request(r, d.do, s, d.key, client'[s][d.key])
    <3>1. PICK v : v = client'[s][d.key]
      OBVIOUS
    <3>2. d = Request(<< >>, d.do, s, d.key, v)
      BY <2>1, <3>1
    <3>3. [Request(<< >>, d.do, s, d.key, v) EXCEPT !.by = r] = Request(r, d.do, s, d.key, v)
      BY DEF Request
    <3> QED BY <2>2, <3>1, <3>2, <3>3
  <2>5. client'[s][d.key] \in Values \cup {None}
    BY <1>1, <2>1 DEF Inv, Shapes, State
  <2>6. /\ next \in AnyRequest /\ next.by = r /\ next.do = d.do /\ next.session = s
        /\ next.key = d.key /\ next.value = client'[s][d.key]
    BY <1>1, <2>1, <2>4, <2>5, Requested, Typed DEF Kinds
  <2>7. /\ calls' = (calls \ {c}) \cup {next} /\ sent' = sent \cup {next} /\ UNCHANGED <<link, op>>
        /\ plan' = [plan EXCEPT ![r] = [sessions |-> sessions, left |-> left]]
    BY <1>6, <2>2, <2>3 DEF Make
  <2>8. plan'[r].sessions = sessions /\ plan'[r].left = left /\ left \in SUBSET AnyStep
    BY <2>3, <2>7 DEF Inv, Shapes
  <2>9. MakesSense(next)'
    <3>1. \A e \in plan'[r].left : d.do = "set" =>
            /\ e.key \in Variables
            /\ e = Request(<< >>, "set", s, e.key, client'[s][e.key])
      BY <2>1, <2>3, <2>8 DEF StepsFor
    <3> QED BY <2>1, <2>5, <2>6, <2>8, <3>1 DEF MakesSense
  <2>10. HalfRestored(next)'
    <3>1. SUFFICES ASSUME NEW k \in Keys
                   PROVE  /\ server'[s][k] \in {None, client'[s][k]}
                          /\ Missing(next, k)' \/ Same(s, k)'
      BY <2>6 DEF HalfRestored
    <3>2. server'[s][k] \in {None, client'[s][k]}
      BY DEF StepsFor
    <3>3. ASSUME ~Same(s, k)' PROVE Missing(next, k)'
      <4>0. ~Answered(next)'
        BY DEF Answered
      <4>1. PICK e \in steps : e.key = k \/ (k \in Variables /\ e.do = "use")
        BY <3>3 DEF StepsFor
      <4>2. CASE d.do = "use"
        <5>1. e = d
          BY <4>2 DEF StepsFor
        <5> QED BY <2>1, <2>6, <4>0, <4>1, <4>2, <5>1 DEF Missing
      <4>3. CASE d.do = "set"
        <5>1. e.do # "use"
          BY <4>3 DEF StepsFor
        <5>2. e = d \/ e \in plan'[r].left
          BY <2>3, <2>8, <4>3
        <5> QED BY <2>6, <4>0, <4>1, <4>3, <5>1, <5>2 DEF Missing
      <4> QED BY <2>1, <4>2, <4>3
    <3> QED BY <3>2, <3>3
  <2>11. next.do # "version" /\ next.do # "attach"
    BY <2>1, <2>6
  <2> QED BY <1>5, <2>6, <2>7, <2>8, <2>9, <2>10, <2>11
<1>7. ASSUME steps = {}, NEW x \in sessions,
             Make(r, c, Plain(<< >>, "attach", x), sessions \ {x}, {})
      PROVE  Inv'
  <2>1. PICK next : next = [Plain(<< >>, "attach", x) EXCEPT !.by = r]
    OBVIOUS
  <2>2. next = Request(r, "attach", x, Selected, None)
    BY <2>1 DEF Plain, Request
  <2>3. /\ next \in AnyRequest /\ next.by = r /\ next.do = "attach" /\ next.session = x
    BY <1>1, <2>2, Requested, Typed DEF Kinds
  <2>4. /\ calls' = (calls \ {c}) \cup {next} /\ sent' = sent \cup {next} /\ UNCHANGED <<link, op>>
        /\ plan' = [plan EXCEPT ![r] = [sessions |-> sessions \ {x}, left |-> {}]]
    BY <1>7, <2>1 DEF Make
  <2>5. MakesSense(next)'
    BY <2>3 DEF MakesSense
  <2>6. HalfRestored(next)'
    <3>1. server[x] = Fresh
      BY <1>1, <1>7 DEF Inv, Kept
    <3> QED BY <2>3, <3>1 DEF HalfRestored, Missing
  <2>7. \A k \in Keys : Same(s, k)
    BY <1>2, <1>7 DEF StepsFor
  <2> QED BY <1>5, <1>7, <2>3, <2>4, <2>5, <2>6, <2>7
<1>8. ASSUME steps = {}, sessions = {}, calls' = calls \ {c}, Finish(r)
      PROVE  Inv'
  <2>1. /\ link' = "connected" /\ sent' = calls' /\ UNCHANGED op
        /\ plan' = [plan EXCEPT ![r] = Nothing]
    BY <1>8 DEF Finish, Resent
  <2>2. Nothing \in [sessions : SUBSET Sessions, left : SUBSET AnyStep]
    BY DEF Nothing
  <2>3. /\ plan' \in [Handshakes \cup Clones -> [sessions : SUBSET Sessions, left : SUBSET AnyStep]]
        /\ \A d \in calls' : MakesSense(d)'
    BY <1>4, <1>8, <2>1, <2>2
  <2>4. Shapes'
    BY <1>8, <2>1, <2>3 DEF Inv, Shapes
  <2>5. OneAtATime'
    <3>1. \A d \in calls' : d \in calls /\ d.by \notin Handshakes
      BY <1>1, <1>8
    <3> QED BY <2>1, <3>1 DEF Inv, OneAtATime, Underway
  <2>6. attached = known
    BY <1>8
  <2>7. \A x \in known', k \in Keys : Same(x, k)'
    <3>1. \A k \in Keys : Same(s, k)'
      BY <1>8 DEF StepsFor
    <3> QED BY <1>2, <1>8, <3>1
  <2>8. WhileConnected'
    <3>1. \A d \in calls' : Attachments(d)' = known /\ Effects(d)'
      BY <1>3, <1>8 DEF Attachments, Effects
    <3>2. \A d \in calls' : d.by \notin Ops => HalfRestored(d)'
      <4>1. SUFFICES ASSUME NEW d \in calls', d.by \notin Ops PROVE HalfRestored(d)'
        OBVIOUS
      <4>2. d \in calls /\ d.by \in Clones /\ MakesSense(d)
        BY <1>1, <1>8, <4>1 DEF Inv, Shapes, AnyRequest, Who
      <4>3. d.do \in {"use", "set"} /\ d.session \in known
        BY <4>1, <4>2 DEF MakesSense, Inv, Shapes, AnyRequest, Kinds
      <4> QED BY <2>7, <4>3 DEF HalfRestored, Same
    <3> QED BY <2>6, <2>7, <3>1, <3>2 DEF WhileConnected
  <2>9. WhileRestoring' /\ Kept'
    BY <2>1 DEF Inv, WhileRestoring, Kept
  <2> QED BY <2>3, <2>4, <2>5, <2>8, <2>9 DEF Inv
<1> QED BY <1>6, <1>7, <1>8 DEF GoOn

\* What a restore has still to ask for when its last request is answered.
LEMMA RestOf ==
  ASSUME Inv, NEW c \in calls, c.by \notin Ops, c.do \in {"use", "set"}, Answered(c),
         MakesSense(c), HalfRestored(c), UNCHANGED <<server, client>>,
         NEW steps, steps = Rest(c)
  PROVE  steps \in SUBSET AnyStep /\ StepsFor(c.session, steps)'
<1> USE Parts
<1>1. c \in AnyRequest /\ c.session \in Sessions /\ c.by \in Handshakes \cup Clones
  BY DEF Inv, Shapes, AnyRequest, Who
<1>2. \A k \in Keys : server'[c.session][k] \in {None, client'[c.session][k]}
  BY DEF HalfRestored
<1>3. CASE c.do = "use"
  <2>1. steps = Definitions(c.session)
    BY <1>3 DEF Rest
  <2>2. Same(c.session, Selected)'
    BY <1>3 DEF HalfRestored, Missing, Same
  <2> QED BY <1>1, <1>2, <2>1, <2>2, Restores DEF Inv, Shapes
<1>4. CASE c.do = "set"
  <2>1. steps = plan[c.by].left
    BY <1>4 DEF Rest
  <2>2. steps \in SUBSET AnyStep
    BY <1>1, <2>1 DEF Inv, Shapes
  <2>3. \A d \in steps : /\ d.do = "set" /\ d.key \in Variables
                         /\ d = Request(<< >>, d.do, c.session, d.key, client[c.session][d.key])
    <3>1. SUFFICES ASSUME NEW d \in steps
                   PROVE  /\ d.do = "set" /\ d.key \in Variables
                          /\ d = Request(<< >>, d.do, c.session, d.key, client[c.session][d.key])
      OBVIOUS
    <3>2. d.key \in Variables /\ d = Request(<< >>, "set", c.session, d.key, client[c.session][d.key])
      BY <1>4, <2>1 DEF MakesSense
    <3>3. d.do = "set"
      <4>1. PICK key, v : d = Request(<< >>, "set", c.session, key, v)
        BY <3>2
      <4> QED BY <4>1, Requested
    <3> QED BY <3>2, <3>3
  <2>4. ASSUME NEW k \in Keys, ~Same(c.session, k)' PROVE \E d \in steps : d.key = k
    <3>1. Missing(c, k)
      BY <2>4 DEF HalfRestored, Same
    <3> QED BY <1>4, <2>1, <3>1 DEF Missing
  <2> QED BY <1>2, <2>2, <2>3, <2>4 DEF StepsFor
<1> QED BY <1>3, <1>4

\* No answer is late, and none is a rejection.
LEMMA NoneLost == ASSUME Inv, Late \/ ReceiveRejection PROVE FALSE
<1>1. \A a \in answers : a.call \in calls /\ ~Rejected(a)
  BY Replied
<1> QED BY <1>1 DEF Late, ReceiveRejection

\* use() or set() is answered, for the application or a restore.
LEMMA WrittenInv == ASSUME Inv, ReceiveWritten PROVE Inv'
<1> USE Parts
<1>1. PICK a, c :
        /\ a \in answers /\ c = a.call /\ answers' = answers \ {a} /\ UNCHANGED <<socket, attached, server, known>>
        /\ c.do \in {"use", "set"}
        /\ client' = [client EXCEPT ![c.session][c.key] = c.value]
        /\ IF c.by \in Ops
             THEN Settle(c.by, c, "done") /\ acked' = [acked EXCEPT ![c.session][c.key] = c.value]
             ELSE GoOn(c.by, c, Rest(c), plan[c.by].sessions) /\ UNCHANGED acked
  BY DEF ReceiveWritten, Receive, serverVars
<1>2. /\ c \in calls /\ Underway(c) /\ Answered(c) /\ MakesSense(c) /\ c \in AnyRequest
      /\ sent = {} /\ answers' = {}
  BY <1>1, Replied
<1>3. /\ c.session \in known /\ c.session \in Sessions /\ c.key \in Keys
      /\ c.value \in Values \cup {None}
      /\ known \subseteq Sessions /\ Root \in known
  BY <1>1, <1>2 DEF MakesSense, Inv, Shapes, AnyRequest
<1>4. CASE c.by \in Ops
  <2>1. link = "connected" /\ calls = {c}
    BY <1>2, <1>4, Alone
  <2>2. attached = known /\ Effects(c)
    BY <1>1, <1>2, <1>4, <2>1 DEF Inv, WhileConnected, Attachments
  <2>3. /\ Settle(c.by, c, "done")
        /\ acked' = [acked EXCEPT ![c.session] = [acked[c.session] EXCEPT ![c.key] = c.value]]
        /\ client' = [client EXCEPT ![c.session] = [client[c.session] EXCEPT ![c.key] = c.value]]
    BY <1>1, <1>4
  <2>4. client[c.session] = acked[c.session] /\ client[c.session] \in State
    BY <1>3 DEF Inv, Kept, Shapes
  <2>5. [client[c.session] EXCEPT ![c.key] = c.value] \in State
    BY <1>3, <2>4 DEF State
  <2>6. client' \in [Sessions -> State] /\ acked' \in [Sessions -> State]
    BY <1>3, <2>3, <2>4, <2>5 DEF Inv, Shapes
  <2>7. \A s \in known' : client'[s] = acked'[s]
    BY <1>1, <1>3, <2>3, <2>4 DEF Inv, Kept, Shapes
  <2>8. ASSUME NEW s \in known, NEW k \in Keys
        PROVE  server[s][k] = client'[s][k]
    <3>0. s \in Sessions
      BY <1>3
    <3>1. CASE s = c.session /\ k = c.key
      <4>1. client'[s][k] = c.value
        BY <1>3, <2>3, <2>4, <3>1 DEF Inv, Shapes, State
      <4>2. server[s][k] = c.value
        BY <1>1, <1>2, <2>2, <3>1 DEF Effects
      <4> QED BY <4>1, <4>2
    <3>2. CASE ~(s = c.session /\ k = c.key)
      <4>1. client'[s][k] = client[s][k]
        BY <1>3, <2>3, <2>4, <3>0, <3>2 DEF Inv, Shapes, State
      <4>2. \A d \in calls : ~Writes(d, s, k)
        BY <1>1, <1>4, <2>1, <3>2 DEF Writes
      <4>3. Same(s, k)
        BY <2>1, <4>2 DEF Inv, WhileConnected
      <4> QED BY <4>1, <4>3 DEF Same
    <3> QED BY <3>1, <3>2
  <2> QED BY <1>1, <1>2, <1>3, <1>4, <2>2, <2>3, <2>6, <2>7, <2>8, Settled
<1>5. CASE c.by \notin Ops
  <2>1. c.value = client[c.session][c.key]
    BY <1>1, <1>2, <1>5 DEF MakesSense
  <2>2. UNCHANGED client
    <3>1. client' = [client EXCEPT ![c.session] = [client[c.session] EXCEPT ![c.key] = c.value]]
      BY <1>1
    <3>2. [client[c.session] EXCEPT ![c.key] = c.value] = client[c.session]
      BY <1>3, <2>1 DEF Inv, Shapes, State
    <3>3. client \in [Sessions -> State]
      BY DEF Inv, Shapes
    <3> QED BY <3>1, <3>2, <3>3
  <2>3. UNCHANGED acked /\ GoOn(c.by, c, Rest(c), plan[c.by].sessions)
    BY <1>1, <1>5
  <2>4. PICK steps : steps = Rest(c)
    OBVIOUS
  <2>5. GoOn(c.by, c, steps, plan[c.by].sessions)
    BY <2>3, <2>4
  <2>6. /\ client' \in [Sessions -> State] /\ acked' \in [Sessions -> State]
        /\ \A s \in known' : client'[s] = acked'[s]
    BY <1>1, <2>2, <2>3 DEF Inv, Shapes, Kept
  <2>7. CASE link = "connected"
    <3>1. calls = {c} /\ c.by \in Clones
      BY <1>2, <1>5, <2>7, Alone
    <3>2. PICK o \in Ops : c.by = <<o>>
      BY <3>1
    <3>3. attached = known /\ HalfRestored(c)
      BY <1>1, <1>2, <1>5, <2>7, <3>1 DEF Inv, WhileConnected, Attachments
    <3>4. steps \in SUBSET AnyStep /\ StepsFor(c.session, steps)'
      BY <1>1, <1>2, <1>5, <2>2, <2>4, <3>3, RestOf
    <3>5. GoOn(<<o>>, c, steps, {})
      BY <1>2, <2>5, <3>1, <3>2 DEF MakesSense
    <3>6. \A s \in known' \ {c.session} : \A k \in Keys : server[s][k] = client'[s][k]
      <4>1. \A s \in known \ {c.session}, k \in Keys : \A d \in calls : ~Writes(d, s, k)
        BY <3>1 DEF Writes
      <4>2. \A s \in known \ {c.session}, k \in Keys : Same(s, k)
        BY <2>7, <4>1 DEF Inv, WhileConnected
      <4> QED BY <1>1, <2>2, <4>2 DEF Same
    <3> QED BY <1>1, <1>2, <1>3, <2>6, <2>7, <3>1, <3>2, <3>3, <3>4, <3>5, <3>6, CloneGoesOn
  <2>8. CASE link = "handshake"
    <3>1. c.by \in Handshakes
      BY <1>2, <2>8, Alone
    <3>2. ToCome(c) = plan[c.by].sessions /\ c.do # "version" /\ c.do # "attach"
      BY <1>1 DEF ToCome
    <3>3. /\ attached \subseteq known /\ ToCome(c) \subseteq known \ {Root}
          /\ c.session \notin ToCome(c)
          /\ \A s \in known : s \in attached <=> s \notin ToCome(c)
          /\ \A s \in known \ ToCome(c) : s # c.session => \A k \in Keys : Same(s, k)
          /\ HalfRestored(c)
      BY <1>2, <2>8, <3>1, <3>2 DEF Inv, WhileRestoring
    <3>4. steps \in SUBSET AnyStep /\ StepsFor(c.session, steps)'
      BY <1>1, <1>2, <1>5, <2>2, <2>4, <3>3, RestOf
    <3>5. PICK sessions : sessions = plan[c.by].sessions
      OBVIOUS
    <3>6. GoOn(c.by, c, steps, sessions)
      BY <2>5, <3>5
    <3> HIDE <3>2
    <3>7. /\ sessions \in SUBSET known /\ Root \notin sessions /\ c.session \notin sessions
          /\ \A x \in known : x \in attached <=> x \notin sessions
          /\ \A x \in known \ sessions : x # c.session => \A k \in Keys : Same(x, k)
      BY <3>2, <3>3, <3>5
    <3> QED BY <1>1, <1>2, <1>3, <2>2, <2>3, <2>8, <3>1, <3>3, <3>4, <3>6, <3>7, HandshakeGoesOn
  <2> QED BY <1>2, <2>7, <2>8, Alone
<1> QED BY <1>4, <1>5

\* reset() is answered.
LEMMA ResetInv == ASSUME Inv, ReceiveReset PROVE Inv'
<1> USE Parts
<1>1. PICK a, c :
        /\ a \in answers /\ c = a.call /\ answers' = answers \ {a} /\ UNCHANGED <<socket, attached, server, known>>
        /\ c.do = "reset" /\ Settle(c.by, c, "done")
        /\ client' = [client EXCEPT ![c.session] = Fresh]
        /\ acked' = [acked EXCEPT ![c.session] = Fresh]
  BY DEF ReceiveReset, Receive, serverVars
<1>2. /\ c \in calls /\ Underway(c) /\ Answered(c) /\ MakesSense(c) /\ sent = {} /\ answers' = {}
  BY <1>1, Replied
<1>3. c.by \in Ops /\ c.session \in known /\ known \subseteq Sessions /\ Root \in known
  BY <1>1, <1>2 DEF MakesSense, Inv, Shapes
<1>4. link = "connected" /\ calls = {c}
  BY <1>2, <1>3, Alone
<1>5. attached = known /\ server[c.session] = Fresh
  BY <1>1, <1>2, <1>3, <1>4 DEF Inv, WhileConnected, Attachments, Effects
<1>6. /\ client' \in [Sessions -> State] /\ acked' \in [Sessions -> State]
      /\ client'[c.session] = Fresh /\ acked'[c.session] = Fresh
      /\ \A s \in Sessions : s # c.session => client'[s] = client[s] /\ acked'[s] = acked[s]
  BY <1>1, <1>3 DEF Inv, Shapes
<1>7. \A s \in known' : client'[s] = acked'[s]
  BY <1>1, <1>3, <1>6 DEF Inv, Kept
<1>8. ASSUME NEW s \in known, NEW k \in Keys PROVE server[s][k] = client'[s][k]
  <2>1. CASE s = c.session
    BY <1>5, <1>6, <2>1
  <2>2. CASE s # c.session
    <3>1. \A d \in calls : ~Writes(d, s, k)
      BY <1>4, <2>2 DEF Writes
    <3>2. Same(s, k)
      BY <1>4, <3>1 DEF Inv, WhileConnected
    <3> QED BY <1>3, <1>6, <2>2, <3>2 DEF Same
  <2> QED BY <2>1, <2>2
<1> QED BY <1>1, <1>2, <1>3, <1>5, <1>6, <1>7, <1>8, Settled

\* destroySession() is answered: the client forgets what the server has.
LEMMA DestroyedInv == ASSUME Inv, ReceiveDestroyed PROVE Inv'
<1> USE Parts
<1>1. PICK a, c :
        /\ a \in answers /\ c = a.call /\ answers' = answers \ {a}
        /\ UNCHANGED <<socket, attached, server, client, acked>>
        /\ c.do = "detach" /\ Settle(c.by, c, "done") /\ known' = known \ {c.session}
  BY DEF ReceiveDestroyed, Receive, serverVars, WithoutSession
<1>2. /\ c \in calls /\ Underway(c) /\ Answered(c) /\ MakesSense(c) /\ sent = {} /\ answers' = {}
  BY <1>1, Replied
<1>3. c.by \in Ops /\ c.session \in known \ {Root} /\ known \subseteq Sessions /\ Root \in known
  BY <1>1, <1>2 DEF MakesSense, Inv, Shapes
<1>4. link = "connected" /\ calls = {c}
  BY <1>2, <1>3, Alone
<1>5. attached = known'
  BY <1>1, <1>2, <1>4 DEF Inv, WhileConnected, Attachments
<1>6. /\ client' \in [Sessions -> State] /\ acked' \in [Sessions -> State]
      /\ \A s \in known' : client'[s] = acked'[s]
  BY <1>1 DEF Inv, Shapes, Kept
<1>7. ASSUME NEW s \in known', NEW k \in Keys PROVE server[s][k] = client'[s][k]
  <2>1. \A d \in calls : ~Writes(d, s, k)
    BY <1>1, <1>4 DEF Writes
  <2>2. Same(s, k)
    BY <1>1, <1>4, <2>1 DEF Inv, WhileConnected
  <2> QED BY <1>1, <2>2 DEF Same
<1> QED BY <1>1, <1>2, <1>3, <1>5, <1>6, <1>7, Settled

\* createSession() is answered: its session is fresh, or a clone to restore.
LEMMA CreatedInv == ASSUME Inv, ReceiveCreated PROVE Inv'
<1> USE Parts
<1>1. PICK a, c :
        /\ a \in answers /\ c = a.call /\ answers' = answers \ {a} /\ UNCHANGED <<socket, attached, server>>
        /\ c.do = "attach" /\ c.by \in Ops /\ known' = known \cup {c.session}
        /\ client' = [client EXCEPT ![c.session] = CloneState(c.value)]
        /\ acked' = [acked EXCEPT ![c.session] = CloneState(c.value)]
        /\ IF c.value = None THEN Settle(c.by, c, "done")
                             ELSE GoOn(<<c.by>>, c, RestoreSteps(c.session), {})
  BY DEF ReceiveCreated, Receive, serverVars
<1>2. /\ c \in calls /\ Underway(c) /\ Answered(c) /\ MakesSense(c) /\ c \in AnyRequest
      /\ sent = {} /\ answers' = {}
  BY <1>1, Replied
<1>3. /\ c.session \in Sessions /\ c.session \notin known /\ c.value \in known \cup {None}
      /\ known \subseteq Sessions /\ Root \in known
  BY <1>1, <1>2 DEF MakesSense, Inv, Shapes, AnyRequest
<1>4. link = "connected" /\ calls = {c}
  BY <1>1, <1>2, Alone
<1>5. attached = known' /\ server[c.session] = Fresh
  BY <1>1, <1>2, <1>4 DEF Inv, WhileConnected, Attachments, Effects
<1>6. /\ CloneState(c.value) \in State
      /\ c.value = None => CloneState(c.value) = Fresh
  BY <1>3 DEF CloneState, Inv, Shapes
<1>7. /\ client' \in [Sessions -> State] /\ acked' \in [Sessions -> State]
      /\ client'[c.session] = CloneState(c.value) /\ acked'[c.session] = CloneState(c.value)
      /\ \A s \in Sessions : s # c.session => client'[s] = client[s] /\ acked'[s] = acked[s]
  BY <1>1, <1>3, <1>6 DEF Inv, Shapes
<1>8. \A s \in known' : client'[s] = acked'[s]
  BY <1>1, <1>3, <1>7 DEF Inv, Kept
<1>9. ASSUME NEW s \in known' \ {c.session}, NEW k \in Keys PROVE server[s][k] = client'[s][k]
  <2>1. \A d \in calls : ~Writes(d, s, k)
    BY <1>4 DEF Writes
  <2>2. Same(s, k) /\ s \in known
    BY <1>1, <1>4, <2>1 DEF Inv, WhileConnected
  <2> QED BY <1>3, <1>7, <2>2 DEF Same
<1>10. CASE c.value = None
  <2>1. \A s \in known', k \in Keys : server[s][k] = client'[s][k]
    BY <1>5, <1>6, <1>7, <1>9, <1>10
  <2>2. Settle(c.by, c, "done") /\ known' \subseteq Sessions /\ Root \in known'
    BY <1>1, <1>3, <1>10
  <2> QED BY <1>1, <1>2, <1>5, <1>7, <1>8, <2>1, <2>2, Settled
<1>11. CASE c.value # None
  <2>1. PICK steps : steps = RestoreSteps(c.session)
    OBVIOUS
  <2>2. GoOn(<<c.by>>, c, steps, {})
    BY <1>1, <1>11, <2>1
  <2>3. \A k \in Keys : server'[c.session][k] \in {None, client'[c.session][k]}
    BY <1>1, <1>5
  <2>4. steps \in SUBSET AnyStep /\ StepsFor(c.session, steps)'
    BY <1>3, <1>7, <2>1, <2>3, Restores DEF Inv
  <2>5. /\ known' \subseteq Sessions /\ Root \in known' /\ c.session \in known'
        /\ \A s \in known' \ {c.session} : \A k \in Keys : server[s][k] = client'[s][k]
    BY <1>1, <1>3, <1>9
  <2> QED BY <1>1, <1>2, <1>3, <1>4, <1>5, <1>7, <1>8, <2>2, <2>4, <2>5, CloneGoesOn
<1> QED BY <1>10, <1>11

\* The handshake has the version, or has attached its next session.
LEMMA HandshakeInv == ASSUME Inv, ReceiveHandshake PROVE Inv'
<1> USE Parts
<1>1. PICK a, c, sessions :
        /\ a \in answers /\ c = a.call /\ answers' = answers \ {a}
        /\ UNCHANGED <<socket, attached, server, known, client, acked>>
        /\ c.by \in Handshakes /\ c.do \in {"version", "attach"}
        /\ sessions = ToCome(c) /\ GoOn(c.by, c, RestoreSteps(c.session), sessions)
  BY DEF ReceiveHandshake, Receive, serverVars, ToCome
<1>2. /\ c \in calls /\ Underway(c) /\ Answered(c) /\ MakesSense(c) /\ c \in AnyRequest
      /\ sent = {} /\ answers' = {}
  BY <1>1, Replied
<1>3. link = "handshake"
  BY <1>1, <1>2, Alone
<1>4. /\ c.session \in known /\ c.session \in Sessions /\ Root \in known /\ known \subseteq Sessions
      /\ c.do = "version" => c.session = Root
  BY <1>1, <1>2 DEF MakesSense, Inv, Shapes
<1>5. /\ attached \subseteq known /\ sessions \subseteq known \ {Root} /\ c.session \notin sessions
      /\ \A s \in known : s \in attached <=> s \notin sessions
      /\ \A s \in known \ sessions : s # c.session => \A k \in Keys : Same(s, k)
      /\ HalfRestored(c)
  BY <1>1, <1>2, <1>3, <1>4 DEF Inv, WhileRestoring
<1>6. PICK steps : steps = RestoreSteps(c.session)
  OBVIOUS
<1>7. /\ client' \in [Sessions -> State] /\ GoOn(c.by, c, steps, sessions)
      /\ \A k \in Keys : server'[c.session][k] \in {None, client'[c.session][k]}
  BY <1>1, <1>5, <1>6 DEF Inv, Shapes, HalfRestored
<1>8. steps \in SUBSET AnyStep /\ StepsFor(c.session, steps)'
  BY <1>4, <1>6, <1>7, Restores DEF Inv
<1>9. sessions \in SUBSET known /\ Root \notin sessions
  BY <1>5
<1> QED BY <1>1, <1>2, <1>3, <1>4, <1>5, <1>7, <1>8, <1>9, HandshakeGoesOn

-----------------------------------------------------------------------------
(* The specification.                                                      *)

\* Every step of a careful application, its network and the server keeps the
\* invariant.
LEMMA NextInv == ASSUME careful, Inv, [Next]_vars PROVE Inv'
<1>1. CASE Execute
  <2>1. PICK c \in sent : ExecuteAttach(c) \/ ExecuteDetach(c) \/ ExecuteOther(c)
    BY <1>1 DEF Execute
  <2> QED BY <2>1, AttachInv, DetachInv, OtherInv
<1>2. CASE Apply
  BY <1>2, WrittenInv, ResetInv, CreatedInv, DestroyedInv, HandshakeInv DEF Apply
<1>3. CASE SocketOpens \/ Late \/ ReceiveRejection
  BY <1>3, SocketOpensInv, NoneLost
<1>4. CASE CarefulLoss /\ Lose
  BY <1>4, LoseInv
<1>5. CASE CarefulCall /\ User
  BY <1>5, UserInv
<1>6. CASE UNCHANGED vars
  <2>1. UNCHANGED <<link, socket, known, client, attached, server, calls, sent, answers, op, plan,
                    acked>>
    BY <1>6 DEF vars
  <2>2. Shapes' /\ OneAtATime' /\ Kept'
    BY <2>1 DEF Inv, Shapes, OneAtATime, Underway, Kept
  <2>3. /\ \A c \in calls : MakesSense(c)' <=> MakesSense(c)
        /\ \A c : HalfRestored(c)' <=> HalfRestored(c)
        /\ \A c : Effects(c)' <=> Effects(c)
        /\ \A c : Attachments(c)' = Attachments(c) /\ ToCome(c)' = ToCome(c)
        /\ \A c : Answered(c)' <=> Answered(c)
        /\ \A s, k : Same(s, k)' <=> Same(s, k)
    BY <2>1 DEF MakesSense, HalfRestored, Missing, Effects, Attachments, ToCome, Answered, Same
  <2>4. WhileConnected'
    BY <2>1, <2>3 DEF Inv, WhileConnected
  <2>5. WhileRestoring'
    BY <2>1, <2>3 DEF Inv, WhileRestoring
  <2> QED BY <2>1, <2>2, <2>3, <2>4, <2>5 DEF Inv
<1> QED BY <1>1, <1>2, <1>3, <1>4, <1>5, <1>6 DEF Next

\* What the invariant says to a user of sessions.
LEMMA InvRestores == ASSUME Inv PROVE Restored /\ SameSessions /\ HandshakeSurvives
<1>1. Restored
  <2>1. SUFFICES ASSUME link = "connected", NEW s \in known, NEW k \in Keys,
                        \A c \in calls : ~Writes(c, s, k)
                 PROVE  server[s][k] = client[s][k] /\ client[s][k] = acked[s][k]
    BY DEF Restored
  <2> QED BY <2>1 DEF Inv, WhileConnected, Kept, Same
<1>2. SameSessions
  BY DEF SameSessions, Inv, WhileConnected
<1>3. HandshakeSurvives
  BY DEF HandshakeSurvives, Inv, Shapes
<1> QED BY <1>1, <1>2, <1>3

(* session.ts:116: when the "connection reconnects, the session will be    *)
(* automatically restored."  #onConnected and #restoreSession of           *)
(* controller/index.ts keep that, and createSession() for clones: for any  *)
(* number of sessions, variables, calls and sockets, an application that   *)
(* makes one call at a time finds, while connected, that the server has of *)
(* every session what the client keeps, that the server has the client's   *)
(* sessions, and that no handshake has failed.                             *)
THEOREM CarefulStayRestored == Spec => []CarefulRestored
<1> DEFINE CarefulInv == careful => Inv
<1>1. Init => CarefulInv
  BY InitInv
<1>2. CarefulInv /\ [Next]_vars => CarefulInv'
  <2>1. ASSUME [Next]_vars PROVE UNCHANGED careful
    BY <2>1 DEF Next, vars
  <2> QED BY <2>1, NextInv
<1>3. CarefulInv => CarefulRestored
  BY InvRestores DEF CarefulRestored
<1> QED BY <1>1, <1>2, <1>3, PTL DEF Spec
=============================================================================
