------------------------------ MODULE AuthRenewal ------------------------------
(***************************************************************************)
(* Authentication and the renewal of tokens                                *)
(* (packages/sdk/src/controller/index.ts, 243-314 and 499-650).            *)
(*                                                                         *)
(* Time is counted in seconds.  A token says who it was issued to and when *)
(* it expires; a refresh token is good for one refresh.  An authentication *)
(* of a session is under way for the application, for its timer, for the   *)
(* createSession() that cloned it, or for a handshake that restores it,    *)
(* also one whose connection was lost meanwhile; each is at one request.   *)
(***************************************************************************)
EXTENDS Integers, Sequences, FiniteSets

CONSTANTS
  Users,          \* who the application signs in
  Provider,       \* who the authentication provider signs in, or None
  ProviderFails,  \* the server may refuse what the provider gives
  Ways,           \* subset of {"signin", "authenticate"}: what the application calls
  Root, Forks,    \* the default session, and those that can be forked from it
  Lifetimes,      \* lifetimes of tokens; 0 for a token without expiry
  Refreshes,      \* the server issues refresh tokens
  Margin,         \* #expiryMargin
  SkipRenewal,    \* #skipRenewal
  MaxDelay,       \* the longest delay of a timer: 2^31 - 1 ms
  Quiet,          \* the application calls when no authentication is under way
  None,
  MaxTime,        \* bound: the clock
  MaxGrants,      \* bound: refresh tokens issued
  Handshakes,     \* bound: connections, each with the handshake that restores the sessions
  First,          \* the first of them
  MaxCalls        \* bound: calls of the application

Sessions == Forks \cup {Root}
Makers   == {"app", "timer", "clone"} \cup Handshakes
Never    == MaxTime + 1000

ASSUME AuthAssumption ==
  /\ Ways \subseteq {"signin", "authenticate"}
  /\ {ProviderFails, Refreshes, SkipRenewal, Quiet} \subseteq BOOLEAN
  /\ Lifetimes \subseteq Nat /\ Margin \in Nat /\ MaxDelay \in Nat
  /\ {MaxTime, MaxGrants, MaxCalls} \subseteq Nat
  /\ First \in Handshakes /\ Handshakes \cap {"app", "timer", "clone"} = {}
  /\ None \notin Users \cup Nat \cup Makers /\ Root \notin Forks

VARIABLES
  now,            \* the clock
  sessions,       \* #allSessions(), in order: none when the connection is over
  created,        \* the sessions created so far; an id is not given twice
  access,         \* accessToken of each session
  refresh,        \* refreshToken of each session
  overriden,      \* authOverriden of each session
  timer,          \* when authRenewal fires
  flight,         \* the requests under way: flight[s][m] is m's request for s
  held,           \* those that wait for ready()
  answer,         \* what the server gave each, on its way back
  current, spare, \* the handshake of this connection, and those of later ones
  restoring,      \* the sessions each handshake has still to restore
  cloning,        \* the clones that createSession() has still to authenticate
  server,         \* the token each session is authenticated with on the server
  grants,         \* refresh tokens the server accepts
  granted,        \* refresh tokens issued so far
  calls,          \* calls of the application so far
  fired,          \* history: renewals of each session within this second
  chosen,         \* history: who the application last authenticated each session as
  refused,        \* history: the sessions the provider's last signin failed for
  orphans,        \* history: of those, the clones createSession() left behind
  latest,         \* history: whose request the server last executed for each session
  overtaken,      \* history: the sessions whose answers arrived in another order
  raced           \* history: the call met another request, or left a refresh token behind

tokenVars   == <<access, refresh, overriden, timer, chosen>>
requestVars == <<flight, held, answer, restoring, cloning>>
linkVars    == <<sessions, created, current, spare>>
serverVars  == <<server, grants, granted>>
doubtVars   == <<refused, orphans>>
orderVars   == <<latest, overtaken>>
vars == <<now, linkVars, tokenVars, requestVars, serverVars, calls, fired, doubtVars, orderVars, raced>>

Known == {sessions[i] : i \in DOMAIN sessions}
Request(do, what) == [do |-> do, what |-> what]
Idle  == Request("nothing", None)
UnderWay(s) == s \in cloning \/ \E m \in Makers : flight[s][m] # Idle

\* The answers of the server that are on their way.
NoAnswer == << >>
Pending(s) == {m \in Makers : answer[s][m] # NoAnswer}

People == Users \cup {Provider}
IsToken(t) == t = None \/ (t.who \in People /\ t.exp \in 0..(Never + MaxTime))

TypeOK ==
  /\ now \in 0..MaxTime
  /\ Known \subseteq created \cup {Root} /\ created \subseteq Forks
  /\ sessions # << >> => sessions[1] = Root
  /\ \A s \in Sessions :
       /\ IsToken(access[s]) /\ IsToken(server[s])
       /\ refresh[s] = None \/ refresh[s].who \in People
       /\ overriden[s] \in BOOLEAN
       /\ timer[s] = None \/ timer[s] >= now
       /\ latest[s] \in Makers \cup {None}
       /\ \A m \in Makers :
            /\ flight[s][m].do \in
                 {"nothing", "signin", "authenticate", "reuse", "refresh", "provider", "invalidate"}
            /\ m \in Pending(s) => flight[s][m] # Idle /\ <<s, m>> \notin held /\ IsToken(answer[s][m].token)
  /\ current \in Handshakes /\ spare \subseteq Handshakes \ {current}
  /\ \A h \in Handshakes : \A i \in DOMAIN restoring[h] : restoring[h][i] \in Sessions
  /\ cloning \subseteq created /\ orphans \subseteq refused
  /\ Cardinality(grants) <= granted

Init ==
  /\ now = 0
  /\ sessions = <<Root>> /\ created = {}
  /\ access = [s \in Sessions |-> None]
  /\ refresh = [s \in Sessions |-> None]
  /\ overriden = [s \in Sessions |-> FALSE]
  /\ timer = [s \in Sessions |-> None]
  /\ flight = [s \in Sessions |-> [m \in Makers |-> Idle]]
  /\ held = {} /\ answer = [s \in Sessions |-> [m \in Makers |-> NoAnswer]]
  /\ current = First /\ spare = Handshakes \ {First}
  /\ restoring = [h \in Handshakes |-> IF h = First THEN <<Root>> ELSE << >>]
  /\ cloning = {}
  /\ server = [s \in Sessions |-> None]
  /\ grants = {} /\ granted = 0
  /\ calls = 0
  /\ fired = [s \in Sessions |-> 0]
  /\ chosen = [s \in Sessions |-> None]
  /\ refused = {} /\ orphans = {}
  /\ latest = [s \in Sessions |-> None] /\ overtaken = {}
  /\ raced = [s \in Sessions |-> FALSE]

Least(a, b) == IF a <= b THEN a ELSE b
Greatest(a, b) == IF a >= b THEN a ELSE b

-----------------------------------------------------------------------------
(* Faulty variants of the definitions below.                               *)

\* The margin is taken off a token that is shorter than it.
DelayNegative(remaining) == Greatest(remaining - Margin, 0)

\* The renewal is due when the token has expired, however long it lives.
DelayLate(remaining) == remaining + Margin

\* A refresh that fails ends the renewal.
AfterRefusal(do) == IF do = "refresh" THEN 4 ELSE 1

\* The provider is asked whoever signed in.
MayAskProvider(s) == Provider # None

-----------------------------------------------------------------------------
(* Delays.                                                                 *)

Remaining(token) == Greatest(token.exp - now, 0)

Delay(remaining) == Least(remaining, Greatest(remaining - Margin, Margin))

\* setTimeout() takes a delay it cannot hold for 1 ms.
FiresAt(delay) == now + IF delay > MaxDelay THEN 0 ELSE delay

\* #handleAuthChanged() cancels the timer and sets the next one.
Schedule(token) ==
  IF token.exp = Never THEN None ELSE FiresAt(Delay(Remaining(token)))

-----------------------------------------------------------------------------
(* #applyAuthentication(): the next request after the stage, 0 to begin.   *)

Reusable(s) ==
  /\ access[s] # None /\ access[s].exp # Never
  /\ Remaining(access[s]) > Delay(Remaining(access[s]))

AsksProvider(s) == Provider # None /\ ~overriden[s]

NextRequest(s, stage) ==
  CASE ~SkipRenewal /\ stage < 1 /\ Reusable(s) -> "reuse"
    [] ~SkipRenewal /\ stage < 2 /\ access[s] # None /\ refresh[s] # None -> "refresh"
    [] ~SkipRenewal /\ stage < 3 /\ AsksProvider(s) -> "provider"
    [] stage < 4 /\ access[s] # None -> "invalidate"
    [] OTHER -> "nothing"

\* A request carries who signs in, or the token as it was when it was made.
Carried(s, do) ==
  CASE do = "reuse" -> access[s] [] do = "refresh" -> refresh[s] [] OTHER -> None

\* m has nothing left to do for the session.  A handshake goes on to the next;
\* when it has none left, ready() sends what is in the table.
Leaves(s, m) ==
  IF m \in Handshakes
    THEN /\ restoring' = [restoring EXCEPT ![m] = Tail(@)]
         /\ held' = IF Tail(restoring[m]) = << >> THEN {} ELSE held
    ELSE UNCHANGED <<restoring, held>>

Proceed(s, m, stage) ==
  LET do == NextRequest(s, stage) IN
  /\ flight' = [flight EXCEPT ![s][m] = IF do = "nothing" THEN Idle ELSE Request(do, Carried(s, do))]
  /\ IF do = "nothing" THEN Leaves(s, m) ELSE UNCHANGED <<restoring, held>>

Done(s, m) == flight' = [flight EXCEPT ![s][m] = Idle] /\ Leaves(s, m)

-----------------------------------------------------------------------------
(* The server executes a request.  Its answer takes its time, and answers  *)
(* of one session may overtake one another.                                *)

Sent(s, m, do) == flight[s][m].do = do /\ <<s, m>> \notin held /\ answer[s][m] = NoAnswer

Serve(s, m, token, grant) ==
  /\ server' = [server EXCEPT ![s] = token]
  /\ answer' = [answer EXCEPT ![s][m] = [token |-> token, grant |-> grant]]
  /\ latest' = [latest EXCEPT ![s] = m]
  /\ overtaken' = IF Pending(s) = {} THEN overtaken \ {s} ELSE overtaken

Token(who, life) == [who |-> who, exp |-> IF life = 0 THEN Never ELSE now + life]

\* The server accepts the refresh tokens in accepted, and the one it issues.
Issue(s, m, who, accepted) ==
  LET issues == Refreshes /\ granted < MaxGrants
      grant  == IF issues THEN [who |-> who, n |-> granted + 1] ELSE None
  IN /\ \E life \in Lifetimes : Serve(s, m, Token(who, life), grant)
     /\ granted' = IF issues THEN granted + 1 ELSE granted
     /\ grants' = accepted \cup IF issues THEN {grant} ELSE {}

ServeSignin(s, m) == Sent(s, m, "signin") /\ Issue(s, m, flight[s][m].what, grants)

ServeProvider(s, m) == Sent(s, m, "provider") /\ Issue(s, m, Provider, grants)

ServeRefresh(s, m) ==
  /\ Sent(s, m, "refresh") /\ flight[s][m].what \in grants
  /\ Issue(s, m, flight[s][m].what.who, grants \ {flight[s][m].what})

ServeAuthenticate(s, m) ==
  /\ Sent(s, m, "authenticate")
  /\ \E life \in Lifetimes : Serve(s, m, Token(flight[s][m].what, life), None)
  /\ UNCHANGED <<grants, granted>>

ServeReuse(s, m) ==
  /\ Sent(s, m, "reuse") /\ flight[s][m].what.exp > now
  /\ Serve(s, m, flight[s][m].what, None)
  /\ UNCHANGED <<grants, granted>>

ServeInvalidate(s, m) ==
  /\ Sent(s, m, "invalidate")
  /\ Serve(s, m, None, None)
  /\ UNCHANGED <<grants, granted>>

Execute ==
  /\ \E s \in Known, m \in Makers :
       \/ ServeSignin(s, m) \/ ServeAuthenticate(s, m) \/ ServeReuse(s, m)
       \/ ServeRefresh(s, m) \/ ServeProvider(s, m) \/ ServeInvalidate(s, m)
  /\ UNCHANGED <<now, linkVars, tokenVars, flight, held, restoring, cloning, calls, fired, doubtVars>>

-----------------------------------------------------------------------------
(* The client after its await.                                             *)

\* reuse and authenticate() leave the refresh token of an earlier signin();
\* #handleAuthInvalidate() drops both tokens.
Take(s, m) ==
  LET do == flight[s][m].do
      token == answer[s][m].token
  IN /\ m \in Pending(s)
     /\ access' = [access EXCEPT ![s] = token]
     /\ refresh' = IF do \in {"reuse", "authenticate"} THEN refresh
                   ELSE [refresh EXCEPT ![s] = answer[s][m].grant]
     /\ timer' = [timer EXCEPT ![s] = IF token = None THEN None ELSE Schedule(token)]
     /\ overriden' = [overriden EXCEPT ![s] = @ \/ do \in {"signin", "authenticate"}]
     /\ chosen' = IF m = "app" THEN [chosen EXCEPT ![s] = flight[s][m].what] ELSE chosen
     /\ answer' = [answer EXCEPT ![s][m] = NoAnswer]
     /\ Done(s, m)
     /\ refused' = refused \ {s} /\ orphans' = orphans \ {s}
     /\ latest' = [latest EXCEPT ![s] = IF @ = m THEN None ELSE @]
     /\ overtaken' = IF latest[s] = m /\ Pending(s) # {m} THEN overtaken \cup {s} ELSE overtaken

Receive ==
  /\ \E s \in Known, m \in Makers : Take(s, m)
  /\ UNCHANGED <<now, linkVars, cloning, serverVars, calls, fired>>

\* After an error of the server the renewal goes on with the next stage.
StageAfter(do) == IF do = "reuse" THEN 1 ELSE 2

RefuseReuse(s, m) ==
  /\ Sent(s, m, "reuse") /\ flight[s][m].what.exp <= now
  /\ Proceed(s, m, StageAfter("reuse"))

RefuseRefresh(s, m) ==
  /\ Sent(s, m, "refresh") /\ flight[s][m].what \notin grants
  /\ Proceed(s, m, StageAfter("refresh"))

\* The provider is a function, and returns null.
DeclineProvider(s, m) == Sent(s, m, "provider") /\ Proceed(s, m, 3)

Refuse ==
  /\ \E s \in Known, m \in Makers : RefuseReuse(s, m) \/ RefuseRefresh(s, m) \/ DeclineProvider(s, m)
  /\ UNCHANGED <<now, linkVars, tokenVars, answer, cloning, serverVars, calls, fired, doubtVars,
                 orderVars>>

\* A handshake that fails closes the engine: the connection is over, and its
\* #state gone.
Over ==
  /\ sessions' = << >>
  /\ access' = [s \in Sessions |-> None] /\ refresh' = [s \in Sessions |-> None]
  /\ overriden' = [s \in Sessions |-> FALSE] /\ chosen' = [s \in Sessions |-> None]
  /\ timer' = [s \in Sessions |-> IF s \in Known THEN None ELSE timer[s]]
  /\ server' = [s \in Sessions |-> None]
  /\ flight' = [s \in Sessions |-> [m \in Makers |-> Idle]]
  /\ held' = {} /\ answer' = [s \in Sessions |-> [m \in Makers |-> NoAnswer]]
  /\ restoring' = [h \in Handshakes |-> << >>] /\ cloning' = {}
  /\ refused' = {} /\ orphans' = {}
  /\ UNCHANGED <<created, current, spare, grants, granted>>

\* The error of the provider's signin() ends the renewal.  The timer publishes
\* it; createSession() rejects, and leaves its clone in #state.sessions.
GiveUp(s, m) ==
  /\ Done(s, m)
  /\ refused' = refused \cup {s}
  /\ orphans' = IF m = "clone" THEN orphans \cup {s} ELSE orphans
  /\ UNCHANGED <<linkVars, tokenVars, answer, cloning, serverVars>>

RefuseProvider ==
  /\ ProviderFails
  /\ \E s \in Known, m \in Makers :
       Sent(s, m, "provider") /\ IF m \in Handshakes THEN Over ELSE GiveUp(s, m)
  /\ UNCHANGED <<now, calls, fired, orderVars>>

-----------------------------------------------------------------------------
(* Timers, and the connection.                                             *)

Due(s) == timer[s] # None /\ timer[s] <= now

Fire(s) ==
  /\ Due(s) /\ flight[s]["timer"] = Idle
  /\ fired[s] < 3
  /\ fired' = [fired EXCEPT ![s] = @ + 1]
  /\ timer' = [timer EXCEPT ![s] = None]
  /\ IF s \in Known THEN Proceed(s, "timer", 0) ELSE UNCHANGED <<flight, restoring, held>>
  /\ UNCHANGED <<now, linkVars, access, refresh, overriden, chosen, answer, cloning, serverVars, calls,
                 doubtVars, orderVars>>

\* An answer arrives within the second.
Tick ==
  /\ now < MaxTime /\ Known # {}
  /\ \A s \in Sessions : ~Due(s) /\ Pending(s) = {}
  /\ now' = now + 1
  /\ fired' = [s \in Sessions |-> 0]
  /\ UNCHANGED <<linkVars, tokenVars, requestVars, serverVars, calls, doubtVars, orderVars>>

\* The sessions of the handshake under way are not all restored.
Handshaking == restoring[current] # << >>

\* Answers are lost.  What is under way stays in the table of the engine, that
\* of a handshake too, and is sent again when the next handshake is done.
Lose ==
  /\ sessions # << >>
  /\ \E h \in spare :
       /\ current' = h /\ spare' = spare \ {h}
       /\ restoring' = [restoring EXCEPT ![h] = sessions]
  /\ server' = [s \in Sessions |-> None]
  /\ answer' = [s \in Sessions |-> [m \in Makers |-> NoAnswer]]
  /\ held' = {x \in Sessions \X Makers : flight[x[1]][x[2]] # Idle}
  /\ latest' = [s \in Sessions |-> None] /\ overtaken' = {}
  /\ UNCHANGED <<now, sessions, created, tokenVars, flight, cloning, grants, granted, calls, fired,
                 doubtVars>>

\* The next session of a handshake, or of an earlier one that goes on after
\* ready(): one destroyed meanwhile fails it.
Restore(h) ==
  /\ restoring[h] # << >> /\ (h = current \/ ~Handshaking)
  /\ LET s == Head(restoring[h]) IN
     /\ flight[s][h] = Idle
     /\ IF s \in Known
          THEN Proceed(s, h, 0) /\ UNCHANGED <<linkVars, tokenVars, answer, cloning, serverVars, doubtVars>>
          ELSE Over
  /\ UNCHANGED <<now, calls, fired, orderVars>>

-----------------------------------------------------------------------------
(* The application.                                                        *)

MayCall(s) ==
  /\ calls < MaxCalls /\ calls' = calls + 1
  /\ flight[s]["app"] = Idle
  /\ Quiet => ~Handshaking /\ \A x \in Sessions : ~UnderWay(x)

\* The application has the id of a clone once createSession() has returned it.
Returned(s) == s \notin cloning \cup orphans /\ flight[s]["clone"] = Idle

Call(s, request) ==
  /\ MayCall(s) /\ Returned(s)
  /\ flight' = [flight EXCEPT ![s]["app"] = request]
  /\ UNCHANGED <<now, linkVars, tokenVars, held, answer, restoring, cloning, serverVars, fired,
                 doubtVars, orderVars>>

Authenticate(s) == \E way \in Ways, u \in Users : Call(s, Request(way, u))

Invalidate(s) == Call(s, Request("invalidate", None))

\* createSession() with the tokens of the default session, which are then
\* applied to the clone; its authOverriden is false.
Fork(f) ==
  /\ Known # {} /\ f \notin created /\ MayCall(Root)
  /\ created' = created \cup {f}
  /\ sessions' = Append(sessions, f)
  /\ access' = [access EXCEPT ![f] = access[Root]]
  /\ refresh' = [refresh EXCEPT ![f] = refresh[Root]]
  /\ overriden' = [overriden EXCEPT ![f] = FALSE]
  /\ chosen' = [chosen EXCEPT ![f] = None]
  /\ cloning' = cloning \cup {f}
  /\ UNCHANGED <<now, current, spare, timer, flight, held, answer, restoring, serverVars, fired,
                 doubtVars, orderVars>>

Clone(f) ==
  /\ f \in cloning /\ cloning' = cloning \ {f}
  /\ Proceed(f, "clone", 0)
  /\ UNCHANGED <<now, linkVars, tokenVars, answer, serverVars, calls, fired, doubtVars, orderVars>>

\* destroySession() deletes the session's state, but leaves its timer.
Destroy(f) ==
  /\ MayCall(f) /\ Returned(f) /\ ~UnderWay(f)
  /\ \E i \in DOMAIN sessions :
       /\ sessions[i] = f
       /\ sessions' = SubSeq(sessions, 1, i - 1) \o SubSeq(sessions, i + 1, Len(sessions))
  /\ access' = [access EXCEPT ![f] = None] /\ refresh' = [refresh EXCEPT ![f] = None]
  /\ overriden' = [overriden EXCEPT ![f] = FALSE] /\ chosen' = [chosen EXCEPT ![f] = None]
  /\ server' = [server EXCEPT ![f] = None]
  /\ UNCHANGED <<now, created, current, spare, timer, requestVars, grants, granted, fired,
                 doubtVars, orderVars>>

Revoke(s) ==
  /\ MayCall(s) /\ Returned(s) /\ refresh[s] \in grants
  /\ grants' = grants \ {refresh[s]}
  /\ UNCHANGED <<now, linkVars, tokenVars, requestVars, server, granted, fired, doubtVars, orderVars>>

User ==
  \/ \E s \in Known : Authenticate(s) \/ Invalidate(s) \/ Revoke(s)
  \/ \E f \in Forks : Fork(f) \/ Destroy(f)

\* Something else is under way for the session during a call of the application,
\* or the call leaves the refresh token of someone else.
Overlaps(s) ==
  \/ flight'[s]["app"] # Idle /\ \E m \in Makers \ {"app"} : flight'[s][m] # Idle
  \/ chosen'[s] # None /\ refresh'[s] # None /\ refresh'[s].who # chosen'[s]

Next ==
  /\ \/ Execute \/ Receive \/ Refuse \/ RefuseProvider \/ Tick \/ Lose \/ User
     \/ \E s \in Sessions : Fire(s)
     \/ \E h \in Handshakes : Restore(h)
     \/ \E f \in Forks : Clone(f)
  /\ raced' = [s \in Sessions |->
       \/ Overlaps(s)
       \/ raced[s] /\ ~(flight[s]["app"] = Idle /\ flight'[s]["app"] # Idle)]

Spec == Init /\ [][Next]_vars

-----------------------------------------------------------------------------
(* Properties.                                                             *)

Settled(s) == s \in Known /\ ~Handshaking /\ ~UnderWay(s)

\* surreal.ts, "invalidateOnExpiry": a session that rests with a token that
\* expires has a timer, which fires before the token has expired.
AlwaysRenewed ==
  \A s \in Sessions :
    Settled(s) /\ access[s] # None /\ access[s].exp # Never =>
      timer[s] # None /\ timer[s] <= access[s].exp /\ now <= access[s].exp

\* So it is unless the signin with what the provider gave failed: neither a
\* restore, whole or cut off by a loss, nor a request that the server refused
\* nor an invalidation leaves a session that nobody will renew.
RenewedInTime ==
  \A s \in Sessions :
    Settled(s) /\ s \notin refused /\ access[s] # None /\ access[s].exp # Never =>
      timer[s] # None /\ timer[s] <= access[s].exp /\ now <= access[s].exp

\* session.ts, 115-124: a clone inherits the "authentication state", and a session
\* is restored after a reconnect: one that rests has on the server the token the
\* client shows, and no token when it shows none.
AlwaysAgrees == \A s \in Sessions : Settled(s) => server[s] = access[s]

\* So it is after every loss, also one in the middle of a restore, unless a
\* createSession() was rejected because the provider's signin failed, which
\* leaves its clone with the tokens it copied, or an answer was overtaken by one
\* to a later request, which the next request made alone sets right.
ServerAgrees ==
  \A s \in Sessions : Settled(s) /\ s \notin orphans \cup overtaken => server[s] = access[s]

\* surreal.ts, "authentication": after a signin() or an authenticate() of the
\* application the session is authenticated as whom it chose, or not at all.
ChosenStays ==
  \A s \in Sessions :
    Settled(s) /\ chosen[s] # None => access[s] = None \/ access[s].who = chosen[s]

\* So it is when the call met no renewal and no restore, and no refresh token
\* of someone else outlived it.
ChosenStaysUnraced ==
  \A s \in Sessions :
    Settled(s) /\ chosen[s] # None /\ ~raced[s] =>
      access[s] = None \/ access[s].who = chosen[s]

\* The timer of a session fires at most once in a second.
NoBusyRenewal == \A s \in Sessions : fired[s] <= 1
=============================================================================
