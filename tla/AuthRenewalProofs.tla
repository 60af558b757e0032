------------------------- MODULE AuthRenewalProofs -------------------------
(***************************************************************************)
(* Proofs about AuthRenewal, for any number of sessions, users, calls and  *)
(* connections, any lifetimes of tokens and any margin.                    *)
(***************************************************************************)
EXTENDS AuthRenewal, SequenceTheorems, TLAPS

-----------------------------------------------------------------------------
(* The inductive invariant.                                                *)

Busy(s, m) == flight[s][m].do # "nothing"
ToRestore(s) == \E i \in DOMAIN restoring[current] : restoring[current][i] = s

Shape ==
  /\ now \in 0..MaxTime
  /\ sessions \in Seq(Sessions)
  /\ \A i, j \in DOMAIN sessions : sessions[i] = sessions[j] => i = j
  /\ created \subseteq Forks /\ Known \subseteq created \cup {Root}
  /\ DOMAIN access = Sessions /\ DOMAIN server = Sessions /\ DOMAIN timer = Sessions
  /\ DOMAIN latest = Sessions

\* The requests and the answers have a place for each session and maker.
Places ==
  /\ DOMAIN flight = Sessions /\ DOMAIN answer = Sessions
  /\ \A s \in Sessions : DOMAIN flight[s] = Makers /\ DOMAIN answer[s] = Makers

\* A handshake restores one session at a time; those to come have none.
RestoresInTurn ==
  /\ current \in Handshakes \ spare /\ spare \subseteq Handshakes
  /\ restoring \in [Handshakes -> Seq(Sessions)]
  /\ \A h \in spare : restoring[h] = << >>
  /\ \A s \in Sessions, h \in Handshakes :
       Busy(s, h) => restoring[h] # << >> /\ Head(restoring[h]) = s

\* An answer is to a request, and is taken within the second.
AnswersArrive ==
  \A s \in Sessions, m \in Makers : answer[s][m] # NoAnswer =>
    /\ Busy(s, m)
    /\ answer[s][m].token = None
         \/ (answer[s][m].token.exp \in Nat /\ answer[s][m].token.exp > now)

\* A token tells when it expires, and one that is sent again was one's own.
TokensExpire ==
  \A s \in Sessions :
    /\ access[s] # None => access[s].exp \in Nat
    /\ \A m \in Makers : flight[s][m].do = "reuse" => flight[s][m].what # None /\ flight[s][m].what.exp \in Nat

\* Nobody authenticates a session before it is created, or createSession()
\* before its turn.
NewIsNobody == \A f \in Forks \ created : server[f] = None /\ \A m \in Makers : ~Busy(f, m)
ClonesWait  == cloning \subseteq created /\ \A f \in cloning : ~Busy(f, "clone")

\* The session is still to be authenticated on the server, or never will.
Missing(s) == ToRestore(s) \/ s \in cloning \/ Busy(s, "clone") \/ s \in orphans

\* The server has what its last answer said, and when that was taken what the
\* client has, unless the session is missing.
Agrees(s) ==
  IF Pending(s) = {}
    THEN server[s] = access[s] \/ (server[s] = None /\ Missing(s))
    ELSE latest[s] \in Pending(s) /\ server[s] = answer[s][latest[s]].token
Agreement == \A s \in Known : s \notin overtaken => Agrees(s)

\* Time does not pass a timer that is due.
TimersAhead == \A s \in Sessions : timer[s] # None => timer[s] \in Nat /\ timer[s] >= now

\* Somebody will renew a token that expires.
Renewed(s) ==
  \/ ToRestore(s) \/ s \in cloning \/ Busy(s, "clone") \/ Busy(s, "timer") \/ s \in refused
  \/ timer[s] # None /\ timer[s] <= access[s].exp
SomebodyRenews == \A s \in Known : access[s] # None /\ access[s].exp # Never => Renewed(s)

Inv ==
  /\ Shape /\ Places /\ RestoresInTurn /\ AnswersArrive /\ TokensExpire /\ NewIsNobody
  /\ ClonesWait /\ Agreement /\ TimersAhead /\ SomebodyRenews

-----------------------------------------------------------------------------
(* Delays and sequences.                                                   *)

\* A renewal is never due after the token has expired, and never at once.
LEMMA DelayBounds ==
  ASSUME NEW r \in Nat
  PROVE  Delay(r) \in Nat /\ Delay(r) <= r /\ (r > 0 => Delay(r) > 0)
BY AuthAssumption DEF Delay, Least, Greatest

LEMMA ScheduleBounds ==
  ASSUME NEW token, token.exp \in Nat, token.exp >= now, token.exp # Never, now \in Nat
  PROVE  /\ Schedule(token) \in Nat /\ Schedule(token) # None
         /\ Schedule(token) >= now /\ Schedule(token) <= token.exp
         /\ token.exp > now /\ token.exp <= now + MaxDelay => Schedule(token) > now
<1> DEFINE r == Remaining(token)
<1>1. r \in Nat /\ r = token.exp - now
  BY DEF Remaining, Greatest
<1>2. Delay(r) \in Nat /\ Delay(r) <= r /\ (r > 0 => Delay(r) > 0)
  BY <1>1, DelayBounds
<1> HIDE DEF r
<1>3. Schedule(token) = FiresAt(Delay(r))
  BY DEF Schedule, r
<1> QED BY <1>1, <1>2, <1>3, AuthAssumption DEF FiresAt

\* What is left after the first has been restored.
LEMMA TailKeeps ==
  ASSUME NEW q \in Seq(Sessions), q # << >>
  PROVE  /\ Tail(q) \in Seq(Sessions)
         /\ \A i \in DOMAIN q : q[i] = Head(q) \/ \E j \in DOMAIN Tail(q) : Tail(q)[j] = q[i]
<1>1. Tail(q) \in Seq(Sessions) /\ Len(Tail(q)) = Len(q) - 1 /\ Len(q) \in Nat
      /\ \A j \in 1..Len(Tail(q)) : Tail(q)[j] = q[j + 1]
  BY HeadTailProperties
<1>2. DOMAIN q = 1..Len(q) /\ DOMAIN Tail(q) = 1..Len(Tail(q)) /\ Head(q) = q[1]
  BY <1>1
<1>3. ASSUME NEW i \in DOMAIN q, i # 1
      PROVE  i - 1 \in DOMAIN Tail(q) /\ Tail(q)[i - 1] = q[i]
  BY <1>1, <1>2, <1>3
<1> QED BY <1>1, <1>2, <1>3

LEMMA KnownIsSession == ASSUME Shape PROVE Known \subseteq Sessions
BY DEF Shape, Known, Sessions

LEMMA MakersKnown ==
  /\ {"app", "timer", "clone"} \subseteq Makers /\ Handshakes \subseteq Makers
  /\ "app" \notin Handshakes /\ "timer" \notin Handshakes /\ "clone" \notin Handshakes
  /\ None \notin Makers
BY AuthAssumption DEF Makers

-----------------------------------------------------------------------------
(* What is under way after a request of m for s, and what is to restore.   *)

Moved(s, m) ==
  /\ DOMAIN flight' = Sessions /\ \A x \in Sessions : DOMAIN flight'[x] = Makers
  /\ \A x \in Sessions, n \in Makers : x # s \/ n # m => flight'[x][n] = flight[x][n]
  /\ flight'[s][m].do = "reuse" => access[s] # None /\ flight'[s][m].what = access[s]
  /\ restoring' = IF m \in Handshakes /\ flight'[s][m].do = "nothing"
                    THEN [restoring EXCEPT ![m] = Tail(@)] ELSE restoring

\* A handshake moves for the session it is at.
InTurn(s, m) == m \in Handshakes => restoring[m] # << >> /\ Head(restoring[m]) = s

LEMMA DoneMoves ==
  ASSUME Places, NEW s \in Sessions, NEW m \in Makers, Done(s, m)
  PROVE  Moved(s, m) /\ flight'[s][m] = Idle /\ flight'[s][m].do = "nothing"
<1>1. flight' = [flight EXCEPT ![s][m] = Idle]
      /\ restoring' = IF m \in Handshakes THEN [restoring EXCEPT ![m] = Tail(@)] ELSE restoring
  BY DEF Done, Leaves
<1>2. Idle.do = "nothing"
  BY DEF Idle, Request
<1>3. flight'[s][m] = Idle
      /\ \A x \in Sessions, n \in Makers : x # s \/ n # m => flight'[x][n] = flight[x][n]
  BY <1>1 DEF Places
<1>4. DOMAIN flight' = Sessions /\ \A x \in Sessions : DOMAIN flight'[x] = Makers
  BY <1>1 DEF Places
<1> QED BY <1>1, <1>2, <1>3, <1>4 DEF Moved

LEMMA ProceedMoves ==
  ASSUME Places, NEW s \in Sessions, NEW m \in Makers, NEW stage \in 0..3, Proceed(s, m, stage)
  PROVE  Moved(s, m) /\ (flight'[s][m].do = "nothing" => access[s] = None)
<1> DEFINE do == NextRequest(s, stage)
           next == IF do = "nothing" THEN Idle ELSE Request(do, Carried(s, do))
<1>1. flight' = [flight EXCEPT ![s][m] = next]
      /\ restoring' = IF m \in Handshakes /\ do = "nothing"
                        THEN [restoring EXCEPT ![m] = Tail(@)] ELSE restoring
  BY DEF Proceed, Leaves
<1>2. next.do = do /\ (do = "reuse" => next.what = access[s])
  BY DEF Idle, Request, Carried
<1>3. (do = "reuse" => access[s] # None) /\ (do = "nothing" => access[s] = None)
  BY DEF NextRequest, Reusable
<1> HIDE DEF next, do
<1>4. flight'[s][m] = next
      /\ \A x \in Sessions, n \in Makers : x # s \/ n # m => flight'[x][n] = flight[x][n]
  BY <1>1 DEF Places
<1>5. DOMAIN flight' = Sessions /\ \A x \in Sessions : DOMAIN flight'[x] = Makers
  BY <1>1 DEF Places
<1> QED BY <1>1, <1>2, <1>3, <1>4, <1>5 DEF Moved

\* What is kept of the invariant whatever request comes next.
LEMMA MovedKeeps ==
  ASSUME TokensExpire, RestoresInTurn, NEW s \in Sessions, NEW m \in Makers,
         Moved(s, m), InTurn(s, m), UNCHANGED <<current, spare>>
  PROVE  /\ RestoresInTurn'
         /\ \A x \in Sessions : ToRestore(x) =>
              ToRestore(x)' \/ (x = s /\ m \in Handshakes /\ ~Busy(s, m)')
         /\ \A x \in Sessions, n \in Makers :
              flight'[x][n].do = "reuse" => flight'[x][n].what # None /\ flight'[x][n].what.exp \in Nat
         /\ \A x \in Sessions, n \in Makers : x # s \/ n # m => Busy(x, n)' = Busy(x, n)
<1>1. \A x \in Sessions, n \in Makers : x # s \/ n # m => Busy(x, n)' = Busy(x, n)
  BY DEF Moved, Busy
<1>2. \A x \in Sessions, n \in Makers :
        flight'[x][n].do = "reuse" => flight'[x][n].what # None /\ flight'[x][n].what.exp \in Nat
  BY DEF Moved, TokensExpire
<1>3. CASE m \in Handshakes /\ flight'[s][m].do = "nothing"
  <2>1. restoring' = [restoring EXCEPT ![m] = Tail(@)] /\ restoring[m] # << >>
        /\ Head(restoring[m]) = s /\ m \notin spare
    BY <1>3 DEF Moved, InTurn, RestoresInTurn
  <2>2. Tail(restoring[m]) \in Seq(Sessions)
        /\ \A i \in DOMAIN restoring[m] :
             restoring[m][i] = s
               \/ \E j \in DOMAIN Tail(restoring[m]) : Tail(restoring[m])[j] = restoring[m][i]
    BY <1>3, <2>1, TailKeeps DEF RestoresInTurn
  <2>3. /\ restoring' \in [Handshakes -> Seq(Sessions)] /\ restoring'[m] = Tail(restoring[m])
        /\ \A h \in Handshakes \ {m} : restoring'[h] = restoring[h]
    BY <1>3, <2>1, <2>2 DEF RestoresInTurn
  <2>4. ASSUME NEW x \in Sessions, NEW h \in Handshakes, Busy(x, h)'
        PROVE  restoring'[h] # << >> /\ Head(restoring'[h]) = x
    <3>1. CASE h = m
      <4>1. x # s
        BY <1>3, <2>4, <3>1 DEF Busy
      <4>2. Busy(x, m)
        BY <1>1, <2>4, <3>1, <4>1
      <4> QED BY <1>3, <2>1, <4>1, <4>2 DEF RestoresInTurn
    <3>2. CASE h # m
      <4>1. Busy(x, h)
        BY <1>1, <2>4, <3>2, MakersKnown
      <4> QED BY <2>3, <3>2, <4>1 DEF RestoresInTurn
    <3> QED BY <3>1, <3>2
  <2>5. RestoresInTurn'
    BY <2>1, <2>3, <2>4 DEF RestoresInTurn
  <2>6. ASSUME NEW x \in Sessions, ToRestore(x), x # s PROVE ToRestore(x)'
    <3>1. CASE current = m
      BY <2>2, <2>3, <2>6, <3>1 DEF ToRestore
    <3>2. CASE current # m
      BY <2>3, <2>6, <3>2 DEF ToRestore, RestoresInTurn
    <3> QED BY <3>1, <3>2
  <2> QED BY <1>1, <1>2, <1>3, <2>5, <2>6 DEF Busy
<1>4. CASE ~(m \in Handshakes /\ flight'[s][m].do = "nothing")
  <2>1. restoring' = restoring
    BY <1>4 DEF Moved
  <2>2. \A x \in Sessions, h \in Handshakes : Busy(x, h)' => restoring[h] # << >> /\ Head(restoring[h]) = x
    BY <1>1, <1>4, MakersKnown DEF RestoresInTurn, InTurn
  <2>3. RestoresInTurn'
    BY <2>1, <2>2 DEF RestoresInTurn
  <2>4. \A x \in Sessions : ToRestore(x) => ToRestore(x)'
    BY <2>1 DEF ToRestore
  <2> QED BY <1>1, <1>2, <2>3, <2>4
<1> QED BY <1>3, <1>4

\* A session whose tokens and answers stay still agrees.
LEMMA StillAgrees ==
  ASSUME NEW x, Agrees(x), answer'[x] = answer[x], latest'[x] = latest[x],
         server'[x] = server[x], access'[x] = access[x],
         Missing(x) => Missing(x)' \/ access[x] = None
  PROVE  Agrees(x)'
<1>1. Pending(x)' = Pending(x)
  BY DEF Pending
<1> QED BY <1>1 DEF Agrees

LEMMA StillRenewed ==
  ASSUME NEW x, Renewed(x), access'[x] = access[x], timer'[x] = timer[x],
         ToRestore(x) => ToRestore(x)', x \in cloning => x \in cloning',
         Busy(x, "clone") => Busy(x, "clone")', Busy(x, "timer") => Busy(x, "timer")',
         x \in refused => x \in refused'
  PROVE  Renewed(x)'
BY DEF Renewed

-----------------------------------------------------------------------------
(* The server executes a request.                                          *)

\* A token that was just issued, or that was sent again and is still good.
Good(token) == token = None \/ (token.exp \in Nat /\ token.exp > now)

LEMMA ExecuteServes ==
  ASSUME Inv, Execute
  PROVE  \E s \in Known, m \in Makers : \E token, grant :
           /\ Busy(s, m) /\ answer[s][m] = NoAnswer /\ Good(token) /\ Serve(s, m, token, grant)
           /\ token # None /\ flight[s][m].do # "reuse" =>
                \E life \in Lifetimes : token.exp = Token(None, life).exp
           /\ flight[s][m].do = "reuse" => token = flight[s][m].what
<1>1. PICK s \in Known, m \in Makers :
       \/ ServeSignin(s, m) \/ ServeAuthenticate(s, m) \/ ServeReuse(s, m)
       \/ ServeRefresh(s, m) \/ ServeProvider(s, m) \/ ServeInvalidate(s, m)
  BY DEF Execute
<1>2. s \in Sessions
  BY KnownIsSession DEF Inv
<1>3. ASSUME NEW who, NEW life \in Lifetimes
      PROVE  Token(who, life).exp = Token(None, life).exp /\ Good(Token(who, life))
  <2>1. \A w : Token(w, life).exp = IF life = 0 THEN Never ELSE now + life
    BY DEF Token
  <2>2. life \in Nat /\ now \in 0..MaxTime /\ MaxTime \in Nat
    BY AuthAssumption DEF Inv, Shape
  <2> QED BY <2>1, <2>2 DEF Good, Never
<1>4. ASSUME NEW do, Sent(s, m, do), do # "nothing"
      PROVE  Busy(s, m) /\ answer[s][m] = NoAnswer /\ flight[s][m].do = do
  BY <1>4 DEF Sent, Busy
<1>5. ASSUME NEW who, NEW accepted, Issue(s, m, who, accepted)
      PROVE  \E life \in Lifetimes : \E grant : Serve(s, m, Token(who, life), grant)
  BY <1>5 DEF Issue
<1>6. CASE ServeSignin(s, m) \/ ServeRefresh(s, m) \/ ServeProvider(s, m)
  <2>1. PICK do \in {"signin", "refresh", "provider"} : Sent(s, m, do)
    BY <1>6 DEF ServeSignin, ServeRefresh, ServeProvider
  <2>2. PICK who, accepted : Issue(s, m, who, accepted)
    BY <1>6 DEF ServeSignin, ServeRefresh, ServeProvider
  <2>3. PICK life \in Lifetimes : \E grant : Serve(s, m, Token(who, life), grant)
    BY <1>5, <2>2
  <2>4. PICK grant : Serve(s, m, Token(who, life), grant)
    BY <2>3
  <2> QED BY <1>3, <1>4, <2>1, <2>4
<1>7. CASE ServeAuthenticate(s, m)
  <2>1. PICK life \in Lifetimes : Serve(s, m, Token(flight[s][m].what, life), None)
    BY <1>7 DEF ServeAuthenticate
  <2> QED BY <1>3, <1>4, <1>7, <2>1 DEF ServeAuthenticate
<1>8. CASE ServeReuse(s, m)
  BY <1>2, <1>4, <1>8 DEF ServeReuse, Good, Inv, TokensExpire
<1>9. CASE ServeInvalidate(s, m)
  BY <1>4, <1>9 DEF ServeInvalidate, Good
<1> QED BY <1>1, <1>6, <1>7, <1>8, <1>9

LEMMA ExecuteInv == ASSUME Inv, Execute PROVE Inv'
<1> USE DEF Inv
<1>0. PICK s \in Known, m \in Makers : \E token, grant :
         Busy(s, m) /\ answer[s][m] = NoAnswer /\ Good(token) /\ Serve(s, m, token, grant)
  BY ExecuteServes
<1>1. PICK token, grant :
         Busy(s, m) /\ answer[s][m] = NoAnswer /\ Good(token) /\ Serve(s, m, token, grant)
  BY <1>0
<1>2. UNCHANGED <<now, linkVars, tokenVars, flight, restoring, cloning, doubtVars>>
  BY DEF Execute
<1>3. s \in Sessions /\ Known' = Known /\ Known \subseteq Sessions
  BY <1>2, KnownIsSession DEF Known, linkVars
<1> DEFINE given == [token |-> token, grant |-> grant]
<1>4. given # NoAnswer /\ given.token = token
  BY DEF NoAnswer
<1> HIDE DEF given
<1>5. /\ DOMAIN answer' = Sessions /\ answer'[s][m] = given
      /\ \A x \in Sessions : DOMAIN answer'[x] = Makers
      /\ \A x \in Sessions, n \in Makers : x # s \/ n # m => answer'[x][n] = answer[x][n]
      /\ \A x \in Sessions \ {s} : answer'[x] = answer[x]
  BY <1>1, <1>3 DEF Serve, Places, given
<1>6. /\ DOMAIN server' = Sessions /\ server'[s] = token /\ DOMAIN latest' = Sessions /\ latest'[s] = m
      /\ \A x \in Sessions \ {s} : server'[x] = server[x] /\ latest'[x] = latest[x]
  BY <1>1, <1>3 DEF Serve, Shape
<1>7. Shape' /\ Places' /\ RestoresInTurn' /\ TimersAhead' /\ TokensExpire' /\ ClonesWait'
  BY <1>2, <1>3, <1>5, <1>6
     DEF Shape, Places, RestoresInTurn, TimersAhead, TokensExpire, ClonesWait, Busy, linkVars,
         tokenVars
<1>8. AnswersArrive'
  BY <1>1, <1>2, <1>3, <1>4, <1>5 DEF AnswersArrive, Good, Busy
<1>9. NewIsNobody'
  <2>1. \A f \in Forks \ created : f # s /\ f \in Sessions
    BY AuthAssumption DEF Shape, Sessions
  <2> QED BY <1>2, <1>6, <2>1 DEF NewIsNobody, Busy, linkVars
<1>10. Agreement'
  <2> SUFFICES ASSUME NEW x \in Known, x \notin overtaken' PROVE Agrees(x)'
    BY <1>3 DEF Agreement
  <2>1. CASE x = s
    BY <2>1, <1>4, <1>5, <1>6 DEF Agrees, Pending
  <2>2. CASE x # s
    <3>1. x \notin overtaken
      BY <2>2, <1>1 DEF Serve
    <3>2. Missing(x) => Missing(x)'
      BY <1>2 DEF Missing, ToRestore, Busy, linkVars, doubtVars
    <3> QED BY <2>2, <1>2, <1>3, <1>5, <1>6, <3>1, <3>2, StillAgrees DEF Agreement, tokenVars
  <2> QED BY <2>1, <2>2
<1>11. SomebodyRenews'
  BY <1>2, <1>3 DEF SomebodyRenews, Renewed, ToRestore, Busy, linkVars, tokenVars, doubtVars
<1> QED BY <1>7, <1>8, <1>9, <1>10, <1>11

-----------------------------------------------------------------------------
(* The client takes an answer, or goes on after an error.                  *)

LEMMA TakeInv ==
  ASSUME Inv, NEW s \in Known, NEW m \in Makers, Take(s, m),
         UNCHANGED <<now, linkVars, cloning, server>>
  PROVE  Inv'
<1> USE DEF Inv
<1> DEFINE token == answer[s][m].token
<1>1. s \in Sessions /\ Known' = Known /\ Known \subseteq Sessions
  BY KnownIsSession DEF Known, linkVars
<1>2. m \in Pending(s) /\ answer[s][m] # NoAnswer /\ Busy(s, m)
      /\ (token = None \/ (token.exp \in Nat /\ token.exp > now))
  BY <1>1 DEF Take, Pending, AnswersArrive
<1>3. Done(s, m)
  BY DEF Take
<1>4. Moved(s, m) /\ InTurn(s, m) /\ flight'[s][m].do = "nothing"
  BY <1>1, <1>2, <1>3, DoneMoves DEF RestoresInTurn, InTurn
<1>5. /\ RestoresInTurn'
      /\ \A x \in Sessions : ToRestore(x) =>
           ToRestore(x)' \/ (x = s /\ m \in Handshakes /\ ~Busy(s, m)')
      /\ \A x \in Sessions, n \in Makers :
           flight'[x][n].do = "reuse" => flight'[x][n].what # None /\ flight'[x][n].what.exp \in Nat
      /\ \A x \in Sessions, n \in Makers : x # s \/ n # m => Busy(x, n)' = Busy(x, n)
  BY <1>1, <1>4, MovedKeeps DEF linkVars
<1>6. /\ access' = [access EXCEPT ![s] = token]
      /\ timer' = [timer EXCEPT ![s] = IF token = None THEN None ELSE Schedule(token)]
      /\ answer' = [answer EXCEPT ![s][m] = NoAnswer]
      /\ latest' = [latest EXCEPT ![s] = IF @ = m THEN None ELSE @]
      /\ refused' = refused \ {s} /\ orphans' = orphans \ {s}
      /\ overtaken' = IF latest[s] = m /\ Pending(s) # {m} THEN overtaken \cup {s} ELSE overtaken
  BY DEF Take
<1> HIDE DEF token
<1>7. /\ access'[s] = token /\ timer'[s] = IF token = None THEN None ELSE Schedule(token)
      /\ DOMAIN access' = Sessions /\ DOMAIN timer' = Sessions /\ DOMAIN latest' = Sessions
      /\ latest'[s] = IF latest[s] = m THEN None ELSE latest[s]
      /\ \A x \in Sessions \ {s} :
           access'[x] = access[x] /\ timer'[x] = timer[x] /\ latest'[x] = latest[x]
  BY <1>1, <1>6 DEF Shape
<1>8. /\ DOMAIN answer' = Sessions /\ answer'[s][m] = NoAnswer
      /\ \A x \in Sessions : DOMAIN answer'[x] = Makers
      /\ \A x \in Sessions, n \in Makers : x # s \/ n # m => answer'[x][n] = answer[x][n]
      /\ \A x \in Sessions \ {s} : answer'[x] = answer[x]
  BY <1>1, <1>6 DEF Places
<1>9. \/ token = None \/ token.exp = Never
      \/ /\ timer'[s] \in Nat /\ timer'[s] # None
         /\ timer'[s] >= now /\ timer'[s] <= token.exp
  BY <1>2, <1>7, ScheduleBounds DEF Shape, token
<1>10. token # None /\ token.exp = Never => timer'[s] = None
  BY <1>7 DEF Schedule
<1>11. Shape' /\ Places'
  BY <1>1, <1>4, <1>7, <1>8 DEF Shape, Places, Moved, linkVars
<1>12. AnswersArrive'
  BY <1>1, <1>5, <1>8 DEF AnswersArrive
<1>13. TokensExpire'
  BY <1>2, <1>5, <1>7 DEF TokensExpire, token
<1>14. TimersAhead'
  BY <1>7, <1>9, <1>10 DEF TimersAhead
<1>15. NewIsNobody' /\ ClonesWait'
  BY <1>1, <1>4, <1>5, MakersKnown
     DEF NewIsNobody, ClonesWait, Shape, Busy, linkVars, Sessions
<1>16. Agreement'
  <2> SUFFICES ASSUME NEW x \in Known, x \notin overtaken' PROVE Agrees(x)'
    BY <1>1 DEF Agreement
  <2>1. x \notin overtaken /\ Agrees(x)
    BY <1>6 DEF Agreement
  <2>2. CASE x = s
    <3>1. Pending(s)' = Pending(s) \ {m} /\ Pending(s) # {}
      BY <1>1, <1>2, <1>8 DEF Pending
    <3>2. latest[s] \in Pending(s) /\ server[s] = answer[s][latest[s]].token
      BY <2>1, <2>2, <3>1 DEF Agrees
    <3>3. CASE latest[s] = m
      <4>1. Pending(s)' = {}
        BY <1>6, <2>2, <3>1, <3>3
      <4>2. server'[s] = access'[s]
        BY <1>7, <3>2, <3>3 DEF token
      <4> QED BY <2>2, <4>1, <4>2 DEF Agrees
    <3>4. CASE latest[s] # m
      <4>1. latest'[s] = latest[s] /\ latest[s] \in Pending(s)'
        BY <1>7, <3>1, <3>2, <3>4
      <4>2. latest[s] \in Makers
        BY <3>2 DEF Pending
      <4>3. answer'[s][latest[s]] = answer[s][latest[s]]
        BY <1>1, <1>8, <3>4, <4>2
      <4> QED BY <2>2, <3>2, <4>1, <4>3 DEF Agrees
    <3> QED BY <3>3, <3>4
  <2>3. CASE x # s
    <3>1. Missing(x) => Missing(x)'
      BY <2>3, <1>1, <1>5, <1>6, MakersKnown DEF Missing
    <3> QED BY <2>1, <2>3, <1>1, <1>7, <1>8, <3>1, StillAgrees
  <2> QED BY <2>2, <2>3
<1>17. SomebodyRenews'
  <2> SUFFICES ASSUME NEW x \in Known, access'[x] # None, access'[x].exp # Never PROVE Renewed(x)'
    BY <1>1 DEF SomebodyRenews
  <2>1. CASE x = s
    BY <2>1, <1>7, <1>9 DEF Renewed
  <2>2. CASE x # s
    <3>1. Renewed(x) /\ access'[x] = access[x] /\ timer'[x] = timer[x]
      BY <2>2, <1>1, <1>7 DEF SomebodyRenews
    <3>2. /\ ToRestore(x) => ToRestore(x)'
          /\ Busy(x, "clone") => Busy(x, "clone")'
          /\ Busy(x, "timer") => Busy(x, "timer")'
          /\ x \in refused => x \in refused'
      BY <2>2, <1>1, <1>5, <1>6, MakersKnown
    <3> QED BY <3>1, <3>2, StillRenewed
  <2> QED BY <2>1, <2>2
<1> QED BY <1>5, <1>11, <1>12, <1>13, <1>14, <1>15, <1>16, <1>17

\* m's next request for s, whoever m is.
LEMMA ProceedInv ==
  ASSUME Inv, NEW s \in created \cup {Root}, NEW m \in Makers, InTurn(s, m), NEW stage \in 0..3,
         Proceed(s, m, stage), answer[s][m] = NoAnswer,
         UNCHANGED <<now, linkVars, access, server, answer, orderVars, doubtVars>>,
         cloning' = IF m = "clone" THEN cloning \ {s} ELSE cloning,
         timer' = timer \/ (m = "timer" /\ timer' = [timer EXCEPT ![s] = None])
  PROVE  Inv'
<1> USE DEF Inv
<1>1. s \in Sessions /\ Known' = Known /\ Known \subseteq Sessions
  BY KnownIsSession DEF Known, linkVars, Shape, Sessions
<1>2. Moved(s, m) /\ (flight'[s][m].do = "nothing" => access[s] = None)
  BY <1>1, ProceedMoves
<1>3. /\ RestoresInTurn'
      /\ \A x \in Sessions : ToRestore(x) =>
           ToRestore(x)' \/ (x = s /\ m \in Handshakes /\ ~Busy(s, m)')
      /\ \A x \in Sessions, n \in Makers :
           flight'[x][n].do = "reuse" => flight'[x][n].what # None /\ flight'[x][n].what.exp \in Nat
      /\ \A x \in Sessions, n \in Makers : x # s \/ n # m => Busy(x, n)' = Busy(x, n)
  BY <1>1, <1>2, MovedKeeps DEF linkVars
<1>4. /\ DOMAIN timer' = Sessions
      /\ \A x \in Sessions : timer'[x] = timer[x] \/ (x = s /\ m = "timer" /\ timer'[x] = None)
  BY DEF Shape
<1>5. Busy(s, m)' \/ access[s] = None
  BY <1>2 DEF Busy
<1>6. Shape' /\ Places'
  BY <1>1, <1>2, <1>4 DEF Shape, Places, Moved, linkVars, orderVars
<1>7. AnswersArrive'
  BY <1>3 DEF AnswersArrive
<1>8. TokensExpire' /\ TimersAhead'
  BY <1>3, <1>4 DEF TokensExpire, TimersAhead
<1>11. NewIsNobody' /\ ClonesWait'
  <2>1. \A f \in Forks \ created : f # s /\ f \in Sessions
    BY AuthAssumption DEF Sessions
  <2>2. NewIsNobody'
    BY <1>3, <2>1 DEF NewIsNobody, linkVars
  <2>3. \A f \in cloning' : f \in cloning /\ f \in Sessions /\ ~(f = s /\ m = "clone")
    BY DEF ClonesWait, Shape, Sessions
  <2>4. \A f \in cloning' : ~Busy(f, "clone")'
    BY <1>3, <2>3, MakersKnown DEF ClonesWait
  <2> QED BY <2>2, <2>3, <2>4 DEF ClonesWait, linkVars
<1>9. Agreement'
  <2> SUFFICES ASSUME NEW x \in Known, x \notin overtaken PROVE Agrees(x)'
    BY <1>1 DEF Agreement, orderVars
  <2>1. Missing(x) => Missing(x)' \/ access[x] = None
    <3>1. CASE x = s /\ m = "clone"
      BY <3>1, <1>5 DEF Missing
    <3>2. CASE x = s /\ m # "clone"
      BY <3>2, <1>1, <1>3, <1>5, MakersKnown DEF Missing, doubtVars
    <3>3. CASE x # s
      BY <3>3, <1>1, <1>3, MakersKnown DEF Missing, doubtVars
    <3> QED BY <3>1, <3>2, <3>3
  <2> QED BY <2>1, StillAgrees DEF Agreement, orderVars
<1>10. SomebodyRenews'
  <2> SUFFICES ASSUME NEW x \in Known, access[x] # None, access[x].exp # Never PROVE Renewed(x)'
    BY <1>1 DEF SomebodyRenews
  <2>1. Renewed(x)
    BY DEF SomebodyRenews
  <2>2. CASE x = s /\ m \in {"clone", "timer"}
    BY <2>2, <1>5 DEF Renewed
  <2>3. CASE ~(x = s /\ m \in {"clone", "timer"})
    <3>1. timer'[x] = timer[x] /\ (x \in cloning => x \in cloning')
      BY <2>3, <1>1, <1>4
    <3>2. ToRestore(x) => ToRestore(x)'
      BY <1>1, <1>3, <1>5
    <3>3. /\ Busy(x, "clone") => Busy(x, "clone")'
          /\ Busy(x, "timer") => Busy(x, "timer")'
      BY <2>3, <1>1, <1>3, MakersKnown
    <3> QED BY <2>1, <3>1, <3>2, <3>3, StillRenewed DEF doubtVars
  <2> QED BY <2>2, <2>3
<1> QED BY <1>3, <1>6, <1>7, <1>8, <1>9, <1>10, <1>11

LEMMA RefuseInv == ASSUME Inv, Refuse PROVE Inv'
<1>1. PICK s \in Known, m \in Makers : RefuseReuse(s, m) \/ RefuseRefresh(s, m) \/ DeclineProvider(s, m)
  BY DEF Refuse
<1>2. \E stage \in 0..3 : Proceed(s, m, stage)
  BY <1>1 DEF RefuseReuse, RefuseRefresh, DeclineProvider, StageAfter
<1>3. answer[s][m] = NoAnswer /\ Busy(s, m)
  BY <1>1 DEF RefuseReuse, RefuseRefresh, DeclineProvider, Sent, Busy
<1>4. s \in Sessions /\ s \in created \cup {Root}
  BY KnownIsSession DEF Inv, Shape
<1>5. InTurn(s, m) /\ (m = "clone" => s \notin cloning)
  BY <1>3, <1>4 DEF Inv, RestoresInTurn, InTurn, ClonesWait
<1>6. UNCHANGED <<now, linkVars, access, timer, server, answer, cloning, orderVars, doubtVars>>
  BY DEF Refuse, tokenVars, serverVars
<1> QED BY <1>2, <1>3, <1>4, <1>5, <1>6, ProceedInv

LEMMA GiveUpInv ==
  ASSUME Inv, NEW s \in Known, NEW m \in Makers \ Handshakes, GiveUp(s, m), answer[s][m] = NoAnswer,
         UNCHANGED <<now, orderVars>>
  PROVE  Inv'
<1> USE DEF Inv
<1>1. s \in Sessions /\ Known' = Known /\ Known \subseteq Sessions
  BY KnownIsSession DEF Known, GiveUp, linkVars
<1>2. Moved(s, m) /\ InTurn(s, m)
  BY <1>1, DoneMoves DEF GiveUp, InTurn
<1>3. UNCHANGED <<current, spare, sessions, created, access, timer, server, answer, cloning>>
  BY DEF GiveUp, linkVars, tokenVars, serverVars
<1>4. /\ RestoresInTurn'
      /\ \A x \in Sessions : ToRestore(x) => ToRestore(x)'
      /\ \A x \in Sessions, n \in Makers :
           flight'[x][n].do = "reuse" => flight'[x][n].what # None /\ flight'[x][n].what.exp \in Nat
      /\ \A x \in Sessions, n \in Makers : x # s \/ n # m => Busy(x, n)' = Busy(x, n)
  BY <1>1, <1>2, <1>3, MovedKeeps
<1>5. Shape' /\ Places'
  BY <1>1, <1>2, <1>3 DEF Shape, Places, Moved, orderVars
<1>6. AnswersArrive' /\ TokensExpire' /\ TimersAhead'
  BY <1>1, <1>3, <1>4 DEF AnswersArrive, TokensExpire, TimersAhead
<1>10. NewIsNobody' /\ ClonesWait'
  BY <1>1, <1>2, <1>3, <1>4, DoneMoves, MakersKnown
     DEF NewIsNobody, ClonesWait, GiveUp, Busy, Shape, Sessions
<1>7. /\ s \in refused' /\ (m = "clone" => s \in orphans')
      /\ refused \subseteq refused' /\ orphans \subseteq orphans'
  BY DEF GiveUp
<1>8. Agreement'
  <2> SUFFICES ASSUME NEW x \in Known, x \notin overtaken PROVE Agrees(x)'
    BY <1>1 DEF Agreement, orderVars
  <2>1. Missing(x) => Missing(x)'
    BY <1>1, <1>3, <1>4, <1>7, MakersKnown DEF Missing
  <2> QED BY <1>3, <2>1, StillAgrees DEF Agreement, orderVars
<1>9. SomebodyRenews'
  <2> SUFFICES ASSUME NEW x \in Known, access[x] # None, access[x].exp # Never PROVE Renewed(x)'
    BY <1>1, <1>3 DEF SomebodyRenews
  <2>1. CASE x = s
    BY <2>1, <1>7 DEF Renewed
  <2>2. CASE x # s
    <3>1. /\ Busy(x, "clone") => Busy(x, "clone")'
          /\ Busy(x, "timer") => Busy(x, "timer")'
      BY <2>2, <1>1, <1>4, MakersKnown
    <3> QED BY <1>1, <1>3, <1>4, <1>7, <3>1, StillRenewed DEF SomebodyRenews
  <2> QED BY <2>1, <2>2
<1> QED BY <1>4, <1>5, <1>6, <1>8, <1>9, <1>10

\* Nothing is left when the connection is over.
LEMMA OverInv == ASSUME Inv, Over, now' = now, latest' = latest PROVE Inv'
<1> USE DEF Inv
<1>1. sessions' = << >> /\ Known' = {}
  BY DEF Over, Known
<1>2. /\ DOMAIN access' = Sessions /\ DOMAIN server' = Sessions /\ DOMAIN timer' = Sessions
      /\ \A s \in Sessions : access'[s] = None /\ server'[s] = None
      /\ \A s \in Sessions : timer'[s] = None \/ timer'[s] = timer[s]
      /\ created' = created
  BY DEF Over
<1>3. Shape'
  BY <1>1, <1>2 DEF Shape
<1>4. /\ Places'
      /\ \A s \in Sessions, m \in Makers : answer'[s][m] = NoAnswer /\ flight'[s][m] = Idle
  BY DEF Over, Places
<1>5. \A s \in Sessions, m \in Makers : flight'[s][m].do = "nothing"
  BY <1>4 DEF Idle, Request
<1>6. RestoresInTurn'
  BY <1>5, MakersKnown DEF Over, RestoresInTurn, Busy
<1>7. AnswersArrive' /\ TokensExpire' /\ TimersAhead'
  BY <1>2, <1>4, <1>5 DEF AnswersArrive, TokensExpire, TimersAhead
<1>8. NewIsNobody' /\ ClonesWait' /\ Agreement' /\ SomebodyRenews'
  BY <1>1, <1>2, <1>5 DEF Over, NewIsNobody, ClonesWait, Busy, Agreement, SomebodyRenews, Sessions
<1> QED BY <1>3, <1>4, <1>6, <1>7, <1>8

LEMMA RefuseProviderInv == ASSUME Inv, RefuseProvider PROVE Inv'
<1>1. PICK s \in Known, m \in Makers :
        Sent(s, m, "provider") /\ IF m \in Handshakes THEN Over ELSE GiveUp(s, m)
  BY DEF RefuseProvider
<1>2. answer[s][m] = NoAnswer /\ UNCHANGED <<now, orderVars>>
  BY <1>1 DEF Sent, RefuseProvider
<1> QED BY <1>1, <1>2, OverInv, GiveUpInv DEF orderVars

-----------------------------------------------------------------------------
(* Timers, and the connection.                                             *)

LEMMA FireInv == ASSUME Inv, NEW s \in Sessions, Fire(s) PROVE Inv'
<1>1. /\ timer' = [timer EXCEPT ![s] = None] /\ flight[s]["timer"] = Idle
      /\ UNCHANGED <<now, linkVars, access, answer, cloning, server, doubtVars, orderVars>>
  BY DEF Fire, serverVars
<1>2. CASE s \in Known
  <2>1. Proceed(s, "timer", 0) /\ "timer" \in Makers /\ s \in created \cup {Root}
    BY <1>2, MakersKnown DEF Fire, Inv, Shape
  <2>2. answer[s]["timer"] = NoAnswer
    BY <1>1, <2>1 DEF Inv, AnswersArrive, Busy, Idle, Request
  <2>3. InTurn(s, "timer")
    BY MakersKnown DEF InTurn
  <2>4. /\ cloning' = IF "timer" = "clone" THEN cloning \ {s} ELSE cloning
        /\ timer' = timer \/ ("timer" = "timer" /\ timer' = [timer EXCEPT ![s] = None])
        /\ 0 \in 0..3 /\ UNCHANGED <<now, linkVars, access, server, answer, orderVars, doubtVars>>
    BY <1>1
  <2> QED BY <2>1, <2>2, <2>3, <2>4, ProceedInv
<1>3. CASE s \notin Known
  <2>1. UNCHANGED <<flight, restoring>>
    BY <1>3 DEF Fire
  <2>2. Known' = Known /\ Known \subseteq Sessions
    BY <1>1, KnownIsSession DEF Inv, Known, linkVars
  <2>3. /\ DOMAIN timer' = Sessions /\ timer'[s] = None
        /\ \A x \in Sessions \ {s} : timer'[x] = timer[x]
    BY <1>1 DEF Inv, Shape
  <2>4. \A x \in Sessions : Missing(x)' = Missing(x)
    BY <1>1, <2>1 DEF Missing, ToRestore, Busy, linkVars, doubtVars
  <2>5. /\ Shape' /\ Places' /\ RestoresInTurn' /\ AnswersArrive' /\ TokensExpire'
        /\ NewIsNobody' /\ ClonesWait' /\ TimersAhead'
    BY <1>1, <2>1, <2>2, <2>3
       DEF Inv, Shape, Places, RestoresInTurn, AnswersArrive, TokensExpire, NewIsNobody,
           ClonesWait, TimersAhead, Busy, linkVars, orderVars
  <2>6. Agreement'
    BY <1>1, <2>2, <2>4, StillAgrees DEF Inv, Agreement, orderVars
  <2>7. SomebodyRenews'
    BY <1>1, <1>3, <2>1, <2>2, <2>3
       DEF Inv, SomebodyRenews, Renewed, ToRestore, Busy, linkVars, doubtVars
  <2> QED BY <2>5, <2>6, <2>7 DEF Inv
<1> QED BY <1>2, <1>3

LEMMA TickInv == ASSUME Inv, Tick PROVE Inv'
<1>1. /\ now' = now + 1 /\ now < MaxTime
      /\ \A s \in Sessions : ~Due(s) /\ Pending(s) = {}
      /\ UNCHANGED <<linkVars, access, timer, requestVars, server, doubtVars, orderVars>>
  BY DEF Tick, tokenVars, serverVars
<1>2. Known' = Known
  BY <1>1 DEF Known, linkVars
<1>3. /\ Shape' /\ Places' /\ RestoresInTurn' /\ TokensExpire' /\ NewIsNobody' /\ ClonesWait'
  BY <1>1, <1>2, AuthAssumption
     DEF Inv, Shape, Places, RestoresInTurn, TokensExpire, NewIsNobody, ClonesWait, Busy,
         linkVars, requestVars, orderVars
<1>4. AnswersArrive'
  BY <1>1 DEF Inv, AnswersArrive, Pending, requestVars
<1>5. TimersAhead'
  BY <1>1 DEF Inv, TimersAhead, Due, Shape
<1>6. Agreement' /\ SomebodyRenews'
  BY <1>1, <1>2 DEF Inv, Agreement, Agrees, Missing, SomebodyRenews, Renewed, ToRestore, Busy,
     Pending, linkVars, requestVars, doubtVars, orderVars
<1> QED BY <1>3, <1>4, <1>5, <1>6 DEF Inv

LEMMA LoseInv == ASSUME Inv, Lose PROVE Inv'
<1> USE DEF Inv
<1>1. PICK h \in spare : /\ current' = h /\ spare' = spare \ {h}
                         /\ restoring' = [restoring EXCEPT ![h] = sessions]
  BY DEF Lose
<1>2. /\ server' = [s \in Sessions |-> None]
      /\ answer' = [s \in Sessions |-> [m \in Makers |-> NoAnswer]]
      /\ latest' = [s \in Sessions |-> None]
      /\ UNCHANGED <<now, sessions, created, access, timer, flight, cloning, doubtVars>>
  BY DEF Lose, tokenVars
<1>3. Known' = Known /\ Known \subseteq Sessions
  BY <1>2, KnownIsSession DEF Known
<1>4. \A s \in Sessions : Pending(s)' = {}
  BY <1>2 DEF Pending
<1>5. /\ Shape' /\ Places' /\ AnswersArrive' /\ TokensExpire' /\ NewIsNobody' /\ ClonesWait'
      /\ TimersAhead'
  BY <1>2, <1>3 DEF Shape, Places, AnswersArrive, TokensExpire, NewIsNobody, ClonesWait,
     TimersAhead, Busy, Sessions
<1>6. /\ h \in Handshakes /\ restoring'[h] = sessions
      /\ restoring' \in [Handshakes -> Seq(Sessions)]
      /\ \A x \in Handshakes \ {h} : restoring'[x] = restoring[x]
  BY <1>1 DEF RestoresInTurn, Shape
<1>7. \A s \in Sessions : ~Busy(s, h)
  BY <1>1 DEF RestoresInTurn
<1>8. RestoresInTurn'
  BY <1>1, <1>2, <1>6, <1>7 DEF RestoresInTurn, Busy
<1>9. \A s \in Known : ToRestore(s)'
  BY <1>1, <1>2, <1>6 DEF Known, ToRestore
<1>10. Agreement' /\ SomebodyRenews'
  BY <1>2, <1>3, <1>4, <1>9 DEF Agreement, Agrees, Missing, SomebodyRenews, Renewed
<1> QED BY <1>5, <1>8, <1>10

LEMMA RestoreInv == ASSUME Inv, NEW h \in Handshakes, Restore(h) PROVE Inv'
<1> DEFINE s == Head(restoring[h])
<1>1. restoring[h] # << >> /\ flight[s][h] = Idle /\ UNCHANGED <<now, orderVars>>
  BY DEF Restore
<1>2. CASE s \in Known
  <2>1. /\ Proceed(s, h, 0)
        /\ UNCHANGED <<linkVars, access, timer, answer, cloning, server, doubtVars>>
    BY <1>2 DEF Restore, tokenVars, serverVars
  <2>2. h \in Makers /\ h # "clone" /\ InTurn(s, h)
    BY <1>1, MakersKnown DEF InTurn
  <2>3. s \in created \cup {Root} /\ s \in Sessions
    BY <1>2, KnownIsSession DEF Inv, Shape
  <2>4. answer[s][h] = NoAnswer
    BY <1>1, <2>2, <2>3 DEF Inv, AnswersArrive, Busy, Idle, Request
  <2> HIDE DEF s
  <2> QED BY <1>1, <2>1, <2>2, <2>3, <2>4, ProceedInv
<1>3. CASE s \notin Known
  <2>1. Over
    BY <1>3 DEF Restore
  <2> QED BY <1>1, <2>1, OverInv DEF orderVars
<1> QED BY <1>2, <1>3

LEMMA CloneInv == ASSUME Inv, NEW f \in Forks, Clone(f) PROVE Inv'
<1>1. /\ f \in cloning /\ cloning' = cloning \ {f} /\ Proceed(f, "clone", 0)
      /\ UNCHANGED <<now, linkVars, access, timer, answer, server, doubtVars, orderVars>>
  BY DEF Clone, tokenVars, serverVars
<1>2. f \in created /\ f \in Sessions /\ ~Busy(f, "clone")
  BY <1>1 DEF Inv, ClonesWait, Shape, Sessions
<1>3. answer[f]["clone"] = NoAnswer /\ InTurn(f, "clone") /\ "clone" \in Makers
  BY <1>2, MakersKnown DEF Inv, AnswersArrive, InTurn
<1> QED BY <1>1, <1>2, <1>3, ProceedInv

-----------------------------------------------------------------------------
(* The application.                                                        *)

LEMMA CallInv ==
  ASSUME Inv, NEW s \in Known, NEW request, Call(s, request), request.do # "reuse"
  PROVE  Inv'
<1> USE DEF Inv
<1>1. /\ flight[s]["app"] = Idle /\ flight' = [flight EXCEPT ![s]["app"] = request]
      /\ UNCHANGED <<now, linkVars, access, timer, answer, restoring, cloning, server, doubtVars, orderVars>>
  BY DEF Call, MayCall, tokenVars, serverVars
<1>2. s \in Sessions /\ s \in created \cup {Root} /\ Known' = Known /\ Known \subseteq Sessions
  BY <1>1, KnownIsSession DEF Known, linkVars, Shape
<1>3. /\ DOMAIN flight' = Sessions /\ flight'[s]["app"] = request
      /\ \A x \in Sessions : DOMAIN flight'[x] = Makers
      /\ \A x \in Sessions, n \in Makers : x # s \/ n # "app" => flight'[x][n] = flight[x][n]
  BY <1>1, <1>2, MakersKnown DEF Places
<1>4. ~Busy(s, "app")
      /\ \A x \in Sessions, n \in Makers : x # s \/ n # "app" => Busy(x, n)' = Busy(x, n)
  BY <1>1, <1>3 DEF Busy, Idle, Request
<1>5. Shape' /\ Places' /\ TimersAhead'
  BY <1>1, <1>2, <1>3 DEF Shape, Places, TimersAhead, linkVars, orderVars
<1>6. RestoresInTurn' /\ ClonesWait'
  BY <1>1, <1>2, <1>4, MakersKnown DEF RestoresInTurn, ClonesWait, Shape, Sessions, linkVars
<1>7. AnswersArrive' /\ TokensExpire'
  BY <1>1, <1>2, <1>3, <1>4 DEF AnswersArrive, TokensExpire
<1>8. NewIsNobody'
  <2>1. \A f \in Forks \ created : f # s /\ f \in Sessions
    BY <1>2, AuthAssumption DEF Sessions
  <2> QED BY <1>1, <1>4, <2>1 DEF NewIsNobody, linkVars
<1>9. \A x \in Sessions : Missing(x)' = Missing(x)
  BY <1>1, <1>4, MakersKnown DEF Missing, ToRestore, linkVars, doubtVars
<1>10. Agreement'
  BY <1>1, <1>2, <1>9, StillAgrees DEF Agreement, orderVars
<1>11. SomebodyRenews'
  BY <1>1, <1>2, <1>4, MakersKnown
     DEF SomebodyRenews, Renewed, ToRestore, linkVars, doubtVars
<1> QED BY <1>5, <1>6, <1>7, <1>8, <1>10, <1>11

LEMMA RevokeInv == ASSUME Inv, NEW s \in Known, Revoke(s) PROVE Inv'
<1>1. UNCHANGED <<now, linkVars, tokenVars, requestVars, server, doubtVars, orderVars>>
  BY DEF Revoke
<1>2. Known' = Known
  BY <1>1 DEF Known, linkVars
<1>3. /\ Shape' /\ Places' /\ RestoresInTurn' /\ AnswersArrive' /\ TokensExpire'
      /\ NewIsNobody' /\ ClonesWait' /\ TimersAhead'
  BY <1>1, <1>2 DEF Inv, Shape, Places, RestoresInTurn, AnswersArrive, TokensExpire, NewIsNobody,
     ClonesWait, TimersAhead, Busy, linkVars, tokenVars, requestVars, orderVars
<1>4. Agreement' /\ SomebodyRenews'
  BY <1>1, <1>2 DEF Inv, Agreement, Agrees, Missing, SomebodyRenews, Renewed, ToRestore, Busy,
     Pending, linkVars, tokenVars, requestVars, doubtVars, orderVars
<1> QED BY <1>3, <1>4 DEF Inv

LEMMA ForkInv == ASSUME Inv, NEW f \in Forks, Fork(f) PROVE Inv'
<1> USE DEF Inv
<1>1. /\ f \notin created /\ created' = created \cup {f}
      /\ sessions' = Append(sessions, f)
      /\ access' = [access EXCEPT ![f] = access[Root]]
      /\ cloning' = cloning \cup {f}
      /\ UNCHANGED <<now, current, spare, timer, flight, answer, restoring, server, doubtVars, orderVars>>
  BY DEF Fork, serverVars
<1>2. f \in Sessions /\ Root \in Sessions /\ f \notin Known /\ Known \subseteq Sessions
  BY <1>1, AuthAssumption, KnownIsSession DEF Shape, Sessions
<1>3. /\ sessions' \in Seq(Sessions) /\ Known' = Known \cup {f}
      /\ \A i, j \in DOMAIN sessions' : sessions'[i] = sessions'[j] => i = j
  <2>1. /\ sessions' \in Seq(Sessions) /\ Len(sessions) \in Nat
        /\ DOMAIN sessions = 1..Len(sessions) /\ DOMAIN sessions' = 1..(Len(sessions) + 1)
        /\ \A i \in 1..Len(sessions) : sessions'[i] = sessions[i]
        /\ sessions'[Len(sessions) + 1] = f
    BY <1>1, <1>2 DEF Shape
  <2>2. \A i \in DOMAIN sessions : sessions[i] \in Known
    BY DEF Known
  <2>3. Known' = Known \cup {f}
    BY <2>1 DEF Known
  <2> QED BY <1>2, <2>1, <2>2, <2>3 DEF Shape
<1>4. /\ DOMAIN access' = Sessions /\ access'[f] = access[Root]
      /\ \A x \in Sessions \ {f} : access'[x] = access[x]
  BY <1>1, <1>2 DEF Shape
<1>5. server[f] = None /\ \A m \in Makers : ~Busy(f, m) /\ answer[f][m] = NoAnswer
  BY <1>1, <1>2 DEF NewIsNobody, AnswersArrive
<1>6. Shape' /\ Places' /\ RestoresInTurn' /\ AnswersArrive' /\ TimersAhead'
  BY <1>1, <1>2, <1>3, <1>4
     DEF Shape, Places, RestoresInTurn, AnswersArrive, TimersAhead, Busy, orderVars
<1>7. TokensExpire' /\ NewIsNobody' /\ ClonesWait'
  BY <1>1, <1>2, <1>4, <1>5, MakersKnown DEF TokensExpire, NewIsNobody, ClonesWait, Busy
<1>8. \A x \in Sessions : Missing(x) => Missing(x)'
  BY <1>1 DEF Missing, ToRestore, Busy, doubtVars
<1>9. Agreement'
  <2> SUFFICES ASSUME NEW x \in Known \cup {f}, x \notin overtaken PROVE Agrees(x)'
    BY <1>1, <1>3 DEF Agreement, orderVars
  <2>1. CASE x = f
    BY <2>1, <1>1, <1>5 DEF Agrees, Missing, Pending
  <2>2. CASE x # f
    BY <2>2, <1>1, <1>2, <1>4, <1>8, StillAgrees DEF Agreement, orderVars
  <2> QED BY <2>1, <2>2
<1>10. SomebodyRenews'
  <2> SUFFICES ASSUME NEW x \in Known \cup {f}, access'[x] # None, access'[x].exp # Never
               PROVE  Renewed(x)'
    BY <1>3 DEF SomebodyRenews
  <2>1. CASE x = f
    BY <2>1, <1>1 DEF Renewed
  <2>2. CASE x # f
    <3>1. Renewed(x) /\ access'[x] = access[x]
      BY <2>2, <1>2, <1>4 DEF SomebodyRenews
    <3> QED BY <3>1, <1>1, StillRenewed DEF ToRestore, Busy, doubtVars
  <2> QED BY <2>1, <2>2
<1> QED BY <1>6, <1>7, <1>9, <1>10

\* One element is taken out of a sequence without repetitions.
Distinct(q, n) == \A i, j \in 1..n : q[i] = q[j] => i = j

Without(rest, q, n, k) ==
  \A i \in 1..(n - 1) : rest[i] = IF i < k THEN q[i] ELSE q[i + 1]

Elements(q, n) == {q[i] : i \in 1..n}

\* a is the first n elements of q from d on.
Copies(a, q, d, n) == Len(a) = n /\ \A i \in 1..n : a[i] = q[d + i]

LEMMA RemovalPoints ==
  ASSUME NEW S, NEW q, NEW n \in Nat, NEW k \in 1..n, NEW a \in Seq(S), NEW b \in Seq(S),
         Copies(a, q, 0, k - 1), Copies(b, q, k, n - k)
  PROVE  a \o b \in Seq(S) /\ Len(a \o b) = n - 1 /\ Without(a \o b, q, n, k)
<1> USE DEF Copies
<1>1. PICK rest : rest = a \o b
  OBVIOUS
<1>2. rest \in Seq(S) /\ Len(rest) = Len(a) + Len(b)
      /\ \A i \in 1..(Len(a) + Len(b)) :
           rest[i] = IF i <= Len(a) THEN a[i] ELSE b[i - Len(a)]
  BY <1>1, ConcatProperties
<1>3. ASSUME NEW i \in 1..(n - 1) PROVE rest[i] = IF i < k THEN q[i] ELSE q[i + 1]
  <2>1. CASE i < k
    <3>1. i \in 1..(k - 1) /\ i \in 1..(Len(a) + Len(b)) /\ i <= Len(a)
      BY <2>1
    <3>2. rest[i] = a[i]
      BY <1>2, <3>1
    <3> QED BY <2>1, <3>1, <3>2
  <2>2. CASE ~(i < k)
    <3>1. i - (k - 1) \in 1..(n - k) /\ k + (i - (k - 1)) = i + 1
      BY <2>2
    <3>2. rest[i] = b[i - (k - 1)]
      BY <1>2, <2>2
    <3> QED BY <2>2, <3>1, <3>2
  <2> QED BY <2>1, <2>2
<1>4. Len(rest) = n - 1
  BY <1>2 DEF Copies
<1>5. Without(rest, q, n, k)
  BY <1>3 DEF Without
<1> QED BY <1>1, <1>2, <1>4, <1>5

LEMMA RemovalHolds ==
  ASSUME NEW S, NEW q \in Seq(S), NEW n \in Nat, n = Len(q), NEW k \in 1..n
  PROVE  LET rest == SubSeq(q, 1, k - 1) \o SubSeq(q, k + 1, n)
         IN rest \in Seq(S) /\ Len(rest) = n - 1 /\ Without(rest, q, n, k)
<1>1. \A i \in 1..n : q[i] \in S
  BY ElementOfSeq
<1>2. PICK a : a = SubSeq(q, 1, k - 1)
  OBVIOUS
<1>3. PICK b : b = SubSeq(q, k + 1, n)
  OBVIOUS
<1>4. a \in Seq(S) /\ Copies(a, q, 0, k - 1)
  BY <1>1, <1>2, SubSeqProperties DEF Copies
<1>5. b \in Seq(S) /\ Copies(b, q, k, n - k)
  BY <1>1, <1>3, SubSeqProperties DEF Copies
<1>6. a \o b \in Seq(S) /\ Len(a \o b) = n - 1 /\ Without(a \o b, q, n, k)
  BY <1>4, <1>5, RemovalPoints
<1> QED BY <1>2, <1>3, <1>6, Zenon

LEMMA RemovalKeeps ==
  ASSUME NEW q, NEW rest, NEW n \in Nat, NEW k \in 1..n, Distinct(q, n), Without(rest, q, n, k)
  PROVE  Distinct(rest, n - 1) /\ Elements(rest, n - 1) = Elements(q, n) \ {q[k]}
<1> USE DEF Distinct, Without
<1>1. Distinct(rest, n - 1)
  OBVIOUS
<1>2. ASSUME NEW j \in 1..(n - 1) PROVE \E i \in 1..n : i # k /\ rest[j] = q[i]
  OBVIOUS
<1>3. ASSUME NEW i \in 1..n, i # k PROVE \E j \in 1..(n - 1) : rest[j] = q[i]
  <2>1. CASE i < k
    <3>1. i \in 1..(n - 1) /\ rest[i] = q[i]
      BY <2>1
    <3> QED BY <3>1
  <2>2. CASE i > k
    <3>1. i - 1 \in 1..(n - 1) /\ rest[i - 1] = q[i]
      BY <2>2
    <3> QED BY <3>1
  <2> QED BY <1>3, <2>1, <2>2
<1> QED BY <1>1, <1>2, <1>3 DEF Elements

LEMMA DestroyInv == ASSUME Inv, NEW f \in Forks, Destroy(f) PROVE Inv'
<1> USE DEF Inv
<1>1. /\ access' = [access EXCEPT ![f] = None] /\ server' = [server EXCEPT ![f] = None]
      /\ UNCHANGED <<now, created, current, spare, timer, requestVars, doubtVars, orderVars>>
  BY DEF Destroy
<1>2. PICK k \in DOMAIN sessions :
        /\ sessions[k] = f
        /\ sessions' = SubSeq(sessions, 1, k - 1) \o SubSeq(sessions, k + 1, Len(sessions))
  BY DEF Destroy
<1>3. f \in Sessions /\ Known \subseteq Sessions
  BY KnownIsSession DEF Sessions
<1>4. /\ sessions' \in Seq(Sessions) /\ Known' = Known \ {f}
      /\ \A i, j \in DOMAIN sessions' : sessions'[i] = sessions'[j] => i = j
  <2>1. PICK n \in Nat : n = Len(sessions) /\ DOMAIN sessions = 1..n /\ k \in 1..n
    BY LenProperties DEF Shape
  <2>2. k \in 1..n /\ sessions[k] = f /\ sessions \in Seq(Sessions)
        /\ sessions' = SubSeq(sessions, 1, k - 1) \o SubSeq(sessions, k + 1, n)
    BY <1>2, <2>1 DEF Shape
  <2>3. sessions' \in Seq(Sessions) /\ Len(sessions') = n - 1
    BY <2>1, <2>2, RemovalHolds
  <2>4. Without(sessions', sessions, n, k)
    BY <2>1, <2>2, RemovalHolds
  <2>5. DOMAIN sessions' = 1..(n - 1)
    BY <2>3, LenProperties
  <2>6. Distinct(sessions, n)
    BY <2>1 DEF Distinct, Shape
  <2>7. k \in 1..n /\ sessions[k] = f
    BY <2>2
  <2>8. Distinct(sessions', n - 1) /\ Elements(sessions', n - 1) = Elements(sessions, n) \ {f}
    BY <2>4, <2>6, <2>7, RemovalKeeps
  <2>9. Known' = Known \ {f}
    BY <2>1, <2>5, <2>8 DEF Known, Elements
  <2> QED BY <2>3, <2>5, <2>8, <2>9 DEF Distinct
<1>5. /\ DOMAIN server' = Sessions /\ server'[f] = None
      /\ DOMAIN access' = Sessions /\ access'[f] = None
      /\ \A x \in Sessions \ {f} : server'[x] = server[x] /\ access'[x] = access[x]
  BY <1>1, <1>3 DEF Shape
<1>6. \A x \in Sessions : Missing(x)' = Missing(x)
  BY <1>1 DEF Missing, ToRestore, Busy, requestVars, doubtVars
<1>7. Shape' /\ Places' /\ RestoresInTurn' /\ AnswersArrive' /\ TimersAhead'
  BY <1>1, <1>3, <1>4, <1>5
     DEF Shape, Places, RestoresInTurn, AnswersArrive, TimersAhead, Busy, requestVars, orderVars
<1>8. TokensExpire' /\ NewIsNobody' /\ ClonesWait'
  BY <1>1, <1>3, <1>5 DEF TokensExpire, NewIsNobody, ClonesWait, Busy, requestVars, Sessions
<1>9. Agreement'
  BY <1>1, <1>3, <1>4, <1>5, <1>6, StillAgrees DEF Agreement, requestVars, orderVars
<1>10. SomebodyRenews'
  BY <1>1, <1>3, <1>4, <1>5
     DEF SomebodyRenews, Renewed, ToRestore, Busy, requestVars, doubtVars
<1> QED BY <1>7, <1>8, <1>9, <1>10

LEMMA UserInv == ASSUME Inv, User PROVE Inv'
<1>1. CASE \E s \in Known : Authenticate(s) \/ Invalidate(s)
  <2>1. PICK s \in Known, do \in {"signin", "authenticate", "invalidate"}, what \in Users \cup {None} :
          Call(s, Request(do, what))
    BY <1>1, AuthAssumption DEF Authenticate, Invalidate
  <2>2. Request(do, what).do # "reuse"
    BY DEF Request
  <2> QED BY <2>1, <2>2, CallInv
<1>2. CASE \E s \in Known : Revoke(s)
  BY <1>2, RevokeInv
<1>3. CASE \E f \in Forks : Fork(f) \/ Destroy(f)
  BY <1>3, ForkInv, DestroyInv
<1> QED BY <1>1, <1>2, <1>3 DEF User

LEMMA ReceiveInv == ASSUME Inv, Receive PROVE Inv'
<1>1. PICK s \in Known, m \in Makers : Take(s, m)
  BY DEF Receive
<1>2. UNCHANGED <<now, linkVars, cloning, server>>
  BY DEF Receive, serverVars
<1> QED BY <1>1, <1>2, TakeInv

LEMMA NextInv == ASSUME Inv, [Next]_vars PROVE Inv'
<1>1. CASE Next
  BY <1>1, ExecuteInv, ReceiveInv, RefuseInv, RefuseProviderInv, TickInv, LoseInv, UserInv,
     FireInv, RestoreInv, CloneInv DEF Next
<1>2. CASE UNCHANGED vars
  BY <1>2 DEF vars, Inv, Shape, Places, RestoresInTurn, AnswersArrive, TokensExpire, NewIsNobody,
     ClonesWait, Agreement, Agrees, Missing, TimersAhead, SomebodyRenews, Renewed, ToRestore,
     Busy, Pending, Known, linkVars, tokenVars, requestVars, serverVars, doubtVars, orderVars
<1> QED BY <1>1, <1>2

LEMMA InitInv == ASSUME Init PROVE Inv
<1>1. Root \in Sessions /\ Known = {Root} /\ sessions \in Seq(Sessions)
      /\ DOMAIN sessions = {1} /\ sessions[1] = Root
  BY DEF Init, Known, Sessions
<1>2. \A s \in Sessions, m \in Makers :
        flight[s][m].do = "nothing" /\ answer[s][m] = NoAnswer /\ ~Busy(s, m)
  BY DEF Init, Idle, Request, Busy
<1>3. Shape /\ Places
  BY <1>1, AuthAssumption DEF Init, Shape, Places
<1>4. RestoresInTurn
  <2>1. /\ First \in Handshakes /\ current = First /\ spare = Handshakes \ {First}
        /\ restoring = [h \in Handshakes |-> IF h = First THEN <<Root>> ELSE << >>]
    BY AuthAssumption DEF Init
  <2>2. restoring \in [Handshakes -> Seq(Sessions)]
    BY <1>1, <2>1
  <2> QED BY <1>2, <2>1, <2>2, MakersKnown DEF RestoresInTurn
<1>5. AnswersArrive /\ TokensExpire /\ NewIsNobody /\ ClonesWait /\ TimersAhead
  BY <1>2 DEF Init, AnswersArrive, TokensExpire, NewIsNobody, ClonesWait, TimersAhead, Sessions
<1>6. Agreement /\ SomebodyRenews
  BY <1>1, <1>2 DEF Init, Agreement, Agrees, Pending, SomebodyRenews
<1> QED BY <1>3, <1>4, <1>5, <1>6 DEF Inv

LEMMA Invariance == Spec => []Inv
<1>1. Init => Inv
  BY InitInv
<1>2. Inv /\ [Next]_vars => Inv'
  BY NextInv
<1> QED BY <1>1, <1>2, PTL DEF Spec

-----------------------------------------------------------------------------
(* Renewal and agreement.                                                  *)

LEMMA SettledIsIdle ==
  ASSUME NEW s, Settled(s)
  PROVE  s \in Known /\ ~ToRestore(s) /\ s \notin cloning /\ \A m \in Makers : ~Busy(s, m)
BY DEF Settled, Handshaking, UnderWay, ToRestore, Busy, Idle, Request

\* A session that rests with a token that expires has a timer, which fires
\* before the token has expired, unless the provider's signin failed: what
\* #handleAuthChanged() schedules is never lost (index.ts:565).
THEOREM RenewsInTime == Spec => []RenewedInTime
<1>1. Inv => RenewedInTime
  <2> SUFFICES ASSUME Inv, NEW s \in Sessions, Settled(s), s \notin refused,
                      access[s] # None, access[s].exp # Never
               PROVE  timer[s] # None /\ timer[s] <= access[s].exp /\ now <= access[s].exp
    BY DEF RenewedInTime
  <2>1. timer[s] # None /\ timer[s] <= access[s].exp
    BY SettledIsIdle, MakersKnown DEF Inv, SomebodyRenews, Renewed
  <2> QED BY <2>1 DEF Inv, TimersAhead, TokensExpire, Shape
<1> QED BY <1>1, Invariance, PTL

(* A session that rests has on the server the token the client shows, for  *)
(* any number of sessions, connections lost at any moment, also in the     *)
(* middle of a restore, renewals, clones and calls of any application,     *)
(* patient or not (index.ts:658-753).  Excepted are, and only are, a clone *)
(* whose createSession() was rejected because the provider's signin failed *)
(* (527, 669), and a session whose answers arrived in another order than   *)
(* the server executed the requests, until the server has executed one     *)
(* that it makes alone.                                                    *)
THEOREM ServersAgree == Spec => []ServerAgrees
<1>1. Inv => ServerAgrees
  <2> SUFFICES ASSUME Inv, NEW s \in Sessions, Settled(s), s \notin orphans \cup overtaken
               PROVE  server[s] = access[s]
    BY DEF ServerAgrees
  <2>1. s \in Known /\ ~Missing(s) /\ \A m \in Makers : ~Busy(s, m)
    BY SettledIsIdle, MakersKnown DEF Missing
  <2>2. Agrees(s) /\ Pending(s) = {}
    BY <2>1 DEF Inv, Agreement, AnswersArrive, Pending
  <2> QED BY <2>1, <2>2 DEF Agrees
<1> QED BY <1>1, Invariance, PTL

-----------------------------------------------------------------------------
(* The timer of a session fires once in a second, if it can wait as long   *)
(* as a token lives.                                                       *)

LifetimesFit == Lifetimes \subseteq 0..MaxDelay

Fits(exp) == exp = Never \/ exp <= now + MaxDelay

RequestsFit ==
  \A s \in Sessions, m \in Makers : flight[s][m].do = "reuse" => Fits(flight[s][m].what.exp)

AnswersFit ==
  \A s \in Sessions, m \in Makers :
    answer[s][m] # NoAnswer /\ answer[s][m].token # None => Fits(answer[s][m].token.exp)

TokensFit ==
  /\ \A s \in Sessions : access[s] # None => Fits(access[s].exp)
  /\ RequestsFit /\ AnswersFit

\* A timer that has fired is set to a later second.
FiredThenWaits ==
  /\ DOMAIN fired = Sessions
  /\ \A s \in Sessions : fired[s] = 0 \/ (fired[s] = 1 /\ (timer[s] = None \/ timer[s] > now))

OnceInv == Inv /\ TokensFit /\ FiredThenWaits

\* A step that leaves the clock and the tokens that are under way, or makes
\* them those of the client.
LEMMA RequestFits ==
  ASSUME OnceInv, NEW s \in Sessions, NEW m \in Makers, Moved(s, m), now' = now
  PROVE  RequestsFit'
BY DEF Moved, OnceInv, TokensFit, RequestsFit, Fits

LEMMA ExecuteOnce == ASSUME LifetimesFit, OnceInv, Execute PROVE TokensFit' /\ FiredThenWaits'
<1>1. Inv
  BY DEF OnceInv
<1>0. PICK s \in Known, m \in Makers : \E token, grant :
         /\ Busy(s, m) /\ answer[s][m] = NoAnswer /\ Good(token) /\ Serve(s, m, token, grant)
         /\ token # None /\ flight[s][m].do # "reuse" =>
              \E life \in Lifetimes : token.exp = Token(None, life).exp
         /\ flight[s][m].do = "reuse" => token = flight[s][m].what
  BY <1>1, ExecuteServes
<1>2. PICK token, grant :
         /\ Busy(s, m) /\ answer[s][m] = NoAnswer /\ Good(token) /\ Serve(s, m, token, grant)
         /\ token # None /\ flight[s][m].do # "reuse" =>
              \E life \in Lifetimes : token.exp = Token(None, life).exp
         /\ flight[s][m].do = "reuse" => token = flight[s][m].what
  BY <1>0
<1>3. UNCHANGED <<now, fired, access, timer, flight>>
  BY DEF Execute, tokenVars
<1>4. s \in Sessions
  BY <1>1, KnownIsSession DEF Inv
<1>5. ASSUME token # None
      PROVE  Fits(token.exp)
  <2>1. ASSUME NEW life \in Lifetimes, token.exp = Token(None, life).exp
        PROVE  Fits(token.exp)
    <3>1. token.exp = IF life = 0 THEN Never ELSE now + life
      BY <2>1 DEF Token
    <3>2. life \in Nat /\ life <= MaxDelay /\ now \in Nat /\ MaxDelay \in Nat
      BY <1>1, AuthAssumption DEF LifetimesFit, Inv, Shape
    <3> QED BY <3>1, <3>2 DEF Fits
  <2> QED BY <1>2, <1>4, <1>5, <2>1 DEF OnceInv, TokensFit, RequestsFit
<1> DEFINE given == [token |-> token, grant |-> grant]
<1>6. given.token = token
  OBVIOUS
<1> HIDE DEF given
<1>7. /\ answer'[s][m] = given
      /\ \A x \in Sessions, n \in Makers : x # s \/ n # m => answer'[x][n] = answer[x][n]
  BY <1>1, <1>2, <1>4 DEF Serve, Inv, Places, given
<1>8. AnswersFit'
  BY <1>3, <1>5, <1>6, <1>7 DEF OnceInv, TokensFit, AnswersFit, Fits
<1> QED BY <1>3, <1>8 DEF OnceInv, TokensFit, RequestsFit, FiredThenWaits, Fits

LEMMA ReceiveOnce == ASSUME OnceInv, Receive PROVE TokensFit' /\ FiredThenWaits'
<1> USE DEF OnceInv
<1>1. PICK s \in Known, m \in Makers : Take(s, m)
  BY DEF Receive
<1> DEFINE token == answer[s][m].token
<1>2. s \in Sessions /\ UNCHANGED <<now, fired>>
  BY KnownIsSession DEF Inv, Receive
<1>3. /\ m \in Pending(s) /\ Done(s, m)
      /\ access' = [access EXCEPT ![s] = token]
      /\ timer' = [timer EXCEPT ![s] = IF token = None THEN None ELSE Schedule(token)]
      /\ answer' = [answer EXCEPT ![s][m] = NoAnswer]
  BY <1>1 DEF Take
<1>4. token # None => token.exp \in Nat /\ token.exp > now /\ Fits(token.exp)
  BY <1>2, <1>3 DEF Pending, Inv, AnswersArrive, TokensFit, AnswersFit
<1> HIDE DEF token
<1>5. /\ access'[s] = token /\ timer'[s] = IF token = None THEN None ELSE Schedule(token)
      /\ \A x \in Sessions \ {s} : access'[x] = access[x] /\ timer'[x] = timer[x]
      /\ answer'[s][m] = NoAnswer
      /\ \A x \in Sessions, n \in Makers : x # s \/ n # m => answer'[x][n] = answer[x][n]
  BY <1>2, <1>3 DEF Inv, Shape, Places
<1>6. RequestsFit'
  BY <1>2, <1>3, DoneMoves, RequestFits DEF Inv
<1>7. AnswersFit' /\ \A x \in Sessions : access'[x] # None => Fits(access'[x].exp)
  BY <1>2, <1>4, <1>5 DEF TokensFit, AnswersFit, Fits
<1>8. timer'[s] = None \/ timer'[s] > now
  <2>1. CASE token = None
    BY <1>5, <2>1
  <2>2. CASE token # None /\ token.exp = Never
    BY <1>5, <2>2 DEF Schedule
  <2>3. CASE token # None /\ token.exp # Never
    <3>1. now \in Nat /\ token.exp <= now + MaxDelay
      BY <1>4, <2>3 DEF Fits, Inv, Shape
    <3> QED BY <1>4, <1>5, <2>3, <3>1, ScheduleBounds
  <2> QED BY <2>1, <2>2, <2>3
<1>9. FiredThenWaits'
  BY <1>2, <1>5, <1>8 DEF FiredThenWaits
<1> QED BY <1>2, <1>6, <1>7, <1>9 DEF TokensFit, Fits

\* A step that schedules nothing.
LEMMA NotScheduled ==
  ASSUME OnceInv, UNCHANGED <<now, fired>>, RequestsFit',
         \A x \in Sessions : access'[x] = access[x] \/ access'[x] = None \/ access'[x] = access[Root],
         \A x \in Sessions : timer'[x] = timer[x] \/ timer'[x] = None,
         \A x \in Sessions, n \in Makers : answer'[x][n] = answer[x][n] \/ answer'[x][n] = NoAnswer
  PROVE  TokensFit' /\ FiredThenWaits'
<1>1. Root \in Sessions
  BY DEF Sessions
<1>2. AnswersFit'
  BY DEF OnceInv, TokensFit, AnswersFit, Fits
<1>3. TokensFit'
  BY <1>1, <1>2 DEF OnceInv, TokensFit, Fits
<1>4. FiredThenWaits'
  BY DEF OnceInv, FiredThenWaits
<1> QED BY <1>3, <1>4

\* The next request, or the end, of one.
LEMMA MovesOnce ==
  ASSUME OnceInv, UNCHANGED <<now, fired, access, timer, answer>>,
         NEW s \in Sessions, NEW m \in Makers, Done(s, m) \/ \E stage \in 0..3 : Proceed(s, m, stage)
  PROVE  TokensFit' /\ FiredThenWaits'
<1>1. Moved(s, m)
  BY DoneMoves, ProceedMoves DEF OnceInv, Inv
<1> QED BY <1>1, RequestFits, NotScheduled

LEMMA OverOnce == ASSUME OnceInv, Over, UNCHANGED <<now, fired>> PROVE TokensFit' /\ FiredThenWaits'
<1>1. \A s \in Sessions, m \in Makers : flight'[s][m].do = "nothing" /\ answer'[s][m] = NoAnswer
  BY DEF Over, Idle, Request
<1>2. \A s \in Sessions : access'[s] = None /\ (timer'[s] = timer[s] \/ timer'[s] = None)
  BY DEF Over
<1>3. RequestsFit'
  BY <1>1 DEF RequestsFit
<1> QED BY <1>1, <1>2, <1>3, NotScheduled

LEMMA RefusedOnce == ASSUME OnceInv, Refuse \/ RefuseProvider PROVE TokensFit' /\ FiredThenWaits'
<1>1. Known \subseteq Sessions
  BY KnownIsSession DEF OnceInv, Inv
<1>2. CASE Refuse
  <2>1. PICK s \in Known, m \in Makers : RefuseReuse(s, m) \/ RefuseRefresh(s, m) \/ DeclineProvider(s, m)
    BY <1>2 DEF Refuse
  <2>2. \E stage \in 0..3 : Proceed(s, m, stage)
    BY <2>1 DEF RefuseReuse, RefuseRefresh, DeclineProvider, StageAfter
  <2> QED BY <1>1, <1>2, <2>2, MovesOnce DEF Refuse, tokenVars
<1>3. CASE RefuseProvider
  <2>1. PICK s \in Known, m \in Makers : IF m \in Handshakes THEN Over ELSE GiveUp(s, m)
    BY <1>3 DEF RefuseProvider
  <2>2. UNCHANGED <<now, fired>>
    BY <1>3 DEF RefuseProvider
  <2>3. CASE Over
    BY <2>2, <2>3, OverOnce
  <2>4. CASE GiveUp(s, m)
    BY <1>1, <2>2, <2>4, MovesOnce DEF GiveUp, tokenVars
  <2> QED BY <2>1, <2>3, <2>4
<1> QED BY <1>2, <1>3

LEMMA FireOnce == ASSUME OnceInv, NEW s \in Sessions, Fire(s) PROVE TokensFit' /\ FiredThenWaits'
<1>1. /\ fired' = [fired EXCEPT ![s] = @ + 1] /\ timer' = [timer EXCEPT ![s] = None]
      /\ UNCHANGED <<now, access, answer>> /\ timer[s] # None /\ timer[s] <= now
  BY DEF Fire, Due
<1>2. fired[s] = 0
  BY <1>1 DEF OnceInv, FiredThenWaits, Inv, TimersAhead, Shape
<1>3. FiredThenWaits'
  BY <1>1, <1>2 DEF OnceInv, FiredThenWaits, Inv, Shape
<1>4. RequestsFit'
  <2>1. CASE s \in Known
    <3>1. Proceed(s, "timer", 0) /\ "timer" \in Makers /\ 0 \in 0..3
      BY <2>1 DEF Fire, Makers
    <3> QED BY <1>1, <3>1, ProceedMoves, RequestFits DEF OnceInv, Inv
  <2>2. CASE s \notin Known
    BY <1>1, <2>2 DEF Fire, OnceInv, TokensFit, RequestsFit, Fits
  <2> QED BY <2>1, <2>2
<1>5. TokensFit'
  BY <1>1, <1>4 DEF OnceInv, TokensFit, AnswersFit, Fits
<1> QED BY <1>3, <1>5

LEMMA TickOnce == ASSUME OnceInv, Tick PROVE TokensFit' /\ FiredThenWaits'
<1>1. /\ now' = now + 1 /\ fired' = [s \in Sessions |-> 0] /\ now \in Nat
      /\ \A s \in Sessions : Pending(s) = {}
      /\ UNCHANGED <<access, flight, answer>>
  BY DEF Tick, tokenVars, requestVars, OnceInv, Inv, Shape
<1>2. \A exp \in Nat : Fits(exp) => Fits(exp)'
  BY <1>1, AuthAssumption DEF Fits, Never
<1>3. AnswersFit'
  BY <1>1 DEF AnswersFit, Pending
<1>4. RequestsFit'
  BY <1>1, <1>2 DEF OnceInv, Inv, TokensExpire, TokensFit, RequestsFit
<1>5. (\A s \in Sessions : access[s] # None => Fits(access[s].exp))'
  BY <1>1, <1>2 DEF OnceInv, Inv, TokensExpire, TokensFit
<1> QED BY <1>1, <1>3, <1>4, <1>5 DEF TokensFit, FiredThenWaits

LEMMA LoseOnce == ASSUME OnceInv, Lose PROVE TokensFit' /\ FiredThenWaits'
<1>1. /\ UNCHANGED <<now, fired, access, timer, flight>>
      /\ \A s \in Sessions, m \in Makers : answer'[s][m] = NoAnswer
  BY DEF Lose, tokenVars
<1>2. RequestsFit'
  BY <1>1 DEF OnceInv, TokensFit, RequestsFit, Fits
<1> QED BY <1>1, <1>2, NotScheduled

LEMMA RestoreOnce == ASSUME OnceInv, NEW h \in Handshakes, Restore(h) PROVE TokensFit' /\ FiredThenWaits'
<1> DEFINE s == Head(restoring[h])
<1>1. UNCHANGED <<now, fired>>
  BY DEF Restore
<1>2. CASE s \in Known
  <2>1. Proceed(s, h, 0) /\ UNCHANGED <<access, timer, answer>>
    BY <1>2 DEF Restore, tokenVars
  <2>2. s \in Sessions /\ h \in Makers /\ 0 \in 0..3
    BY <1>2, KnownIsSession, MakersKnown DEF OnceInv, Inv
  <2> HIDE DEF s
  <2> QED BY <1>1, <2>1, <2>2, MovesOnce
<1>3. CASE s \notin Known
  <2>1. Over
    BY <1>3 DEF Restore
  <2> QED BY <1>1, <2>1, OverOnce
<1> QED BY <1>2, <1>3

LEMMA CloneOnce == ASSUME OnceInv, NEW f \in Forks, Clone(f) PROVE TokensFit' /\ FiredThenWaits'
<1>1. Proceed(f, "clone", 0) /\ UNCHANGED <<now, fired, access, timer, answer>>
  BY DEF Clone, tokenVars
<1>2. f \in Sessions /\ "clone" \in Makers /\ 0 \in 0..3
  BY MakersKnown DEF Sessions
<1> QED BY <1>1, <1>2, MovesOnce

LEMMA UserOnce == ASSUME OnceInv, User PROVE TokensFit' /\ FiredThenWaits'
<1>1. CASE \E s \in Known : Authenticate(s) \/ Invalidate(s)
  <2>1. PICK s \in Known, do \in {"signin", "authenticate", "invalidate"}, what \in Users \cup {None} :
          Call(s, Request(do, what))
    BY <1>1, AuthAssumption DEF Authenticate, Invalidate
  <2>2. UNCHANGED <<now, fired, access, timer, answer>>
        /\ flight' = [flight EXCEPT ![s]["app"] = Request(do, what)]
    BY <2>1 DEF Call, tokenVars
  <2>3. s \in Sessions /\ Request(do, what).do # "reuse"
    BY KnownIsSession DEF OnceInv, Inv, Request
  <2>4. \A x \in Sessions, n \in Makers :
          flight'[x][n] = flight[x][n] \/ flight'[x][n] = Request(do, what)
    BY <2>2, <2>3 DEF OnceInv, Inv, Places
  <2>5. RequestsFit'
    BY <2>2, <2>3, <2>4 DEF OnceInv, TokensFit, RequestsFit, Fits
  <2> QED BY <2>2, <2>5, NotScheduled
<1>2. CASE \E s \in Known : Revoke(s)
  <2>1. UNCHANGED <<now, fired, access, timer, flight, answer>>
    BY <1>2 DEF Revoke, tokenVars, requestVars
  <2>2. RequestsFit'
    BY <2>1 DEF OnceInv, TokensFit, RequestsFit, Fits
  <2> QED BY <2>1, <2>2, NotScheduled
<1>3. CASE \E f \in Forks : Fork(f) \/ Destroy(f)
  <2>1. UNCHANGED <<now, fired, timer, flight, answer>>
    BY <1>3 DEF Fork, Destroy, requestVars
  <2>2. \A x \in Sessions : access'[x] = access[x] \/ access'[x] = None \/ access'[x] = access[Root]
    BY <1>3 DEF Fork, Destroy, OnceInv, Inv, Shape
  <2>3. RequestsFit'
    BY <2>1 DEF OnceInv, TokensFit, RequestsFit, Fits
  <2> QED BY <2>1, <2>2, <2>3, NotScheduled
<1> QED BY <1>1, <1>2, <1>3 DEF User

\* The timer of a session fires at most once in a second, whatever the margin,
\* when no token lives longer than a timer can wait (index.ts:569).
THEOREM RenewsAtEase == ASSUME LifetimesFit PROVE Spec => []NoBusyRenewal
<1>1. Init => OnceInv
  <2> SUFFICES ASSUME Init PROVE OnceInv
    OBVIOUS
  <2>1. \A s \in Sessions, m \in Makers :
          flight[s][m].do = "nothing" /\ access[s] = None /\ answer[s][m] = NoAnswer
    BY DEF Init, Idle, Request
  <2>2. TokensFit /\ FiredThenWaits
    BY <2>1, MakersKnown DEF Init, TokensFit, RequestsFit, AnswersFit, FiredThenWaits
  <2> QED BY <2>2, InitInv DEF OnceInv
<1>2. OnceInv /\ [Next]_vars => OnceInv'
  <2> SUFFICES ASSUME OnceInv, [Next]_vars PROVE TokensFit' /\ FiredThenWaits'
    BY NextInv DEF OnceInv
  <2>1. CASE Next
    BY <2>1, ExecuteOnce, ReceiveOnce, RefusedOnce, TickOnce, LoseOnce, UserOnce, FireOnce,
       RestoreOnce, CloneOnce DEF Next
  <2>2. CASE UNCHANGED vars
    BY <2>2 DEF vars, OnceInv, TokensFit, RequestsFit, AnswersFit, Fits, FiredThenWaits,
       tokenVars, requestVars
  <2> QED BY <2>1, <2>2
<1>3. OnceInv => NoBusyRenewal
  BY DEF OnceInv, FiredThenWaits, NoBusyRenewal
<1> QED BY <1>1, <1>2, <1>3, PTL DEF Spec

-----------------------------------------------------------------------------
(* Who a session is authenticated as.                                      *)

Others == Makers \ {"app"}

\* The application signs in, authenticates or invalidates; the others do the rest.
Proper(request, m) ==
  /\ request.do = "nothing" => request = Idle
  /\ m = "app" => request.do \in {"nothing", "signin", "authenticate", "invalidate"}
  /\ m = "app" /\ request.do = "invalidate" => request.what = None
  /\ m # "app" => request.do \notin {"signin", "authenticate"}

Requests == \A s \in Sessions, m \in Makers : Proper(flight[s][m], m)

\* Whose token an answer brings.
AnswerOf(s, m) ==
  LET request == flight[s][m]
      token   == answer[s][m].token
  IN \/ token = None \/ request.do = "provider"
     \/ request.do \in {"signin", "authenticate"} /\ token.who = request.what
     \/ request.do \in {"reuse", "refresh"} /\ token.who = request.what.who

Answers == \A s \in Sessions, m \in Makers : answer[s][m] # NoAnswer => AnswerOf(s, m)

Owners == DOMAIN refresh = Sessions /\ DOMAIN overriden = Sessions /\ DOMAIN chosen = Sessions

\* The provider is not asked for a session of which the application said who it is.
OverridesProvider == \A s \in Sessions : chosen[s] # None => overriden[s]

\* What the session has, and what is under way for it, is of whom was chosen.
OwnTokens(s) ==
  /\ access[s] = None \/ access[s].who = chosen[s]
  /\ refresh[s] = None \/ refresh[s].who = chosen[s]
  /\ \A m \in Others :
       /\ flight[s][m].do \in {"reuse", "refresh"} => flight[s][m].what.who = chosen[s]
       /\ flight[s][m].do # "provider"

\* A call that met nothing is alone, and what it leaves is its own.
Unraced ==
  \A s \in Sessions : ~raced[s] =>
    /\ Busy(s, "app") => \A m \in Others : ~Busy(s, m)
    /\ ~Busy(s, "app") /\ chosen[s] # None => OwnTokens(s)

ChosenInv == Inv /\ Requests /\ Answers /\ Owners /\ OverridesProvider /\ Unraced

\* How a step writes raced.
Races ==
  raced' = [s \in Sessions |->
     \/ Overlaps(s)
     \/ raced[s] /\ ~(flight[s]["app"] = Idle /\ flight'[s]["app"] # Idle)]

\* What m's request for s may be after a step.
Follows(s, m) ==
  \/ flight'[s][m].do = flight[s][m].do /\ flight'[s][m].what = flight[s][m].what
  \/ flight'[s][m].do \in {"nothing", "invalidate"}
  \/ flight'[s][m].do = "reuse" /\ access[s] # None /\ flight'[s][m].what = access[s]
  \/ flight'[s][m].do = "refresh" /\ refresh[s] # None /\ flight'[s][m].what = refresh[s]
  \/ flight'[s][m].do = "provider" /\ ~overriden[s]

\* Whose the tokens of s are after a step.
SameOwner(s) == chosen'[s] = chosen[s] /\ (overriden[s] => overriden'[s])

Owned(s) ==
  \/ SameOwner(s) /\ (access'[s] = access[s] \/ access'[s] = None)
  \/ SameOwner(s) /\ \E m \in Others :
       \/ flight[s][m].do \in {"reuse", "refresh"} /\ access'[s].who = flight[s][m].what.who
       \/ flight[s][m].do = "provider"
  \/ overriden'[s] /\ (access'[s] = None \/ access'[s].who = chosen'[s]) /\ Busy(s, "app")
  \/ chosen'[s] = None

\* A call of the application ends with what it chose.
CallEnds(s) ==
  Busy(s, "app") /\ ~Busy(s, "app")' =>
    \/ chosen'[s] = None
    \/ /\ access'[s] = None \/ access'[s].who = chosen'[s]
       /\ \A m \in Others : flight'[s][m].do = flight[s][m].do

LEMMA OwnedUnraced ==
  ASSUME ChosenInv, Races, Requests',
         NEW s \in Sessions, Owned(s), CallEnds(s), \A m \in Others : Follows(s, m),
         ~raced'[s]
  PROVE  /\ Busy(s, "app")' => \A m \in Others : ~Busy(s, m)'
         /\ ~Busy(s, "app")' /\ chosen'[s] # None => OwnTokens(s)'
<1> USE DEF ChosenInv
<1>1. "app" \in Makers /\ Others \subseteq Makers
  BY DEF Makers, Others
<1>2. ~Overlaps(s) /\ ~(raced[s] /\ ~(flight[s]["app"] = Idle /\ flight'[s]["app"] # Idle))
  BY DEF Races
<1>3. \A m \in Makers : (flight'[s][m] = Idle) <=> ~Busy(s, m)'
  <2>1. \A m \in Makers : Proper(flight'[s][m], m)
    BY DEF Requests
  <2>2. Idle.do = "nothing"
    BY DEF Idle, Request
  <2> QED BY <2>1, <2>2 DEF Proper, Busy
<1>4. Busy(s, "app")' => \A m \in Others : ~Busy(s, m)'
  BY <1>1, <1>2, <1>3 DEF Overlaps, Others
<1>5. ASSUME ~Busy(s, "app")', chosen'[s] # None
      PROVE  OwnTokens(s)'
  <2>1. ~raced[s]
    BY <1>1, <1>2, <1>3, <1>5
  <2>2. refresh'[s] = None \/ refresh'[s].who = chosen'[s]
    BY <1>2, <1>5 DEF Overlaps
  <2>3. CASE Busy(s, "app")
    <3>1. /\ access'[s] = None \/ access'[s].who = chosen'[s]
          /\ \A m \in Others : flight'[s][m].do = flight[s][m].do
      BY <1>5, <2>3 DEF CallEnds
    <3>2. \A m \in Others : flight[s][m].do = "nothing"
      BY <2>1, <2>3 DEF Unraced, Busy
    <3> QED BY <2>2, <3>1, <3>2 DEF OwnTokens
  <2>4. CASE ~Busy(s, "app")
    <3>1. SameOwner(s)
      BY <1>5, <2>4 DEF Owned
    <3>2. OwnTokens(s) /\ overriden[s]
      BY <1>5, <2>1, <2>4, <3>1 DEF Unraced, SameOwner, OverridesProvider
    <3>3. access'[s] = None \/ access'[s].who = chosen'[s]
      BY <1>5, <2>4, <3>1, <3>2 DEF Owned, SameOwner, OwnTokens
    <3>4. ASSUME NEW m \in Others
          PROVE  /\ flight'[s][m].do \in {"reuse", "refresh"} => flight'[s][m].what.who = chosen'[s]
                 /\ flight'[s][m].do # "provider"
      BY <3>1, <3>2 DEF Follows, SameOwner, OwnTokens
    <3> QED BY <2>2, <3>3, <3>4 DEF OwnTokens
  <2> QED BY <2>3, <2>4
<1> QED BY <1>4, <1>5

LEMMA OwnedKeeps ==
  ASSUME ChosenInv, Races, Requests', Owners',
         \A s \in Sessions : Owned(s) /\ CallEnds(s) /\ \A m \in Others : Follows(s, m)
  PROVE  OverridesProvider' /\ Unraced'
<1>1. OverridesProvider'
  BY DEF ChosenInv, OverridesProvider, Owned, SameOwner
<1>2. Unraced'
  BY OwnedUnraced DEF Unraced
<1> QED BY <1>1, <1>2

\* An answer that is on its way is to the same request as before.
AnswersStay ==
  \A s \in Sessions, m \in Makers :
    answer'[s][m] = NoAnswer \/ (answer'[s][m] = answer[s][m] /\ flight'[s][m] = flight[s][m])

LEMMA AnswersKeep == ASSUME Answers, AnswersStay PROVE Answers'
BY DEF Answers, AnswersStay, AnswerOf

\* The next request of a timer, of a clone or of a handshake.
LEMMA ProceedFollows ==
  ASSUME Places, Requests, NEW s \in Sessions, NEW m \in Others, NEW stage \in 0..3,
         Proceed(s, m, stage)
  PROVE  /\ Requests' /\ Follows(s, m)
         /\ \A x \in Sessions, n \in Makers : x # s \/ n # m => flight'[x][n] = flight[x][n]
<1> DEFINE do == NextRequest(s, stage)
           next == IF do = "nothing" THEN Idle ELSE Request(do, Carried(s, do))
<1>1. flight' = [flight EXCEPT ![s][m] = next]
  BY DEF Proceed
<1>2. next.do = do /\ (do = "nothing" => next = Idle)
      /\ (do = "reuse" => next.what = access[s]) /\ (do = "refresh" => next.what = refresh[s])
  BY DEF Idle, Request, Carried
<1>3. /\ do \in {"reuse", "refresh", "provider", "invalidate", "nothing"}
      /\ do = "reuse" => access[s] # None
      /\ do = "refresh" => refresh[s] # None
      /\ do = "provider" => ~overriden[s]
  BY DEF NextRequest, Reusable, AsksProvider
<1> HIDE DEF next, do
<1>4. m \in Makers /\ m # "app"
  BY DEF Others
<1>5. flight'[s][m] = next
      /\ \A x \in Sessions, n \in Makers : x # s \/ n # m => flight'[x][n] = flight[x][n]
  BY <1>1, <1>4 DEF Places
<1>6. Follows(s, m)
  BY <1>2, <1>3, <1>5 DEF Follows
<1>7. Proper(next, m)
  BY <1>2, <1>3, <1>4 DEF Proper
<1>8. Requests'
  BY <1>5, <1>7 DEF Requests
<1> QED BY <1>5, <1>6, <1>8

LEMMA DoneFollows ==
  ASSUME Places, Requests, NEW s \in Sessions, NEW m \in Makers, Done(s, m)
  PROVE  /\ Requests' /\ \A n \in Makers : Follows(s, n)
         /\ \A x \in Sessions, n \in Makers : x # s \/ n # m => flight'[x][n] = flight[x][n]
         /\ ~Busy(s, m)'
<1>1. /\ flight'[s][m] = Idle /\ flight'[s][m].do = "nothing"
      /\ \A x \in Sessions, n \in Makers : x # s \/ n # m => flight'[x][n] = flight[x][n]
  BY DoneMoves DEF Moved
<1>2. Proper(Idle, m)
  BY DEF Proper, Idle, Request
<1> QED BY <1>1, <1>2 DEF Requests, Follows, Busy

\* What is to be shown of a step.
Kept == Requests' /\ Answers' /\ Owners' /\ OverridesProvider' /\ Unraced'

\* A step that leaves the tokens and the owners alone, and what it asks.
LEMMA AsksOnly ==
  ASSUME ChosenInv, Races, NEW s \in Sessions, NEW m \in Others,
         Done(s, m) \/ \E stage \in 0..3 : Proceed(s, m, stage),
         answer[s][m] = NoAnswer, UNCHANGED <<access, refresh, overriden, chosen, answer>>
  PROVE  Kept
<1> USE DEF ChosenInv
<1>1. /\ Requests' /\ Follows(s, m)
      /\ \A x \in Sessions, n \in Makers : x # s \/ n # m => flight'[x][n] = flight[x][n]
  BY DoneFollows, ProceedFollows DEF Inv, Others
<1>2. Answers'
  BY <1>1, AnswersKeep DEF AnswersStay
<1>3. Owners' /\ \A x \in Sessions : Owned(x)
  BY DEF Owners, Owned, SameOwner
<1>4. \A x \in Sessions : \A n \in Others : Follows(x, n)
  BY <1>1 DEF Others, Follows
<1>5. \A x \in Sessions : CallEnds(x)
  BY <1>1 DEF CallEnds, Busy, Others, Makers
<1> QED BY <1>1, <1>2, <1>3, <1>4, <1>5, OwnedKeeps DEF Kept

\* A step that asks nothing, and leaves the owners alone.
LEMMA NothingAsked ==
  ASSUME ChosenInv, Races, UNCHANGED <<access, refresh, overriden, chosen, flight>>, Answers'
  PROVE  Kept
<1> USE DEF ChosenInv
<1>1. Requests'
  BY DEF Requests, Proper
<1>2. Owners' /\ \A s \in Sessions : Owned(s) /\ CallEnds(s) /\ \A m \in Others : Follows(s, m)
  BY DEF Owners, Owned, SameOwner, CallEnds, Busy, Follows, Others, Makers
<1> QED BY <1>1, <1>2, OwnedKeeps DEF Kept

LEMMA ExecuteOwned == ASSUME ChosenInv, Races, Execute PROVE Kept
<1> USE DEF ChosenInv
<1>1. PICK s \in Known, m \in Makers :
       \/ ServeSignin(s, m) \/ ServeAuthenticate(s, m) \/ ServeReuse(s, m)
       \/ ServeRefresh(s, m) \/ ServeProvider(s, m) \/ ServeInvalidate(s, m)
  BY DEF Execute
<1>2. UNCHANGED <<access, refresh, overriden, chosen, flight>> /\ s \in Sessions
  BY KnownIsSession DEF Execute, tokenVars, Inv
<1> DEFINE do   == flight[s][m].do
           what == flight[s][m].what
           Brings(token) ==
             \/ token = None \/ do = "provider"
             \/ do \in {"signin", "authenticate"} /\ token.who = what
             \/ do \in {"reuse", "refresh"} /\ token.who = what.who
<1>3. \A who : \A life : Token(who, life).who = who
  BY DEF Token
<1>4. ASSUME NEW who, NEW accepted, Issue(s, m, who, accepted)
      PROVE  \E life, grant : Serve(s, m, Token(who, life), grant)
  BY <1>4 DEF Issue
<1>5. \E token, grant : Serve(s, m, token, grant) /\ Brings(token)
  <2>1. CASE ServeSignin(s, m)
    <3>1. do = "signin" /\ Issue(s, m, what, grants)
      BY <2>1 DEF ServeSignin, Sent
    <3>2. PICK life, grant : Serve(s, m, Token(what, life), grant)
      BY <1>4, <3>1
    <3> QED BY <1>3, <3>1, <3>2
  <2>2. CASE ServeRefresh(s, m)
    <3>1. do = "refresh" /\ Issue(s, m, what.who, grants \ {what})
      BY <2>2 DEF ServeRefresh, Sent
    <3>2. PICK life, grant : Serve(s, m, Token(what.who, life), grant)
      BY <1>4, <3>1
    <3> QED BY <1>3, <3>1, <3>2
  <2>3. CASE ServeProvider(s, m)
    <3>1. do = "provider" /\ Issue(s, m, Provider, grants)
      BY <2>3 DEF ServeProvider, Sent
    <3>2. PICK life, grant : Serve(s, m, Token(Provider, life), grant)
      BY <1>4, <3>1
    <3> QED BY <3>1, <3>2
  <2>4. CASE ServeAuthenticate(s, m)
    <3>1. do = "authenticate" /\ \E life \in Lifetimes : Serve(s, m, Token(what, life), None)
      BY <2>4 DEF ServeAuthenticate, Sent
    <3> QED BY <1>3, <3>1
  <2>5. CASE ServeReuse(s, m)
    <3>1. do = "reuse" /\ Serve(s, m, what, None)
      BY <2>5 DEF ServeReuse, Sent
    <3> QED BY <3>1
  <2>6. CASE ServeInvalidate(s, m)
    BY <2>6 DEF ServeInvalidate
  <2> QED BY <1>1, <2>1, <2>2, <2>3, <2>4, <2>5, <2>6
<1>6. PICK token, grant : Serve(s, m, token, grant) /\ Brings(token)
  BY <1>5
<1> DEFINE given == [token |-> token, grant |-> grant]
<1>7. given.token = token
  OBVIOUS
<1> HIDE DEF given
<1>8. /\ answer'[s][m] = given
      /\ \A x \in Sessions, n \in Makers : x # s \/ n # m => answer'[x][n] = answer[x][n]
  BY <1>2, <1>6 DEF Serve, Inv, Places, given
<1>9. Answers'
  BY <1>2, <1>6, <1>7, <1>8 DEF Answers, AnswerOf
<1> QED BY <1>2, <1>9, NothingAsked

\* The answer ends the request of m, and changes the tokens of s only.
LEMMA ReceiveOwned == ASSUME ChosenInv, Races, Receive PROVE Kept
<1> USE DEF ChosenInv
<1>1. PICK s \in Known, m \in Makers : Take(s, m)
  BY DEF Receive
<1> DEFINE do    == flight[s][m].do
           what  == flight[s][m].what
           token == answer[s][m].token
<1>2. s \in Sessions /\ Proper(flight[s][m], m)
  BY KnownIsSession DEF Inv, Requests
<1>3. /\ m \in Pending(s) /\ Done(s, m)
      /\ access' = [access EXCEPT ![s] = token]
      /\ overriden' = [overriden EXCEPT ![s] = @ \/ do \in {"signin", "authenticate"}]
      /\ chosen' = IF m = "app" THEN [chosen EXCEPT ![s] = what] ELSE chosen
      /\ answer' = [answer EXCEPT ![s][m] = NoAnswer]
      /\ refresh' = refresh \/ \E r : refresh' = [refresh EXCEPT ![s] = r]
  BY <1>1 DEF Take
<1>4. AnswerOf(s, m) /\ Busy(s, m)
  BY <1>2, <1>3 DEF Answers, Pending, Inv, AnswersArrive
<1>5. DOMAIN chosen = Sessions /\ DOMAIN overriden = Sessions /\ DOMAIN refresh = Sessions
      /\ DOMAIN access = Sessions
  BY DEF Owners, Inv, Shape
<1>6. /\ access'[s] = token /\ chosen'[s] = IF m = "app" THEN what ELSE chosen[s]
      /\ overriden'[s] = (overriden[s] \/ do \in {"signin", "authenticate"})
      /\ \A x \in Sessions \ {s} :
           access'[x] = access[x] /\ chosen'[x] = chosen[x] /\ overriden'[x] = overriden[x]
      /\ Owners'
  BY <1>2, <1>3, <1>5 DEF Owners
<1>7. /\ answer'[s][m] = NoAnswer
      /\ \A x \in Sessions, n \in Makers : x # s \/ n # m => answer'[x][n] = answer[x][n]
  BY <1>2, <1>3 DEF Inv, Places
<1>8. /\ Requests' /\ \A n \in Makers : Follows(s, n)
      /\ \A x \in Sessions, n \in Makers : x # s \/ n # m => flight'[x][n] = flight[x][n]
  BY <1>2, <1>3, DoneFollows DEF Inv
<1>9. Answers'
  BY <1>7, <1>8, AnswersKeep DEF AnswersStay
<1>10. m = "app" => chosen'[s] = None \/ access'[s] = None \/ access'[s].who = chosen'[s]
  BY <1>2, <1>4, <1>6 DEF AnswerOf, Proper
<1>11. Owned(s)
  <2>1. CASE m = "app"
    BY <1>2, <1>4, <1>6, <1>10, <2>1 DEF Owned, Proper, Busy
  <2>2. CASE m # "app"
    <3>1. SameOwner(s) /\ m \in Others /\ do \notin {"signin", "authenticate"}
      BY <1>2, <1>6, <2>2 DEF SameOwner, Others, Proper
    <3> QED BY <1>4, <1>6, <3>1 DEF Owned, AnswerOf
  <2> QED BY <2>1, <2>2
<1>12. \A x \in Sessions : Owned(x)
  BY <1>6, <1>11 DEF Owned, SameOwner
<1>13. \A x \in Sessions : \A n \in Others : Follows(x, n)
  BY <1>8 DEF Others, Follows
<1>14. ASSUME NEW x \in Sessions
       PROVE  CallEnds(x)
  <2>1. CASE x = s /\ m = "app"
    BY <1>8, <1>10, <2>1 DEF CallEnds, Others
  <2>2. CASE ~(x = s /\ m = "app")
    BY <1>8, <2>2 DEF CallEnds, Busy, Makers
  <2> QED BY <2>1, <2>2
<1> QED BY <1>6, <1>8, <1>9, <1>12, <1>13, <1>14, OwnedKeeps DEF Kept

\* Nobody has chosen for a session of which the connection is over.
LEMMA OverOwned == ASSUME ChosenInv, Races, Over PROVE Kept
<1> USE DEF ChosenInv
<1>1. /\ \A s \in Sessions, m \in Makers : flight'[s][m] = Idle /\ answer'[s][m] = NoAnswer
      /\ \A s \in Sessions : chosen'[s] = None
      /\ DOMAIN refresh' = Sessions /\ DOMAIN overriden' = Sessions /\ DOMAIN chosen' = Sessions
  BY DEF Over
<1>2. \A m : Proper(Idle, m) /\ Idle.do = "nothing"
  BY DEF Proper, Idle, Request
<1>3. Requests' /\ Answers' /\ Owners'
  BY <1>1, <1>2 DEF Requests, Answers, Owners
<1>4. \A s \in Sessions : Owned(s) /\ CallEnds(s) /\ \A m \in Others : Follows(s, m)
  BY <1>1, <1>2 DEF Owned, CallEnds, Follows, Others
<1> QED BY <1>3, <1>4, OwnedKeeps DEF Kept

LEMMA RefusedOwned == ASSUME ChosenInv, Races, Refuse \/ RefuseProvider PROVE Kept
<1> USE DEF ChosenInv
<1>1. ASSUME NEW s \in Known, NEW m \in Makers, NEW do \in {"reuse", "refresh", "provider"},
             Sent(s, m, do)
      PROVE  s \in Sessions /\ m \in Others /\ answer[s][m] = NoAnswer
  <2>1. s \in Sessions /\ flight[s][m].do = do /\ answer[s][m] = NoAnswer
    BY <1>1, KnownIsSession DEF Sent, Inv
  <2> QED BY <2>1 DEF Requests, Proper, Others
<1>2. CASE Refuse
  <2>1. PICK s \in Known, m \in Makers : RefuseReuse(s, m) \/ RefuseRefresh(s, m) \/ DeclineProvider(s, m)
    BY <1>2 DEF Refuse
  <2>2. /\ \E stage \in 0..3 : Proceed(s, m, stage)
        /\ \E do \in {"reuse", "refresh", "provider"} : Sent(s, m, do)
    BY <2>1 DEF RefuseReuse, RefuseRefresh, DeclineProvider, StageAfter
  <2>3. UNCHANGED <<access, refresh, overriden, chosen, answer>>
    BY <1>2 DEF Refuse, tokenVars
  <2> QED BY <1>1, <2>2, <2>3, AsksOnly
<1>3. CASE RefuseProvider
  <2>1. PICK s \in Known, m \in Makers :
          Sent(s, m, "provider") /\ IF m \in Handshakes THEN Over ELSE GiveUp(s, m)
    BY <1>3 DEF RefuseProvider
  <2>2. CASE GiveUp(s, m)
    BY <1>1, <2>1, <2>2, AsksOnly DEF GiveUp, tokenVars
  <2> QED BY <2>1, <2>2, OverOwned
<1> QED BY <1>2, <1>3

LEMMA FireOwned == ASSUME ChosenInv, Races, NEW s \in Sessions, Fire(s) PROVE Kept
<1>1. UNCHANGED <<access, refresh, overriden, chosen, answer>> /\ flight[s]["timer"] = Idle
  BY DEF Fire
<1>2. CASE s \in Known
  <2>1. Proceed(s, "timer", 0) /\ "timer" \in Others /\ 0 \in 0..3
    BY <1>2 DEF Fire, Others, Makers
  <2>2. answer[s]["timer"] = NoAnswer
    BY <1>1, <2>1 DEF ChosenInv, Inv, AnswersArrive, Busy, Idle, Request, Others
  <2> QED BY <1>1, <2>1, <2>2, AsksOnly
<1>3. CASE s \notin Known
  BY <1>1, <1>3, NothingAsked, AnswersKeep DEF Fire, ChosenInv, AnswersStay
<1> QED BY <1>2, <1>3

LEMMA RestoreOwned == ASSUME ChosenInv, Races, NEW h \in Handshakes, Restore(h) PROVE Kept
<1> DEFINE s == Head(restoring[h])
<1>1. flight[s][h] = Idle
  BY DEF Restore
<1>2. CASE s \in Known
  <2>1. Proceed(s, h, 0) /\ UNCHANGED <<access, refresh, overriden, chosen, answer>>
    BY <1>2 DEF Restore, tokenVars
  <2>2. s \in Sessions /\ h \in Makers /\ h \in Others /\ 0 \in 0..3
    BY <1>2, KnownIsSession, MakersKnown DEF ChosenInv, Inv, Others
  <2> HIDE DEF s
  <2>3. answer[s][h] = NoAnswer
    BY <1>1, <2>2 DEF ChosenInv, Inv, AnswersArrive, Busy, Idle, Request
  <2> QED BY <2>1, <2>2, <2>3, AsksOnly
<1>3. CASE s \notin Known
  <2>1. Over
    BY <1>3 DEF Restore
  <2> QED BY <2>1, OverOwned
<1> QED BY <1>2, <1>3

LEMMA CloneOwned == ASSUME ChosenInv, Races, NEW f \in Forks, Clone(f) PROVE Kept
<1>1. f \in cloning /\ Proceed(f, "clone", 0) /\ UNCHANGED <<access, refresh, overriden, chosen, answer>>
  BY DEF Clone, tokenVars
<1>2. f \in Sessions /\ "clone" \in Makers /\ "clone" \in Others /\ 0 \in 0..3
  BY MakersKnown DEF Sessions, Others
<1>3. answer[f]["clone"] = NoAnswer
  BY <1>1, <1>2 DEF ChosenInv, Inv, ClonesWait, AnswersArrive
<1> QED BY <1>1, <1>2, <1>3, AsksOnly

LEMMA LoseOwned == ASSUME ChosenInv, Races, Lose PROVE Kept
<1>1. /\ UNCHANGED <<access, refresh, overriden, chosen, flight>>
      /\ \A s \in Sessions, m \in Makers : answer'[s][m] = NoAnswer
  BY DEF Lose, tokenVars
<1> QED BY <1>1, NothingAsked DEF Answers

LEMMA UserOwned == ASSUME ChosenInv, Races, User PROVE Kept
<1> USE DEF ChosenInv
<1>1. CASE \E s \in Known : Authenticate(s) \/ Invalidate(s)
  <2>1. PICK s \in Known, do \in {"signin", "authenticate", "invalidate"}, what \in Users \cup {None} :
          Call(s, Request(do, what)) /\ (do = "invalidate" => what = None)
    BY <1>1, AuthAssumption DEF Authenticate, Invalidate
  <2>2. /\ UNCHANGED <<access, refresh, overriden, chosen, answer>> /\ flight[s]["app"] = Idle
        /\ flight' = [flight EXCEPT ![s]["app"] = Request(do, what)]
    BY <2>1 DEF Call, MayCall, tokenVars
  <2>3. s \in Sessions /\ Proper(Request(do, what), "app") /\ "app" \in Makers
    BY <2>1, KnownIsSession, MakersKnown DEF Inv, Request, Proper
  <2>4. /\ flight'[s]["app"] = Request(do, what)
        /\ \A x \in Sessions, n \in Makers : x # s \/ n # "app" => flight'[x][n] = flight[x][n]
    BY <2>2, <2>3 DEF Inv, Places
  <2>5. ~Busy(s, "app")
    BY <2>2 DEF Busy, Idle, Request
  <2>6. Requests'
    BY <2>3, <2>4 DEF Requests
  <2>7. answer[s]["app"] = NoAnswer
    BY <2>3, <2>5 DEF Inv, AnswersArrive
  <2>8. Answers'
    BY <2>2, <2>4, <2>7, AnswersKeep DEF AnswersStay
  <2>9. Owners' /\ \A x \in Sessions : Owned(x) /\ \A n \in Others : Follows(x, n)
    BY <2>2, <2>4 DEF Owners, Owned, SameOwner, Follows, Others
  <2>10. \A x \in Sessions : CallEnds(x)
    BY <2>4, <2>5 DEF CallEnds, Busy, Makers
  <2> QED BY <2>6, <2>8, <2>9, <2>10, OwnedKeeps DEF Kept
<1>2. CASE \E s \in Known : Revoke(s)
  <2>1. UNCHANGED <<access, refresh, overriden, chosen, flight, answer>>
    BY <1>2 DEF Revoke, tokenVars, requestVars
  <2> QED BY <2>1, NothingAsked, AnswersKeep DEF AnswersStay
\* createSession() of the same tokens, and destroySession(): nobody has chosen.
<1>3. CASE \E f \in Forks : Fork(f) \/ Destroy(f)
  <2>1. PICK f \in Forks : Fork(f) \/ Destroy(f)
    BY <1>3
  <2>2. /\ \E a : access' = [access EXCEPT ![f] = a]
        /\ \E r : refresh' = [refresh EXCEPT ![f] = r]
        /\ overriden' = [overriden EXCEPT ![f] = FALSE]
        /\ chosen' = [chosen EXCEPT ![f] = None] /\ UNCHANGED <<flight, answer>>
    BY <2>1 DEF Fork, Destroy, requestVars
  <2>3. f \in Sessions /\ DOMAIN access = Sessions /\ DOMAIN refresh = Sessions
        /\ DOMAIN overriden = Sessions /\ DOMAIN chosen = Sessions
    BY DEF Sessions, Owners, Inv, Shape
  <2>4. Requests' /\ Owners' /\ Answers'
    BY <2>2, <2>3, AnswersKeep DEF Requests, Owners, AnswersStay
  <2>5. \A x \in Sessions : Owned(x)
    BY <2>2, <2>3 DEF Owned, SameOwner
  <2>6. \A x \in Sessions : CallEnds(x) /\ \A n \in Others : Follows(x, n)
    BY <2>2 DEF CallEnds, Busy, Follows
  <2> QED BY <2>4, <2>5, <2>6, OwnedKeeps DEF Kept
<1> QED BY <1>1, <1>2, <1>3 DEF User

LEMMA NextChosen == ChosenInv /\ [Next]_vars => ChosenInv'
<1> SUFFICES ASSUME ChosenInv, [Next]_vars
             PROVE  Kept
  BY NextInv DEF ChosenInv, Kept
<1>1. CASE UNCHANGED vars
  BY <1>1 DEF Kept, ChosenInv, Requests, Answers, AnswerOf, Owners, OverridesProvider, Unraced,
     OwnTokens, Busy, vars, tokenVars, requestVars
<1>2. CASE Next
  <2>1. Races
    BY <1>2 DEF Next, Races
  <2>2. CASE Tick
    BY <2>1, <2>2, NothingAsked, AnswersKeep DEF Tick, tokenVars, requestVars, AnswersStay, ChosenInv
  <2> QED BY <1>2, <2>1, <2>2, ExecuteOwned, ReceiveOwned, RefusedOwned, FireOwned, RestoreOwned,
         CloneOwned, LoseOwned, UserOwned DEF Next
<1> QED BY <1>1, <1>2

(* A session is authenticated as whom the application chose, or not at     *)
(* all, when its call met no renewal and no restore of the same session    *)
(* and no refresh token of someone else outlived it: whatever the timers,  *)
(* losses, refusals and calls on other sessions, for every application,    *)
(* patient or not (#applyAuthentication(), authOverriden).                 *)
THEOREM ChosenStaysTheirs == Spec => []ChosenStaysUnraced
<1>1. Init => ChosenInv
  <2> SUFFICES ASSUME Init PROVE ChosenInv
    OBVIOUS
  <2>1. \A s \in Sessions, m \in Makers :
          flight[s][m] = Idle /\ flight[s][m].do = "nothing" /\ answer[s][m] = NoAnswer
    BY DEF Init, Idle, Request
  <2>2. Requests /\ Answers
    BY <2>1 DEF Requests, Proper, Answers
  <2>3. Owners /\ OverridesProvider /\ Unraced
    BY <2>1 DEF Init, Owners, OverridesProvider, Unraced, Busy, Others
  <2> QED BY <2>2, <2>3, InitInv DEF ChosenInv
<1>2. ChosenInv => ChosenStaysUnraced
  <2> SUFFICES ASSUME ChosenInv, NEW s \in Sessions, Settled(s), chosen[s] # None, ~raced[s]
               PROVE  access[s] = None \/ access[s].who = chosen[s]
    BY DEF ChosenStaysUnraced
  <2>1. "app" \in Makers
    BY DEF Makers
  <2>2. ~Busy(s, "app")
    BY <2>1, SettledIsIdle
  <2> QED BY <2>2 DEF ChosenInv, Unraced, OwnTokens
<1> QED BY <1>1, <1>2, NextChosen, PTL DEF Spec
=============================================================================
