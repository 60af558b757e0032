------------------------ MODULE WebSocketEngineProofs ------------------------
(***************************************************************************)
(* Proofs about WebSocketEngine, for any set of calls, any bound on the    *)
(* sockets and any reconnect options.                                      *)
(***************************************************************************)
EXTENDS WebSocketEngine, TLAPS

-----------------------------------------------------------------------------
(* The inductive invariant.                                                *)

\* The loop waits for a socket exactly while there is one; while it runs and
\* nobody closed the engine, _state is set.
LoopShape ==
  /\ loop = "socket" <=> readyState # "none"
  /\ loop = "new" => sockets = 0 /\ ~terminated /\ status = "none"
  /\ loop # "new" => sockets >= 1
  /\ loop \in {"socket", "cooldown"} /\ ~terminated => hasState
  /\ loop = "cooldown" /\ ~terminated => sockets < MaxSockets
  /\ readyState \in {"connecting", "open"} => ~terminated
  /\ readyState = "connecting" => ~restored
  /\ status = "disconnected" => terminated \/ loop = "done"
  /\ loop = "done" /\ ~terminated => ~Allowed

\* Nothing is in flight without an open or closing socket, and nothing that
\* was not accepted by send().
WireShape ==
  /\ readyState \in {"none", "connecting"} =>
       responses = {} /\ \A i \in Ids : requests[i] = 0
  /\ \A i \in Ids : outcome[i] \in {"unissued", "unavailable"} =>
       requests[i] = 0 /\ executed[i] = 0
  /\ \A r \in responses : /\ r.ok \in results[r.id]
                          /\ outcome[r.id] \notin {"unissued", "unavailable"}

\* A socket that has not opened has not sent its handshake.
FreshHandshakes ==
  \A s \in Sockets :
    s > sockets \/ (s = sockets /\ readyState = "connecting") => outcome[s] = "unissued"

\* #calls holds calls that were not answered.
RecordedIsUnanswered ==
  \A i \in calls : outcome[i] \in {"pending", "thrown"}

\* DuplicatesComeFromReady, counting the copies still on their way.
CopiesBounded ==
  \A i \in Ids :
    /\ issuedAt[i] <= readies
    /\ executed[i] + requests[i]
         <= readies - issuedAt[i] + (IF outcome[i] = "thrown" THEN 0 ELSE 1)

\* #attempts counts the sockets in a row that did not open, the one the
\* cooldown leads to included, but not the first socket of all.
AttemptsCounted ==
  /\ options.attempts # -1 => attempts <= options.attempts
  /\ loop = "cooldown" => attempts >= 1
  /\ \A s \in 1..sockets : NeverOpened(s) =>
       sockets - s + (IF loop = "cooldown" THEN 2 ELSE 1)
         <= attempts + (IF s = 1 THEN 1 ELSE 0)

Inv ==
  /\ TypeOK
  /\ LoopShape
  /\ WireShape
  /\ FreshHandshakes
  /\ RecordedIsUnanswered
  /\ CopiesBounded
  /\ AttemptsCounted
  /\ PendingIsRecorded
  /\ NothingStuck

-----------------------------------------------------------------------------
(* Every action preserves it.                                              *)

LEMMA OptionsType == TypeOK => options.enabled \in BOOLEAN /\ options.attempts \in Nat \cup {-1}
BY OptionsAssumption DEF TypeOK

\* Most actions leave the reconnect context alone and open no socket.
LEMMA AttemptsKept ==
  ASSUME Inv,
         UNCHANGED <<options, attempts, sockets>>,
         loop' = "cooldown" => loop = "cooldown",
         \A s \in 1..sockets : outcome'[s] = "unissued" => outcome[s] = "unissued"
  PROVE  AttemptsCounted'
<1>1. ASSUME NEW s \in 1..sockets, NeverOpened(s)'
      PROVE  NeverOpened(s)
  BY <1>1 DEF NeverOpened, Inv, TypeOK
<1>2. attempts \in Nat /\ sockets \in Nat
  BY BoundAssumption DEF Inv, TypeOK
<1>3. ASSUME NEW s \in 1..sockets, NeverOpened(s)'
      PROVE  sockets - s + (IF loop' = "cooldown" THEN 2 ELSE 1)
               <= attempts + (IF s = 1 THEN 1 ELSE 0)
  BY <1>1, <1>2, <1>3 DEF Inv, AttemptsCounted
<1> QED BY <1>3 DEF Inv, AttemptsCounted


LEMMA OpenInv ==
  ASSUME Inv, Open
  PROVE  Inv'
<1>a. sockets' \in 0..MaxSockets
  BY BoundAssumption DEF Inv, TypeOK, LoopShape, Open, CreateSocket
<1>1. TypeOK'
  BY <1>a DEF Inv, Open, CreateSocket, socketVars, callVars, wireVars,
     serverVars, retryVars, TypeOK, Ids, Sockets, LoopShape, Outcomes,
     Response
<1>2. LoopShape'
  BY DEF Inv, Open, CreateSocket, socketVars, LoopShape, Allowed, retryVars
<1>3. WireShape'
  BY DEF Inv, Open, socketVars, callVars, wireVars, serverVars, LoopShape,
     WireShape
<1>4. FreshHandshakes'
  BY DEF Inv, Open, socketVars, callVars, Sockets, LoopShape,
     FreshHandshakes
<1>5. RecordedIsUnanswered'
  BY DEF Inv, Open, socketVars, callVars, RecordedIsUnanswered
<1>6. CopiesBounded'
  BY DEF Inv, Open, socketVars, callVars, wireVars, serverVars,
     CopiesBounded
<1>7. PendingIsRecorded'
  BY DEF Inv, Open, socketVars, callVars, PendingIsRecorded, LoopShape
<1>8. NothingStuck'
  BY DEF Inv, Open, CreateSocket, socketVars, callVars, wireVars,
     serverVars, retryVars, TypeOK, Ids, Sockets, NothingStuck, InFlight,
     LoopShape, WireShape, Response, Outcomes, FreshHandshakes
<1>9. AttemptsCounted'
  BY OptionsType DEF Inv, Open, CreateSocket, Allowed, loopVars, socketVars,
     callVars, retryVars, TypeOK, Ids, Sockets, LoopShape, FreshHandshakes,
     Outcomes, NeverOpened, AttemptsCounted
<1> QED BY <1>1, <1>2, <1>3, <1>4, <1>5, <1>6, <1>7, <1>8, <1>9 DEF Inv

LEMMA SocketOpensInv ==
  ASSUME Inv, SocketOpens
  PROVE  Inv'
<1>1. TypeOK'
  BY DEF Inv, SocketOpens, loopVars, callVars, wireVars, serverVars,
     retryVars, TypeOK, Ids, Sockets, LoopShape, Outcomes
<1>2. LoopShape'
  BY DEF Inv, SocketOpens, loopVars, callVars, wireVars, LoopShape, Allowed,
     retryVars
<1>3. WireShape'
  BY DEF Inv, SocketOpens, callVars, wireVars, serverVars, retryVars,
     TypeOK, WireShape
<1>4. FreshHandshakes'
  BY DEF Inv, SocketOpens, callVars, wireVars, Sockets, FreshHandshakes
<1>5. RecordedIsUnanswered'
  BY DEF Inv, SocketOpens, callVars, wireVars, TypeOK, Ids, Sockets,
     RecordedIsUnanswered, LoopShape
<1>6. CopiesBounded'
  BY DEF Inv, SocketOpens, callVars, wireVars, serverVars, retryVars,
     TypeOK, Sockets, CopiesBounded, WireShape, LoopShape, FreshHandshakes
<1>7. PendingIsRecorded'
  BY DEF Inv, SocketOpens, callVars, wireVars, PendingIsRecorded, LoopShape
<1>8. NothingStuck'
  BY DEF Inv, SocketOpens, callVars, wireVars, serverVars, retryVars,
     TypeOK, Ids, Sockets, NothingStuck, InFlight, LoopShape, WireShape,
     Response, Outcomes, FreshHandshakes
<1>9. AttemptsCounted'
  BY OptionsType DEF Inv, SocketOpens, Allowed, loopVars, socketVars,
     callVars, retryVars, TypeOK, Ids, Sockets, LoopShape, FreshHandshakes,
     Outcomes, NeverOpened, AttemptsCounted
<1> QED BY <1>1, <1>2, <1>3, <1>4, <1>5, <1>6, <1>7, <1>8, <1>9 DEF Inv

LEMMA SocketStartsClosingInv ==
  ASSUME Inv, SocketStartsClosing
  PROVE  Inv'
<1>1. TypeOK'
  BY DEF Inv, SocketStartsClosing, loopVars, socketVars, callVars, wireVars,
     serverVars, retryVars, TypeOK
<1>2. LoopShape'
  BY DEF Inv, SocketStartsClosing, loopVars, socketVars, LoopShape, Allowed,
     retryVars
<1>3. WireShape'
  BY DEF Inv, SocketStartsClosing, socketVars, callVars, wireVars,
     serverVars, WireShape
<1>4. FreshHandshakes'
  BY DEF Inv, SocketStartsClosing, socketVars, callVars, FreshHandshakes
<1>5. RecordedIsUnanswered'
  BY DEF Inv, SocketStartsClosing, socketVars, callVars,
     RecordedIsUnanswered
<1>6. CopiesBounded'
  BY DEF Inv, SocketStartsClosing, socketVars, callVars, wireVars,
     serverVars, CopiesBounded
<1>7. PendingIsRecorded'
  BY DEF Inv, SocketStartsClosing, socketVars, callVars, PendingIsRecorded,
     LoopShape
<1>8. NothingStuck'
  BY DEF Inv, SocketStartsClosing, socketVars, callVars, wireVars,
     serverVars, retryVars, TypeOK, Ids, Sockets, NothingStuck, InFlight,
     LoopShape, WireShape, Response, Outcomes, FreshHandshakes
<1>9. AttemptsCounted'
  BY AttemptsKept DEF Inv, SocketStartsClosing, loopVars, socketVars,
     callVars, retryVars, TypeOK, Ids, Sockets
<1> QED BY <1>1, <1>2, <1>3, <1>4, <1>5, <1>6, <1>7, <1>8, <1>9 DEF Inv

LEMMA SocketClosesAndLoopsInv ==
  ASSUME Inv, SocketClosesAndLoops
  PROVE  Inv'
<1>1. TypeOK'
  BY DEF Inv, SocketClosesAndLoops, DropSocket, loopVars, socketVars,
     callVars, wireVars, serverVars, retryVars, TypeOK
<1>2. LoopShape'
  BY DEF Inv, SocketClosesAndLoops, MayFail, DropSocket, loopVars,
     socketVars, LoopShape, Allowed, retryVars
<1>3. WireShape'
  BY DEF Inv, SocketClosesAndLoops, DropSocket, loopVars, socketVars,
     callVars, wireVars, serverVars, retryVars, WireShape
<1>4. FreshHandshakes'
  BY DEF Inv, SocketClosesAndLoops, DropSocket, loopVars, socketVars,
     callVars, wireVars, FreshHandshakes
<1>5. RecordedIsUnanswered'
  BY DEF Inv, SocketClosesAndLoops, DropSocket, loopVars, socketVars,
     callVars, wireVars, RecordedIsUnanswered
<1>6. CopiesBounded'
  BY DEF Inv, SocketClosesAndLoops, DropSocket, loopVars, socketVars,
     callVars, wireVars, serverVars, retryVars, TypeOK, CopiesBounded
<1>7. PendingIsRecorded'
  BY DEF Inv, SocketClosesAndLoops, DropSocket, loopVars, socketVars,
     callVars, wireVars, PendingIsRecorded
<1>8. NothingStuck'
  BY DEF Inv, SocketClosesAndLoops, DropSocket, loopVars, socketVars,
     callVars, wireVars, serverVars, retryVars, TypeOK, Ids, Sockets,
     NothingStuck, InFlight, LoopShape, WireShape, Response, Outcomes,
     FreshHandshakes
<1>a. attempts \in Nat /\ sockets \in Nat /\ options.attempts \in Int
  BY BoundAssumption, OptionsType DEF Inv, TypeOK
<1>b. ASSUME NEW s \in 1..sockets, NeverOpened(s)'
      PROVE  sockets - s + 2 <= attempts' + (IF s = 1 THEN 1 ELSE 0)
  <2>1. NeverOpened(s)
    BY <1>b DEF SocketClosesAndLoops, callVars, NeverOpened
  <2> QED BY <1>a, <2>1 DEF Inv, SocketClosesAndLoops, LoopShape, AttemptsCounted
<1>9. AttemptsCounted'
  BY <1>a, <1>b DEF Inv, SocketClosesAndLoops, GoesOn, Allowed,
     AttemptsCounted
<1> QED BY <1>1, <1>2, <1>3, <1>4, <1>5, <1>6, <1>7, <1>8, <1>9 DEF Inv

LEMMA SocketClosesForGoodInv ==
  ASSUME Inv, SocketClosesForGood
  PROVE  Inv'
<1>1. TypeOK'
  BY DEF Inv, SocketClosesForGood, DropSocket, loopVars, socketVars,
     callVars, wireVars, serverVars, retryVars, TypeOK, Ids, Sockets,
     LoopShape, Outcomes, Response
<1>2. LoopShape'
  BY OptionsType DEF Inv, SocketClosesForGood, GoesOn, DropSocket, LoopShape,
     Allowed, retryVars, TypeOK
<1>3. WireShape'
  BY DEF Inv, SocketClosesForGood, DropSocket, loopVars, socketVars,
     callVars, wireVars, serverVars, WireShape
<1>4. FreshHandshakes'
  BY DEF Inv, SocketClosesForGood, DropSocket, loopVars, socketVars,
     callVars, wireVars, Ids, FreshHandshakes
<1>5. RecordedIsUnanswered'
  BY DEF Inv, SocketClosesForGood, loopVars, socketVars, callVars, wireVars,
     RecordedIsUnanswered
<1>6. CopiesBounded'
  BY DEF Inv, SocketClosesForGood, DropSocket, loopVars, socketVars,
     callVars, wireVars, serverVars, TypeOK, CopiesBounded
<1>7. PendingIsRecorded'
  BY DEF Inv, SocketClosesForGood, loopVars, socketVars, callVars, wireVars,
     PendingIsRecorded
<1>8. NothingStuck'
  BY DEF Inv, SocketClosesForGood, DropSocket, loopVars, socketVars,
     callVars, wireVars, serverVars, retryVars, TypeOK, Ids, Sockets,
     NothingStuck, InFlight, LoopShape, WireShape, Response, Outcomes,
     FreshHandshakes
<1>a. \A s \in 1..sockets : outcome'[s] = "unissued" => outcome[s] = "unissued"
  <2>1. 1..sockets \subseteq Ids
    BY BoundAssumption DEF Inv, TypeOK, Ids, Sockets
  <2> QED BY <2>1 DEF SocketClosesForGood
<1>9. AttemptsCounted'
  BY <1>a, AttemptsKept DEF Inv, SocketClosesForGood, retryVars
<1> QED BY <1>1, <1>2, <1>3, <1>4, <1>5, <1>6, <1>7, <1>8, <1>9 DEF Inv

LEMMA CooldownEndsInv ==
  ASSUME Inv, CooldownEnds
  PROVE  Inv'
<1>a. sockets' \in 0..MaxSockets
  BY BoundAssumption DEF Inv, TypeOK, LoopShape, CooldownEnds, CreateSocket
<1>1. TypeOK'
  BY <1>a DEF Inv, CooldownEnds, CreateSocket, socketVars, callVars,
     wireVars, serverVars, retryVars, TypeOK, Ids, Sockets, LoopShape,
     Outcomes, Response
<1>2. LoopShape'
  BY DEF Inv, CooldownEnds, CreateSocket, socketVars, TypeOK, LoopShape,
     Allowed, retryVars
<1>3. WireShape'
  BY DEF Inv, CooldownEnds, socketVars, callVars, wireVars, serverVars,
     LoopShape, WireShape
<1>4. FreshHandshakes'
  BY DEF Inv, CooldownEnds, CreateSocket, socketVars, callVars, TypeOK,
     Sockets, FreshHandshakes
<1>5. RecordedIsUnanswered'
  BY DEF Inv, CooldownEnds, socketVars, callVars, RecordedIsUnanswered
<1>6. CopiesBounded'
  BY DEF Inv, CooldownEnds, socketVars, callVars, wireVars, serverVars,
     CopiesBounded
<1>7. PendingIsRecorded'
  BY DEF Inv, CooldownEnds, socketVars, callVars, PendingIsRecorded
<1>8. NothingStuck'
  BY DEF Inv, CooldownEnds, CreateSocket, socketVars, callVars, wireVars,
     serverVars, retryVars, TypeOK, Ids, Sockets, NothingStuck, InFlight,
     LoopShape, WireShape, Response, Outcomes, FreshHandshakes
<1>b. attempts \in Nat /\ sockets \in Nat /\ attempts >= 1
  BY BoundAssumption DEF Inv, TypeOK, CooldownEnds, AttemptsCounted
<1>c. ASSUME NEW s \in 1..sockets', NeverOpened(s)'
      PROVE  sockets' - s + 1 <= attempts + (IF s = 1 THEN 1 ELSE 0)
  <2>1. CASE s = sockets + 1
    BY <1>b, <2>1 DEF CooldownEnds, CreateSocket
  <2>2. CASE s \in 1..sockets
    <3>1. NeverOpened(s)
      BY <1>b, <1>c, <2>2 DEF CooldownEnds, CreateSocket, callVars, NeverOpened
    <3> QED BY <1>b, <2>2, <3>1 DEF Inv, CooldownEnds, CreateSocket, AttemptsCounted
  <2> QED BY <1>b, <2>1, <2>2 DEF CooldownEnds, CreateSocket
<1>9. AttemptsCounted'
  BY <1>b, <1>c DEF Inv, CooldownEnds, CreateSocket, retryVars,
     AttemptsCounted
<1> QED BY <1>1, <1>2, <1>3, <1>4, <1>5, <1>6, <1>7, <1>8, <1>9 DEF Inv

LEMMA CooldownEndsClosedInv ==
  ASSUME Inv, CooldownEndsClosed
  PROVE  Inv'
<1>1. TypeOK'
  BY DEF Inv, CooldownEndsClosed, socketVars, callVars, wireVars,
     serverVars, retryVars, TypeOK
<1>2. LoopShape'
  BY DEF Inv, CooldownEndsClosed, socketVars, callVars, LoopShape, Allowed,
     retryVars
<1>3. WireShape'
  BY DEF Inv, CooldownEndsClosed, callVars, wireVars, serverVars, LoopShape,
     WireShape
<1>4. FreshHandshakes'
  BY DEF Inv, CooldownEndsClosed, socketVars, callVars, FreshHandshakes
<1>5. RecordedIsUnanswered'
  BY DEF Inv, CooldownEndsClosed, callVars, RecordedIsUnanswered
<1>6. CopiesBounded'
  BY DEF Inv, CooldownEndsClosed, callVars, wireVars, serverVars,
     CopiesBounded
<1>7. PendingIsRecorded'
  BY DEF Inv, CooldownEndsClosed, callVars, PendingIsRecorded
<1>8. NothingStuck'
  BY DEF Inv, CooldownEndsClosed, socketVars, callVars, wireVars,
     serverVars, retryVars, TypeOK, Ids, Sockets, NothingStuck, InFlight,
     LoopShape, WireShape, Response, Outcomes, FreshHandshakes
<1>9. AttemptsCounted'
  BY AttemptsKept DEF Inv, CooldownEndsClosed, loopVars, socketVars,
     callVars, retryVars, TypeOK, Ids, Sockets
<1> QED BY <1>1, <1>2, <1>3, <1>4, <1>5, <1>6, <1>7, <1>8, <1>9 DEF Inv

LEMMA CloseInv ==
  ASSUME Inv, Close
  PROVE  Inv'
<1>1. TypeOK'
  BY DEF Inv, Close, CloseEngine, loopVars, socketVars, callVars, wireVars,
     serverVars, retryVars, TypeOK, Ids, Sockets, LoopShape, Outcomes,
     Response
<1>2. LoopShape'
  BY DEF Inv, Close, CloseEngine, Attached, loopVars, socketVars, LoopShape,
     Allowed, retryVars
<1>3. WireShape'
  BY DEF Inv, Close, CloseEngine, loopVars, socketVars, callVars, wireVars,
     serverVars, WireShape
<1>4. FreshHandshakes'
  BY DEF Inv, Close, CloseEngine, loopVars, socketVars, callVars,
     FreshHandshakes
<1>5. RecordedIsUnanswered'
  BY DEF Inv, Close, loopVars, socketVars, callVars, RecordedIsUnanswered
<1>6. CopiesBounded'
  BY DEF Inv, Close, loopVars, socketVars, callVars, wireVars, serverVars,
     CopiesBounded
<1>7. PendingIsRecorded'
  BY DEF Inv, Close, CloseEngine, loopVars, socketVars, PendingIsRecorded
<1>8. NothingStuck'
  BY DEF Inv, Close, CloseEngine, loopVars, socketVars, callVars, wireVars,
     serverVars, retryVars, TypeOK, Ids, Sockets, NothingStuck, InFlight,
     LoopShape, WireShape, Response, Outcomes, FreshHandshakes
<1>9. AttemptsCounted'
  BY AttemptsKept DEF Inv, Close, CloseEngine, loopVars, socketVars,
     callVars, retryVars, TypeOK, Ids, Sockets
<1> QED BY <1>1, <1>2, <1>3, <1>4, <1>5, <1>6, <1>7, <1>8, <1>9 DEF Inv

LEMMA SendUnavailableInv ==
  ASSUME NEW c \in Calls, Inv, SendUnavailable(c)
  PROVE  Inv'
<1>1. TypeOK'
  BY DEF Inv, SendUnavailable, loopVars, socketVars, callVars, wireVars,
     serverVars, retryVars, TypeOK, Ids, Outcomes
<1>2. LoopShape'
  BY DEF Inv, SendUnavailable, loopVars, socketVars, callVars, LoopShape,
     Allowed, retryVars
<1>3. WireShape'
  BY DEF Inv, SendUnavailable, socketVars, callVars, wireVars, serverVars,
     WireShape
<1>4. FreshHandshakes'
  BY CallsAssumption DEF Inv, SendUnavailable, loopVars, socketVars,
     callVars, FreshHandshakes
<1>5. RecordedIsUnanswered'
  BY DEF Inv, SendUnavailable, socketVars, callVars, RecordedIsUnanswered
<1>6. CopiesBounded'
  BY DEF Inv, SendUnavailable, socketVars, callVars, wireVars, serverVars,
     CopiesBounded
<1>7. PendingIsRecorded'
  BY DEF Inv, SendUnavailable, loopVars, socketVars, callVars,
     PendingIsRecorded
<1>8. NothingStuck'
  BY DEF Inv, SendUnavailable, socketVars, callVars, wireVars, serverVars,
     retryVars, TypeOK, Ids, Sockets, NothingStuck, InFlight, LoopShape,
     WireShape, Response, Outcomes, FreshHandshakes
<1>9. AttemptsCounted'
  BY AttemptsKept DEF Inv, SendUnavailable, loopVars, socketVars, callVars,
     retryVars, TypeOK, Ids, Sockets
<1> QED BY <1>1, <1>2, <1>3, <1>4, <1>5, <1>6, <1>7, <1>8, <1>9 DEF Inv

LEMMA SendRecordedInv ==
  ASSUME NEW c \in Calls, Inv, SendRecorded(c)
  PROVE  Inv'
<1>1. TypeOK'
  BY DEF Inv, SendRecorded, loopVars, socketVars, callVars, wireVars,
     serverVars, retryVars, TypeOK, Ids, Outcomes
<1>2. LoopShape'
  BY DEF Inv, SendRecorded, loopVars, socketVars, callVars, wireVars,
     LoopShape, Allowed, retryVars
<1>3. WireShape'
  BY DEF Inv, SendRecorded, socketVars, callVars, wireVars, serverVars,
     TypeOK, WireShape
<1>4. FreshHandshakes'
  BY CallsAssumption DEF Inv, SendRecorded, loopVars, socketVars, callVars,
     wireVars, FreshHandshakes
<1>5. RecordedIsUnanswered'
  BY DEF Inv, SendRecorded, socketVars, callVars, wireVars, TypeOK, Ids,
     RecordedIsUnanswered
<1>6. CopiesBounded'
  BY DEF Inv, SendRecorded, socketVars, callVars, wireVars, serverVars,
     TypeOK, CopiesBounded, WireShape
<1>7. PendingIsRecorded'
  BY DEF Inv, SendRecorded, loopVars, socketVars, callVars, wireVars,
     PendingIsRecorded
<1>8. NothingStuck'
  BY DEF Inv, SendRecorded, socketVars, callVars, wireVars, serverVars,
     retryVars, TypeOK, Ids, Sockets, NothingStuck, InFlight, LoopShape,
     WireShape, Response, Outcomes, FreshHandshakes
<1>9. AttemptsCounted'
  BY AttemptsKept DEF Inv, SendRecorded, loopVars, socketVars, callVars,
     retryVars, TypeOK, Ids, Sockets
<1> QED BY <1>1, <1>2, <1>3, <1>4, <1>5, <1>6, <1>7, <1>8, <1>9 DEF Inv

LEMMA SendThrowsInv ==
  ASSUME NEW c \in Calls, Inv, SendThrows(c)
  PROVE  Inv'
<1>1. TypeOK'
  BY DEF Inv, SendThrows, loopVars, socketVars, callVars, wireVars,
     serverVars, retryVars, TypeOK, Ids, Outcomes
<1>2. LoopShape'
  BY DEF Inv, SendThrows, loopVars, socketVars, callVars, LoopShape,
     Allowed, retryVars
<1>3. WireShape'
  BY DEF Inv, SendThrows, socketVars, callVars, wireVars, serverVars,
     WireShape
<1>4. FreshHandshakes'
  BY CallsAssumption DEF Inv, SendThrows, loopVars, socketVars, callVars,
     FreshHandshakes
<1>5. RecordedIsUnanswered'
  BY DEF Inv, SendThrows, socketVars, callVars, TypeOK, Ids,
     RecordedIsUnanswered
<1>6. CopiesBounded'
  BY DEF Inv, SendThrows, socketVars, callVars, wireVars, serverVars,
     TypeOK, CopiesBounded, WireShape
<1>7. PendingIsRecorded'
  BY DEF Inv, SendThrows, socketVars, callVars, PendingIsRecorded, LoopShape
<1>8. NothingStuck'
  BY DEF Inv, SendThrows, socketVars, callVars, wireVars, serverVars,
     retryVars, TypeOK, Ids, Sockets, NothingStuck, InFlight, LoopShape,
     WireShape, Response, Outcomes, FreshHandshakes
<1>9. AttemptsCounted'
  BY AttemptsKept DEF Inv, SendThrows, loopVars, socketVars, callVars,
     retryVars, TypeOK, Ids, Sockets
<1> QED BY <1>1, <1>2, <1>3, <1>4, <1>5, <1>6, <1>7, <1>8, <1>9 DEF Inv

LEMMA ExecuteInv ==
  ASSUME NEW i \in Ids, NEW ok \in BOOLEAN, Inv, Execute(i, ok)
  PROVE  Inv'
<1>1. TypeOK'
  BY DEF Inv, Execute, loopVars, socketVars, callVars, wireVars, serverVars,
     retryVars, TypeOK, Response
<1>2. LoopShape'
  BY DEF Inv, Execute, loopVars, socketVars, callVars, wireVars, serverVars,
     LoopShape, Allowed, retryVars
<1>3. WireShape'
  BY DEF Inv, Execute, socketVars, callVars, wireVars, serverVars, TypeOK,
     WireShape
<1>4. FreshHandshakes'
  BY DEF Inv, Execute, socketVars, callVars, wireVars, serverVars,
     FreshHandshakes
<1>5. RecordedIsUnanswered'
  BY DEF Inv, Execute, callVars, wireVars, serverVars, RecordedIsUnanswered
<1>6. CopiesBounded'
  BY DEF Inv, Execute, callVars, wireVars, serverVars, TypeOK, CopiesBounded
<1>7. PendingIsRecorded'
  BY DEF Inv, Execute, loopVars, callVars, wireVars, serverVars,
     PendingIsRecorded
<1>a. ASSUME NEW j \in Ids, InFlight(j) PROVE InFlight(j)'
  <2>1. CASE j = i
    <3>1. [id |-> i, ok |-> ok] \in responses'
      BY DEF Execute
    <3> QED BY <2>1, <3>1 DEF InFlight
  <2>2. CASE j # i
    BY <1>a, <2>2 DEF Inv, TypeOK, Execute, InFlight
  <2> QED BY <2>1, <2>2
<1>8. NothingStuck'
  BY <1>a DEF Inv, Execute, socketVars, callVars, wireVars, serverVars,
     retryVars, TypeOK, Ids, Sockets, NothingStuck, LoopShape, WireShape,
     Response, Outcomes, FreshHandshakes
<1>9. AttemptsCounted'
  BY AttemptsKept DEF Inv, Execute, loopVars, socketVars, callVars,
     retryVars, TypeOK, Ids, Sockets
<1> QED BY <1>1, <1>2, <1>3, <1>4, <1>5, <1>6, <1>7, <1>8, <1>9 DEF Inv

LEMMA ReceiveResponseInv ==
  ASSUME NEW r \in responses, Inv, ReceiveResponse(r)
  PROVE  Inv'
<1>1. TypeOK'
  BY DEF Inv, ReceiveResponse, Deliver, Settled, loopVars, socketVars,
     callVars, wireVars, serverVars, retryVars, TypeOK, Outcomes
<1>2. LoopShape'
  BY DEF Inv, ReceiveResponse, loopVars, socketVars, callVars, wireVars,
     LoopShape, Allowed, retryVars
<1>3. WireShape'
  BY DEF Inv, ReceiveResponse, Deliver, Settled, loopVars, socketVars,
     callVars, wireVars, serverVars, WireShape
<1>4. FreshHandshakes'
  BY DEF Inv, ReceiveResponse, Settled, loopVars, socketVars, callVars,
     wireVars, FreshHandshakes
<1>5. RecordedIsUnanswered'
  BY DEF Inv, ReceiveResponse, Settled, loopVars, RecordedIsUnanswered
<1>6. CopiesBounded'
  BY DEF Inv, ReceiveResponse, Settled, loopVars, serverVars, CopiesBounded
<1>7. PendingIsRecorded'
  BY DEF Inv, ReceiveResponse, Settled, loopVars, TypeOK, PendingIsRecorded
<1>8. NothingStuck'
  BY CallsAssumption DEF Inv, ReceiveResponse, Deliver, Settled, loopVars,
     socketVars, callVars, wireVars, serverVars, retryVars, TypeOK, Ids,
     Sockets, NothingStuck, InFlight, LoopShape, WireShape, Response,
     Outcomes, FreshHandshakes
<1>9. AttemptsCounted'
  BY AttemptsKept DEF Inv, ReceiveResponse, Settled, loopVars, socketVars,
     callVars, retryVars, TypeOK, Ids, Sockets
<1> QED BY <1>1, <1>2, <1>3, <1>4, <1>5, <1>6, <1>7, <1>8, <1>9 DEF Inv

LEMMA ReceiveHandshakeInv ==
  ASSUME NEW r \in responses, Inv, ReceiveHandshake(r)
  PROVE  Inv'
<1>1. TypeOK'
  BY DEF Inv, ReceiveHandshake, Resend, Deliver, Settled, loopVars,
     socketVars, callVars, wireVars, serverVars, retryVars, TypeOK, Outcomes
<1>2. LoopShape'
  BY DEF Inv, ReceiveHandshake, Resend, Deliver, loopVars, socketVars,
     callVars, wireVars, LoopShape, Allowed, retryVars
<1>3. WireShape'
  BY DEF Inv, ReceiveHandshake, Resend, Deliver, Settled, loopVars,
     socketVars, callVars, wireVars, serverVars, WireShape,
     RecordedIsUnanswered
<1>4. FreshHandshakes'
  BY DEF Inv, ReceiveHandshake, Settled, loopVars, socketVars, callVars,
     wireVars, FreshHandshakes
<1>5. RecordedIsUnanswered'
  BY DEF Inv, ReceiveHandshake, Settled, loopVars, socketVars, callVars,
     wireVars, RecordedIsUnanswered
<1>6. CopiesBounded'
  BY DEF Inv, ReceiveHandshake, Resend, Settled, loopVars, socketVars,
     callVars, wireVars, serverVars, TypeOK, CopiesBounded
<1>7. PendingIsRecorded'
  BY DEF Inv, ReceiveHandshake, Settled, loopVars, socketVars, callVars,
     wireVars, TypeOK, PendingIsRecorded
<1>8. NothingStuck'
  BY DEF Inv, ReceiveHandshake, Resend, loopVars, socketVars, callVars,
     wireVars, serverVars, retryVars, TypeOK, Ids, Sockets, NothingStuck,
     InFlight, LoopShape, WireShape, Response, Outcomes, FreshHandshakes
<1>9. AttemptsCounted'
  BY AttemptsKept DEF Inv, ReceiveHandshake, Settled, loopVars, socketVars,
     callVars, retryVars, TypeOK, Ids, Sockets
<1> QED BY <1>1, <1>2, <1>3, <1>4, <1>5, <1>6, <1>7, <1>8, <1>9 DEF Inv

LEMMA ReceiveHandshakeErrorInv ==
  ASSUME NEW r \in responses, Inv, ReceiveHandshakeError(r)
  PROVE  Inv'
<1>1. TypeOK'
  BY DEF Inv, ReceiveHandshakeError, Deliver, Settled, CloseEngine,
     loopVars, socketVars, callVars, wireVars, serverVars, retryVars, TypeOK,
     Ids, Sockets, LoopShape, Outcomes, Response
<1>2. LoopShape'
  BY DEF Inv, ReceiveHandshakeError, Deliver, CloseEngine, loopVars,
     socketVars, callVars, wireVars, LoopShape, Allowed, retryVars
<1>3. WireShape'
  BY DEF Inv, ReceiveHandshakeError, Deliver, Settled, CloseEngine,
     loopVars, socketVars, callVars, wireVars, serverVars, WireShape
<1>4. FreshHandshakes'
  BY DEF Inv, ReceiveHandshakeError, Settled, CloseEngine, loopVars,
     socketVars, callVars, wireVars, FreshHandshakes
<1>5. RecordedIsUnanswered'
  BY DEF Inv, ReceiveHandshakeError, Settled, CloseEngine, loopVars,
     socketVars, callVars, wireVars, RecordedIsUnanswered
<1>6. CopiesBounded'
  BY DEF Inv, ReceiveHandshakeError, Settled, CloseEngine, loopVars,
     socketVars, callVars, wireVars, serverVars, CopiesBounded
<1>7. PendingIsRecorded'
  BY DEF Inv, ReceiveHandshakeError, CloseEngine, loopVars, socketVars,
     callVars, wireVars, PendingIsRecorded
<1>8. NothingStuck'
  BY DEF Inv, ReceiveHandshakeError, CloseEngine, loopVars, socketVars,
     callVars, wireVars, serverVars, retryVars, TypeOK, Ids, Sockets,
     NothingStuck, InFlight, LoopShape, WireShape, Response, Outcomes,
     FreshHandshakes
<1>9. AttemptsCounted'
  BY AttemptsKept DEF Inv, ReceiveHandshakeError, Settled, CloseEngine,
     loopVars, socketVars, callVars, retryVars, TypeOK, Ids, Sockets
<1> QED BY <1>1, <1>2, <1>3, <1>4, <1>5, <1>6, <1>7, <1>8, <1>9 DEF Inv

LEMMA InitInv == Init => Inv
<1> SUFFICES ASSUME Init PROVE Inv
  OBVIOUS
<1> USE DEF Init
<1>1. TypeOK
  <2>1. sockets \in 0..MaxSockets
    BY BoundAssumption
  <2> QED BY <2>1 DEF TypeOK, Outcomes
<1>2. LoopShape /\ WireShape /\ FreshHandshakes /\ RecordedIsUnanswered
  BY DEF LoopShape, WireShape, FreshHandshakes, RecordedIsUnanswered, Ids, Sockets
<1>3. CopiesBounded
  BY DEF CopiesBounded
<1>4. AttemptsCounted
  BY OptionsType, <1>1 DEF AttemptsCounted, TypeOK
<1>5. PendingIsRecorded /\ NothingStuck
  BY DEF PendingIsRecorded, NothingStuck
<1> QED BY <1>1, <1>2, <1>3, <1>4, <1>5 DEF Inv

LEMMA NextInv == Inv /\ [Next]_vars => Inv'
<1> SUFFICES ASSUME Inv, [Next]_vars PROVE Inv'
  OBVIOUS
<1>1. CASE Loop
  BY <1>1, OpenInv, SocketOpensInv, SocketStartsClosingInv, SocketClosesAndLoopsInv,
     SocketClosesForGoodInv, CooldownEndsInv, CooldownEndsClosedInv DEF Loop, SocketCloses
<1>2. CASE Close
  BY <1>2, CloseInv
<1>3. ASSUME NEW c \in Calls, Send(c) PROVE Inv'
  BY <1>3, SendUnavailableInv, SendRecordedInv, SendThrowsInv DEF Send
<1>4. ASSUME NEW i \in Ids, NEW ok \in BOOLEAN, Execute(i, ok) PROVE Inv'
  BY <1>4, ExecuteInv
<1>5. ASSUME NEW r \in responses, Receive(r) PROVE Inv'
  BY <1>5, ReceiveResponseInv, ReceiveHandshakeInv, ReceiveHandshakeErrorInv DEF Receive
<1>6. CASE UNCHANGED vars
  BY <1>6 DEF vars, loopVars, socketVars, callVars, wireVars, serverVars, retryVars,
     Inv, TypeOK, LoopShape, Allowed, WireShape, FreshHandshakes, RecordedIsUnanswered,
     CopiesBounded, AttemptsCounted, NeverOpened, PendingIsRecorded, NothingStuck, InFlight
<1> QED BY <1>1, <1>2, <1>3, <1>4, <1>5, <1>6 DEF Next

-----------------------------------------------------------------------------
(* What the invariant gives.                                               *)

(* The invariant, the types included, holds in every reachable state of    *)
(* the engine: socket events, timers, send() and close() in any order.     *)
THEOREM Invariance == Spec => []Inv
<1> QED BY InitInv, NextInv, PTL DEF Spec

(* However the connections of open()'s loop come and go, a call that was   *)
(* neither settled nor given up with a close() is still in #calls.         *)
THEOREM NoCallForgotten == Spec => []PendingIsRecorded
<1>1. Inv => PendingIsRecorded
  BY DEF Inv
<1> QED BY <1>1, Invariance, PTL

(* ready() leaves no recorded call behind on a live connection, and a      *)
(* connection that is not restored has its handshake under way.            *)
THEOREM NoCallStuck == Spec => []NothingStuck
<1>1. Inv => NothingStuck
  BY DEF Inv
<1> QED BY <1>1, Invariance, PTL

(* A call is executed more than once only because ready() sent it again,   *)
(* at most once for each ready() since it was made.                        *)
THEOREM BoundedDuplicates == Spec => []DuplicatesComeFromReady
<1>1. Inv => DuplicatesComeFromReady
  BY DEF Inv, TypeOK, CopiesBounded, DuplicatesComeFromReady
<1> QED BY <1>1, Invariance, PTL

(* The rejection of createSocket() for want of _state is unreachable.      *)
THEOREM LoopSurvives == Spec => []LoopNeverDiesSilently
<1>1. Inv => LoopNeverDiesSilently
  BY DEF Inv, LoopShape, LoopNeverDiesSilently
<1> QED BY <1>1, Invariance, PTL

(* The reconnect context stops the loop exactly when its attempts are used *)
(* up: no more sockets in a row without a connection than configured.      *)
THEOREM ExhaustionIsExact == Spec => []GivesUpOnlyWhenExhausted
<1>1. ASSUME Inv PROVE GivesUpOnlyWhenExhausted
  <2>1. attempts \in Nat /\ sockets \in Nat /\ options.attempts \in Int
    BY <1>1, BoundAssumption, OptionsType DEF Inv, TypeOK
  <2>2. ASSUME options.attempts # -1, NEW s \in 1..sockets, NeverOpened(s)
        PROVE  sockets - s < options.attempts + (IF s = 1 THEN 1 ELSE 0)
    BY <1>1, <2>1, <2>2 DEF Inv, AttemptsCounted
  <2> QED BY <1>1, <2>2 DEF Inv, LoopShape, GivesUpOnlyWhenExhausted
<1> QED BY <1>1, Invariance, PTL

(* An answered call is never transmitted again: ready() sends only what is *)
(* in #calls, and handleRpcResponse() has removed it.                      *)
THEOREM NoResendAfterAnswer == Spec => AnsweredIsNotResent
<1> DEFINE Kept == \A i \in Ids : outcome[i] \in {"resolved", "failed"} =>
                      requests'[i] <= requests[i]
<1>1. ASSUME Inv, [Next]_vars PROVE Kept
  <2> SUFFICES ASSUME NEW i \in Ids, outcome[i] \in {"resolved", "failed"}
               PROVE  requests'[i] <= requests[i]
    OBVIOUS
  <2>1. i \notin calls /\ requests[i] \in Nat /\ requests \in [Ids -> Nat]
    BY <1>1 DEF Inv, TypeOK, RecordedIsUnanswered
  <2>2. CASE Loop
    <3>1. SocketOpens => i # sockets
      <4>1. SocketOpens => sockets \in Sockets
        BY <1>1, BoundAssumption DEF Inv, TypeOK, LoopShape, SocketOpens, Sockets
      <4> QED BY <1>1, <4>1 DEF Inv, FreshHandshakes, SocketOpens
    <3> QED BY <2>1, <2>2, <3>1 DEF Loop, Open, SocketOpens, SocketStartsClosing, SocketCloses,
          SocketClosesAndLoops, SocketClosesForGood, DropSocket, CooldownEnds,
          CooldownEndsClosed, wireVars
  <2>3. CASE Close
    BY <2>1, <2>3 DEF Close, wireVars
  <2>4. ASSUME NEW c \in Calls, Send(c) PROVE requests'[i] <= requests[i]
    BY <2>1, <2>4 DEF Send, SendUnavailable, SendRecorded, SendThrows, wireVars
  <2>5. ASSUME NEW j \in Ids, NEW ok \in BOOLEAN, Execute(j, ok)
        PROVE  requests'[i] <= requests[i]
    BY <2>1, <2>5 DEF Execute
  <2>6. ASSUME NEW r \in responses, Receive(r) PROVE requests'[i] <= requests[i]
    BY <2>1, <2>6 DEF Receive, ReceiveResponse, ReceiveHandshake, ReceiveHandshakeError,
       Resend, Settled
  <2>7. CASE UNCHANGED vars
    BY <2>1, <2>7 DEF vars, wireVars
  <2> QED BY <1>1, <2>2, <2>3, <2>4, <2>5, <2>6, <2>7 DEF Next
<1>2. Kept <=> (\A i \in Ids : outcome[i] \in {"resolved", "failed"} =>
                   requests'[i] <= requests[i])
  OBVIOUS
<1> QED BY <1>1, <1>2, Invariance, PTL DEF Spec, AnsweredIsNotResent

(* No lifecycle event follows "disconnected": what is left of a closed     *)
(* loop (a socket that still closes, a cooldown) publishes nothing else.   *)
THEOREM DisconnectedStays == Spec => DisconnectedIsFinal
<1>1. ASSUME Inv, [Next]_vars, status = "disconnected" PROVE status' = "disconnected"
  <2> USE DEF Inv, LoopShape
  <2>1. CASE Loop
    BY <1>1, <2>1 DEF Loop, Open, CreateSocket, SocketOpens, SocketStartsClosing, SocketCloses,
       SocketClosesAndLoops, GoesOn, SocketClosesForGood, CooldownEnds, CooldownEndsClosed
  <2>2. CASE Close
    BY <1>1, <2>2 DEF Close, Attached
  <2>3. ASSUME NEW c \in Calls, Send(c) PROVE FALSE
    BY <1>1, <2>3 DEF Send, SendUnavailable, SendRecorded, SendThrows, Attached
  <2>4. ASSUME NEW i \in Ids, NEW ok \in BOOLEAN, Execute(i, ok) PROVE UNCHANGED status
    BY <2>4 DEF Execute
  <2>5. ASSUME NEW r \in responses, Receive(r) PROVE status' = "disconnected"
    BY <1>1, <2>5 DEF Receive, ReceiveResponse, ReceiveHandshake, ReceiveHandshakeError,
       CloseEngine, Deliver
  <2>6. CASE UNCHANGED vars
    BY <1>1, <2>6 DEF vars
  <2> QED BY <1>1, <2>1, <2>2, <2>3, <2>4, <2>5, <2>6 DEF Next
<1>2. Inv /\ [Next]_vars => [status = "disconnected" => status' = "disconnected"]_status
  BY <1>1
<1> QED BY <1>2, Invariance, PTL DEF Spec, DisconnectedIsFinal

(* close() ends the reconnecting for good.                                 *)
THEOREM CloseEndsReconnecting == Spec => NoSocketAfterClose
<1>1. ASSUME Inv, [Next]_vars, terminated PROVE sockets' = sockets
  <2>1. CASE Loop
    BY <1>1, <2>1 DEF Inv, LoopShape, Loop, Open, SocketOpens, SocketStartsClosing,
       SocketCloses, SocketClosesAndLoops, SocketClosesForGood, CooldownEnds,
       CooldownEndsClosed, socketVars
  <2>2. CASE Close
    BY <2>2 DEF Close
  <2>3. ASSUME NEW c \in Calls, Send(c) PROVE sockets' = sockets
    BY <2>3 DEF Send, SendUnavailable, SendRecorded, SendThrows, socketVars
  <2>4. ASSUME NEW i \in Ids, NEW ok \in BOOLEAN, Execute(i, ok) PROVE sockets' = sockets
    BY <2>4 DEF Execute, socketVars
  <2>5. ASSUME NEW r \in responses, Receive(r) PROVE sockets' = sockets
    BY <2>5 DEF Receive, ReceiveResponse, ReceiveHandshake, ReceiveHandshakeError, socketVars
  <2>6. CASE UNCHANGED vars
    BY <2>6 DEF vars, socketVars
  <2> QED BY <1>1, <2>1, <2>2, <2>3, <2>4, <2>5, <2>6 DEF Next
<1>2. Inv /\ [Next]_vars => [terminated => sockets' = sockets]_sockets
  BY <1>1
<1> QED BY <1>2, Invariance, PTL DEF Spec, NoSocketAfterClose

-----------------------------------------------------------------------------
(* The engine implements RpcChannel.                                       *)

LEMMA ChannelInit == Init => Channel!Init
BY DEF Init, Ids, Channel!Init

LEMMA ChannelStutter ==
  ASSUME UNCHANGED <<outcome, executed, results>>,
         (status = "disconnected") = (status' = "disconnected")
  PROVE  UNCHANGED Channel!vars
BY DEF Channel!vars

LEMMA ChannelIssue ==
  ASSUME Inv, NEW c \in Calls, Send(c)
  PROVE  Channel!Issue(c)
BY DEF Inv, TypeOK, Ids, Send, SendUnavailable, SendRecorded, SendThrows, Attached, serverVars,
   Channel!Issue, Channel!Refusals

LEMMA ChannelExecute ==
  ASSUME Inv, NEW c \in Calls, NEW ok \in BOOLEAN, Execute(c, ok)
  PROVE  Channel!Execute(c, ok)
<1>1. c \in Ids
  BY DEF Ids
<1>2. outcome[c] \notin {"unissued", "unavailable"}
  BY <1>1 DEF Inv, WireShape, Execute
<1>3. executed' = [executed EXCEPT ![c] = @ + 1] /\ results' = [results EXCEPT ![c] = @ \cup {ok}]
  BY DEF Execute
<1>4. [d \in Calls |-> executed[d]]' = [[d \in Calls |-> executed[d]] EXCEPT ![c] = @ + 1]
  BY <1>3 DEF Inv, TypeOK, Ids
<1>5. [d \in Calls |-> results[d]]' = [[d \in Calls |-> results[d]] EXCEPT ![c] = @ \cup {ok}]
  BY <1>3 DEF Inv, TypeOK, Ids
<1>6. UNCHANGED <<outcome, status>>
  BY DEF Execute, callVars
<1> QED BY <1>2, <1>4, <1>5, <1>6 DEF Channel!Execute

LEMMA ChannelAnswer ==
  ASSUME Inv, NEW r \in responses, ReceiveResponse(r)
  PROVE  Channel!Answer(r.id, r.ok) \/ UNCHANGED Channel!vars
BY DEF Inv, TypeOK, WireShape, RecordedIsUnanswered, Ids, Response, ReceiveResponse, Deliver,
   Settled, serverVars, Channel!Answer, Channel!vars

LEMMA ChannelCloseForGood ==
  ASSUME Inv, SocketClosesForGood
  PROVE  Channel!Disconnect \/ UNCHANGED Channel!vars
<1>1. \A i \in Ids : outcome[i] = "pending" /\ ~terminated => i \in calls
  BY DEF Inv, PendingIsRecorded
<1>2. CASE terminated
  BY <1>2 DEF Inv, TypeOK, Ids, SocketClosesForGood, serverVars, Channel!Disconnect, Channel!vars
<1>3. CASE ~terminated
  <2>1. [c \in Calls |-> outcome[c]]' =
          [c \in Calls |-> IF outcome[c] = "pending" THEN "terminated" ELSE outcome[c]]
    BY <1>1, <1>3 DEF Inv, TypeOK, Ids, SocketClosesForGood
  <2>2. status # "disconnected" /\ status' = "disconnected"
    BY <1>3 DEF Inv, LoopShape, SocketClosesForGood
  <2> QED BY <2>1, <2>2 DEF SocketClosesForGood, serverVars, Channel!Disconnect
<1> QED BY <1>2, <1>3

LEMMA ChannelClose ==
  ASSUME Inv, CloseEngine,
         [c \in Calls |-> outcome[c]]' = [c \in Calls |-> outcome[c]],
         UNCHANGED <<executed, results>>
  PROVE  Channel!Disconnect \/ UNCHANGED Channel!vars
BY DEF Inv, LoopShape, CloseEngine, Channel!Disconnect, Channel!vars

\* Every step of the engine is a step of the channel, or none: what the loop
\* does until it gives up, and the handshakes, are invisible.
LEMMA ChannelStep ==
  ASSUME Inv, [Next]_vars
  PROVE  [Channel!Next]_Channel!vars
<1>1. ASSUME NEW c \in Calls, Send(c) PROVE Channel!Next
  BY <1>1, ChannelIssue DEF Channel!Next
<1>2. ASSUME NEW i \in Ids, NEW ok \in BOOLEAN, Execute(i, ok)
      PROVE  [Channel!Next]_Channel!vars
  <2>1. CASE i \in Calls
    BY <1>2, <2>1, ChannelExecute DEF Channel!Next
  <2>2. CASE i \notin Calls
    <3>1. executed' = [executed EXCEPT ![i] = @ + 1] /\ results' = [results EXCEPT ![i] = @ \cup {ok}]
      BY <1>2 DEF Execute
    <3>2. [c \in Calls |-> executed[c]]' = [c \in Calls |-> executed[c]]
      BY <2>2, <3>1 DEF Inv, TypeOK, Ids
    <3>3. [c \in Calls |-> results[c]]' = [c \in Calls |-> results[c]]
      BY <2>2, <3>1 DEF Inv, TypeOK, Ids
    <3> QED BY <1>2, <3>2, <3>3 DEF Execute, callVars, Channel!vars
  <2> QED BY <2>1, <2>2
<1>3. ASSUME NEW r \in responses, Receive(r) PROVE [Channel!Next]_Channel!vars
  <2>1. r \in Response
    BY DEF Inv, TypeOK
  <2>2. CASE ReceiveResponse(r)
    <3>1. CASE Channel!Answer(r.id, r.ok) /\ r.id \in Calls
      BY <2>1, <3>1 DEF Response, Channel!Next
    <3>2. CASE r.id \notin Calls
      BY <2>1, <2>2, <3>2 DEF ReceiveResponse, Deliver, serverVars, Channel!vars
    <3> QED BY <2>2, <3>1, <3>2, ChannelAnswer
  <2>3. ASSUME r.id \in Sockets
        PROVE  [c \in Calls |-> Settled(r)[c]] = [c \in Calls |-> outcome[c]]
    BY <2>1, <2>3, CallsAssumption DEF Inv, TypeOK, Ids, Response, Settled
  <2>4. CASE ReceiveHandshake(r)
    BY <2>3, <2>4 DEF ReceiveHandshake, Deliver, serverVars, Channel!vars
  <2>5. CASE ReceiveHandshakeError(r)
    <3>1. [c \in Calls |-> outcome[c]]' = [c \in Calls |-> outcome[c]]
      BY <2>3, <2>5 DEF ReceiveHandshakeError
    <3>2. CloseEngine /\ UNCHANGED <<executed, results>>
      BY <2>5 DEF ReceiveHandshakeError, serverVars
    <3> QED BY <3>1, <3>2, ChannelClose DEF Channel!Next
  <2> QED BY <1>3, <2>2, <2>4, <2>5 DEF Receive
<1>4. CASE Close
  <2>1. CloseEngine /\ UNCHANGED <<outcome, executed, results>>
    BY <1>4 DEF Close, callVars, serverVars
  <2> QED BY <2>1, ChannelClose DEF Channel!Next
<1>5. CASE Loop
  <2>1. CASE SocketClosesForGood
    BY <2>1, ChannelCloseForGood DEF Channel!Next
  <2>2. CASE SocketOpens
    <3>1. sockets \in Sockets /\ status # "disconnected" /\ status' = "connected"
      BY <2>2 DEF Inv, TypeOK, LoopShape, Sockets, SocketOpens
    <3>2. [c \in Calls |-> outcome[c]]' = [c \in Calls |-> outcome[c]]
      BY <2>2, <3>1, CallsAssumption DEF Inv, TypeOK, Ids, SocketOpens
    <3> QED BY <2>2, <3>1, <3>2 DEF SocketOpens, serverVars, Channel!vars
  <2>3. CASE Open
    BY <2>3 DEF Open, callVars, serverVars, Channel!vars
  <2>4. CASE SocketStartsClosing
    BY <2>4 DEF SocketStartsClosing, callVars, serverVars, Channel!vars
  <2>5. CASE SocketClosesAndLoops
    BY <2>5 DEF Inv, LoopShape, SocketClosesAndLoops, GoesOn, callVars, serverVars, Channel!vars
  <2>6. CASE CooldownEnds \/ CooldownEndsClosed
    BY <2>6 DEF CooldownEnds, CooldownEndsClosed, callVars, serverVars, Channel!vars
  <2> QED BY <1>5, <2>1, <2>2, <2>3, <2>4, <2>5, <2>6 DEF Loop, SocketCloses
<1>6. CASE UNCHANGED vars
  BY <1>6 DEF vars, callVars, serverVars, Channel!vars
<1> QED BY <1>1, <1>2, <1>3, <1>4, <1>5, <1>6 DEF Next

(* The engine implements the channel: whatever happens to its sockets, its *)
(* callers see only what RpcChannel allows, for every set of calls, every  *)
(* number of reconnects and every set of reconnect options.                *)
THEOREM Implementation == Spec => ImplementsChannel
<1>1. Inv /\ [Next]_vars => [Channel!Next]_Channel!vars
  BY ChannelStep
<1> QED BY <1>1, ChannelInit, Invariance, PTL DEF Spec, ImplementsChannel, Channel!Spec

-----------------------------------------------------------------------------
(* The engine of the controller.                                           *)

LEMMA LifecycleInit == Init => Lifecycle!Init
BY DEF Init, Lifecycle!Init

\* Every step is one of the life the controller sees, or shows it nothing.
LEMMA LifecycleStep ==
  ASSUME Inv, [Next]_vars
  PROVE  [Lifecycle!Next]_Lifecycle!vars
<1> USE DEF Lifecycle!Next, Lifecycle!Network, Lifecycle!Timer, Lifecycle!vars
<1>1. CASE Open
  BY <1>1 DEF Inv, TypeOK, LoopShape, Open, CreateSocket, Lifecycle!Open, Lifecycle!CreateSocket
<1>2. CASE SocketOpens
  BY <1>2 DEF SocketOpens, loopVars, Lifecycle!SocketOpens
<1>3. CASE SocketStartsClosing
  BY <1>3 DEF SocketStartsClosing, loopVars, Lifecycle!SocketStartsClosing
<1>4. CASE SocketCloses
  BY <1>4 DEF SocketCloses, SocketClosesAndLoops, SocketClosesForGood, DropSocket, GoesOn,
     Lifecycle!SocketClosesAndLoops, Lifecycle!SocketClosesForGood
<1>5. CASE CooldownEnds
  BY <1>5 DEF CooldownEnds, CreateSocket, Lifecycle!CooldownEnds, Lifecycle!CreateSocket
<1>6. CASE CooldownEndsClosed
  BY <1>6 DEF CooldownEndsClosed, socketVars, Lifecycle!CooldownEndsClosed
<1>7. ASSUME CloseEngine, UNCHANGED <<loop, sockets, restored, active>>, loop # "new"
      PROVE  Lifecycle!Close
  BY <1>7 DEF CloseEngine, Lifecycle!Close
<1>8. CASE Close
  BY <1>7, <1>8 DEF Close, Attached
<1>9. ASSUME NEW c \in Calls, Send(c) PROVE UNCHANGED Lifecycle!vars
  BY <1>9 DEF Send, SendUnavailable, SendRecorded, SendThrows, loopVars, socketVars
<1>10. ASSUME NEW i \in Ids, NEW ok \in BOOLEAN, Execute(i, ok) PROVE UNCHANGED Lifecycle!vars
  BY <1>10 DEF Execute, loopVars, socketVars
<1>11. ASSUME NEW r \in responses, Receive(r) PROVE [Lifecycle!Next]_Lifecycle!vars
  <2>1. CASE ReceiveResponse(r)
    BY <2>1 DEF ReceiveResponse, loopVars, socketVars
  <2>2. CASE ReceiveHandshake(r)
    BY <2>2 DEF ReceiveHandshake, Deliver, loopVars, Lifecycle!Ready
  <2>3. CASE ReceiveHandshakeError(r)
    <3>1. loop # "new"
      BY <2>3 DEF Inv, LoopShape, ReceiveHandshakeError, Deliver
    <3> QED BY <1>7, <2>3, <3>1 DEF ReceiveHandshakeError
  <2> QED BY <1>11, <2>1, <2>2, <2>3 DEF Receive
<1>12. CASE UNCHANGED vars
  BY <1>12 DEF vars, loopVars, socketVars
<1> QED BY <1>1, <1>2, <1>3, <1>4, <1>5, <1>6, <1>8, <1>9, <1>10, <1>11, <1>12 DEF Next, Loop

(* The engine lives the life its controller counts on: every way through   *)
(* open()'s loop, close() and ready() is one EngineLifecycle allows, for   *)
(* every set of calls and of reconnect options.                            *)
THEOREM LifeOfAnEngine == Spec => ImplementsLifecycle
<1>1. Inv /\ [Next]_vars => [Lifecycle!Next]_Lifecycle!vars
  BY LifecycleStep
<1> QED BY <1>1, LifecycleInit, Invariance, PTL DEF Spec, ImplementsLifecycle, Lifecycle!Spec
=============================================================================
