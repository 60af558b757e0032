---------------------------- MODULE ServicesProofs ----------------------------
(***************************************************************************)
(* Proofs about the transport of the Spectron client and about the engines *)
(* that run the database in process.                                       *)
(*                                                                         *)
(* The client: for every number of calls, texts and retries, and every     *)
(* length of the time bucket, however requests are lost, delayed and       *)
(* repeated, a write takes effect at most once.                            *)
(*                                                                         *)
(* The engines: for every number of calls and of close()s, whatever is     *)
(* asked while open() or close() is under way, a closed engine is over,    *)
(* and one that says it is connected can be used.                          *)
(***************************************************************************)
EXTENDS MCServices, Sequences, TLAPS

-----------------------------------------------------------------------------
(* The transport of the Spectron client.                                   *)

Keys == [text : Texts, bucket : Nat]

\* What the proofs assume of the constants: bounds are numbers, a bucket has a
\* length, and the absence of a key is not a key.
Assumptions ==
  /\ MaxRetries \in Nat /\ MaxClock \in Nat /\ Bucket \in Nat \ {0}
  /\ None \notin Keys

Places == {"idle", "fetching", "reading", "sleeping", "done", "failed"}

Reasons == {"ConnectionError", "ServerError", "AuthError", "ScopeError", "NotFoundError",
            "RateLimitError", "ValidationError", "SpectronError"}

\* What is kept of a call.
Records ==
  [op : Operations \cup {None}, text : Texts \cup {None}, key : Keys \cup {None},
   attempt : 0..MaxRetries, at : Places, status : {NoStatus} \cup Statuses,
   said : Reasons \cup {None}]

Shapes ==
  /\ clock \in 0..MaxClock
  /\ call \in [Calls -> Records]
  /\ travelling \subseteq [call : Calls, attempt : Nat, key : Keys \cup {None}]
  /\ seen \subseteq Keys
  /\ effects \in [Calls -> Nat]
  /\ stored \subseteq Texts

\* A request carries the key of its call, of an attempt its call has made.
RequestsAreOfCalls ==
  \A r \in travelling : /\ call[r.call].at # "idle"
                        /\ r.key = call[r.call].key
                        /\ r.attempt <= call[r.call].attempt

\* Calls that are idempotent have a key, which tells their text; others none.
KeysTellTexts ==
  \A c \in Calls : call[c].at # "idle" =>
    /\ call[c].text \in Texts
    /\ IF call[c].op.idempotent
         THEN call[c].key \in Keys /\ call[c].key.text = call[c].text
         ELSE call[c].key = None

\* Only what may be repeated is, and while there are retries left.
SleepersMayRetry ==
  \A c \in Calls : call[c].at = "sleeping" =>
    /\ call[c].attempt < MaxRetries
    /\ call[c].op.method = "GET" \/ call[c].op.idempotent

WritesWithoutKeyAreSentOnce ==
  \A c \in Calls :
    call[c].at # "idle" /\ call[c].op.method # "GET" /\ ~call[c].op.idempotent
      => call[c].attempt = 0

\* Of a write that took effect the server has the key, or nothing is on its
\* way to repeat it.
EffectsAreFinal ==
  \A c \in Calls :
    /\ effects[c] \in {0, 1}
    /\ effects[c] = 1 =>
         /\ call[c].at # "idle" /\ call[c].op.method # "GET"
         /\ IF call[c].op.idempotent THEN call[c].key \in seen
                                     ELSE \A r \in travelling : r.call # c

SeenIsStored == \A k \in seen : k.text \in stored

AnsweredIsStored ==
  \A c \in Calls :
    /\ call[c].op.method # "GET"
    /\ call[c].at = "done" \/ (call[c].at = "reading" /\ call[c].status = 200)
    => call[c].text \in stored

Inv ==
  /\ Shapes
  /\ RequestsAreOfCalls
  /\ KeysTellTexts
  /\ SleepersMayRetry
  /\ WritesWithoutKeyAreSentOnce
  /\ EffectsAreFinal
  /\ SeenIsStored
  /\ AnsweredIsStored

\* A step of the calls: how far they are changes, what they ask for does not.
CallsAdvance ==
  /\ call' \in [Calls -> Records]
  /\ KeysTellTexts' /\ SleepersMayRetry' /\ WritesWithoutKeyAreSentOnce'
  /\ AnsweredIsStored'
  /\ \A d \in Calls : /\ call'[d].op = call[d].op /\ call'[d].text = call[d].text
                      /\ call'[d].key = call[d].key
                      /\ call'[d].attempt = call[d].attempt
                      /\ call'[d].at = "idle" <=> call[d].at = "idle"

-----------------------------------------------------------------------------

LEMMA InvImplies == ASSUME Assumptions, Inv PROVE TypeOK /\ WrittenOnce /\ ResolvedIsWritten
<1>1. TypeOK
  BY DEF Assumptions, Inv, Shapes, Records, RequestsAreOfCalls, TypeOK, Places
<1>2. WrittenOnce
  BY DEF Inv, Shapes, Records, EffectsAreFinal, WrittenOnce
<1>3. ResolvedIsWritten
  BY DEF Inv, AnsweredIsStored, ResolvedIsWritten
<1> QED BY <1>1, <1>2, <1>3

LEMMA InitInv == ASSUME Assumptions, Init PROVE Inv
<1>1. Shapes
  BY DEF Assumptions, Init, Idle, Shapes, Records, Places, NoStatus
<1>2. \A c \in Calls : call[c].at = "idle" /\ effects[c] = 0
  BY DEF Init, Idle
<1> QED
  BY <1>1, <1>2 DEF Init, Inv, RequestsAreOfCalls, KeysTellTexts, SleepersMayRetry,
     WritesWithoutKeyAreSentOnce, EffectsAreFinal, SeenIsStored, AnsweredIsStored

\* The end of a call, or of an attempt: the request itself stays what it was.
LEMMA CallsMoveOn ==
  ASSUME Assumptions, Inv, NEW c \in Calls, call[c].at # "idle",
         NEW place \in Places \ {"idle"}, NEW said \in Reasons \cup {None},
         NEW code \in {NoStatus} \cup Statuses,
         call' = [call EXCEPT ![c].at = place, ![c].said = said, ![c].status = code],
         place = "sleeping" =>
           call[c].attempt < MaxRetries /\ (call[c].op.method = "GET" \/ call[c].op.idempotent),
         (/\ call[c].op.method # "GET"
          /\ place = "done" \/ (place = "reading" /\ code = 200))
           => call[c].text \in stored',
         stored \subseteq stored', stored' \subseteq Texts
  PROVE  CallsAdvance
<1>1. call' = [call EXCEPT ![c] = [call[c] EXCEPT !.at = place, !.said = said, !.status = code]]
  BY DEF Inv, Shapes, Records
<1>2. /\ call' \in [Calls -> Records]
      /\ call'[c].at = place /\ call'[c].status = code
      /\ \A d \in Calls \ {c} : call'[d] = call[d]
  BY <1>1 DEF Inv, Shapes, Records
<1>3. \A d \in Calls : /\ call'[d].op = call[d].op /\ call'[d].text = call[d].text
                       /\ call'[d].key = call[d].key
                       /\ call'[d].attempt = call[d].attempt
                       /\ call'[d].at = "idle" <=> call[d].at = "idle"
  BY <1>1 DEF Inv, Shapes, Records
<1>4. KeysTellTexts'
  BY ZenonT(40), <1>3 DEF Inv, KeysTellTexts
<1>5. SleepersMayRetry'
  BY <1>2, <1>3 DEF Inv, SleepersMayRetry
<1>6. WritesWithoutKeyAreSentOnce'
  BY ZenonT(40), <1>3 DEF Inv, WritesWithoutKeyAreSentOnce
<1>7. AnsweredIsStored'
  BY <1>2, <1>3 DEF Inv, AnsweredIsStored
<1> QED BY <1>2, <1>3, <1>4, <1>5, <1>6, <1>7 DEF CallsAdvance
-----------------------------------------------------------------------------
(* One lemma per action.                                                   *)

\* What a step leaves alone if it changes no more than how far a call is.
LEMMA OnlyCallsMove ==
  ASSUME Assumptions, Inv, NEW c \in Calls, call[c].at # "idle",
         NEW place \in Places \ {"idle"}, NEW said \in Reasons \cup {None},
         NEW code \in {NoStatus} \cup Statuses,
         call' = [call EXCEPT ![c].at = place, ![c].said = said, ![c].status = code],
         place = "sleeping" =>
           call[c].attempt < MaxRetries /\ (call[c].op.method = "GET" \/ call[c].op.idempotent),
         (/\ call[c].op.method # "GET"
          /\ place = "done" \/ (place = "reading" /\ code = 200))
           => call[c].text \in stored,
         UNCHANGED <<clock, travelling, seen, effects, stored>>
  PROVE  Inv'
<1>1. stored \subseteq stored' /\ stored' \subseteq Texts
  BY DEF Inv, Shapes, Records
<1>2. CallsAdvance
  BY <1>1, CallsMoveOn
<1>3. Shapes'
  BY <1>2 DEF CallsAdvance, Inv, Shapes, Records
<1>4. RequestsAreOfCalls'
  BY <1>2 DEF Inv, Shapes, Records, RequestsAreOfCalls
<1>5. EffectsAreFinal'
  BY <1>2 DEF CallsAdvance, Inv, EffectsAreFinal
<1>6. SeenIsStored'
  BY DEF Inv, SeenIsStored
<1> QED BY <1>2, <1>3, <1>4, <1>5, <1>6 DEF CallsAdvance, Inv

LEMMA SettleInv ==
  ASSUME Assumptions, Inv, NEW c \in Calls,
         Break(c) \/ TimesOut(c) \/ ReadBody(c) \/ LoseBody(c)
  PROVE  Inv'
<1>1. /\ call[c].at \in {"fetching", "reading"}
      /\ UNCHANGED <<clock, travelling, seen, effects, stored>>
  BY DEF Break, TimesOut, ReadBody, LoseBody
<1>2. /\ call[c].said \in Reasons \cup {None} /\ call[c].status \in {NoStatus} \cup Statuses
  BY DEF Inv, Shapes, Records
<1>3. ASSUME NEW why \in Reasons, Fails(c, why) PROVE Inv'
  <2>1. call' = [call EXCEPT ![c].at = "failed", ![c].said = why, ![c].status = call[c].status]
    BY <1>3 DEF Fails, Inv, Shapes, Records
  <2>2. "failed" \in Places \ {"idle"} /\ call[c].at # "idle"
    BY <1>1 DEF Places
  <2>3. why \in Reasons \cup {None}
    BY <1>3
  <2> QED BY <1>1, <1>2, <2>1, <2>2, <2>3, OnlyCallsMove
<1>4. ASSUME Sleeps(c), ShouldRetry(call[c].op, NoStatus, call[c].attempt) PROVE Inv'
  <2>1. call' = [call EXCEPT ![c].at = "sleeping", ![c].said = call[c].said,
                             ![c].status = call[c].status]
    BY <1>4 DEF Sleeps, Inv, Shapes, Records
  <2>2. /\ call[c].attempt < MaxRetries
        /\ call[c].op.method = "GET" \/ call[c].op.idempotent
    BY <1>4 DEF ShouldRetry
  <2> QED BY ZenonT(40), <1>1, <1>2, <2>1, <2>2, OnlyCallsMove DEF Places
<1>5. Caught(c) => Inv'
  <2>1. "ConnectionError" \in Reasons
    BY DEF Reasons
  <2> QED BY <1>3, <1>4, <2>1 DEF Caught
<1>6. ErrorOf(call[c].status) \in Reasons
  BY <1>2 DEF ErrorOf, NoStatus, Statuses, Reasons
<1>7. Refused(c, call[c].status) => Inv'
  BY <1>3, <1>4, <1>6 DEF Refused
<1>8. ASSUME call[c].at = "reading", call[c].status = 200,
             call' = [call EXCEPT ![c].at = "done"]
      PROVE  Inv'
  <2> DEFINE same == call[c].said
             kept == call[c].status
  <2>1. call' = [call EXCEPT ![c].at = "done", ![c].said = same, ![c].status = kept]
    <3>1. call' = [call EXCEPT ![c].at = "done"]
      BY <1>8
    <3> QED BY <3>1 DEF Inv, Shapes, Records
  <2>2. call[c].op.method # "GET" => call[c].text \in stored
    BY <1>8 DEF Inv, AnsweredIsStored
  <2>3. same \in Reasons \cup {None} /\ kept \in {NoStatus} \cup Statuses
    BY <1>2
  <2>4. "done" \in Places \ {"idle"} /\ "done" # "sleeping" /\ call[c].at # "idle"
    BY <1>1 DEF Places
  <2> HIDE DEF same, kept
  <2> QED BY <1>1, <2>1, <2>2, <2>3, <2>4, OnlyCallsMove
<1>9. CASE Break(c)
  BY <1>5, <1>9 DEF Break
<1>10. CASE TimesOut(c)
  BY <1>3, <1>10 DEF TimesOut, Reasons
<1>11. CASE ReadBody(c)
  BY <1>7, <1>8, <1>11 DEF ReadBody
<1>12. CASE LoseBody(c)
  BY <1>5, <1>12 DEF LoseBody
<1> QED BY <1>9, <1>10, <1>11, <1>12

LEMMA StartInv == ASSUME Assumptions, Inv, NEW c \in Calls, Start(c) PROVE Inv'
<1>1. call[c].at = "idle" /\ UNCHANGED <<clock, seen, effects, stored>>
  BY DEF Start
<1>2. PICK op \in Operations, text \in Texts :
        /\ call' = [call EXCEPT ![c] = [Idle EXCEPT !.op = op, !.text = text,
                                             !.key = KeyOf(op, text), !.at = "fetching"]]
        /\ travelling' = travelling \cup {Request(c, 0, KeyOf(op, text))}
  BY DEF Start
<1>3. IF op.idempotent THEN KeyOf(op, text) \in Keys /\ KeyOf(op, text).text = text
                       ELSE KeyOf(op, text) = None
  <2>1. clock \div Bucket \in Nat
    BY DEF Assumptions, Inv, Shapes, Records
  <2> QED BY <2>1 DEF KeyOf, IdempotencyKey, Keys
<1>4. /\ call'[c].op = op /\ call'[c].text = text /\ call'[c].key = KeyOf(op, text)
      /\ call'[c].attempt = 0 /\ call'[c].at = "fetching"
      /\ \A d \in Calls \ {c} : call'[d] = call[d]
  BY <1>2 DEF Idle, Inv, Shapes, Records
<1>5. \A r \in travelling : r.call \in Calls \ {c}
  BY <1>1 DEF Inv, Shapes, Records, RequestsAreOfCalls
<1>6. Request(c, 0, KeyOf(op, text)) \in [call : Calls, attempt : Nat, key : Keys \cup {None}]
  BY <1>3 DEF Request
<1>7. Shapes'
  <2>1. KeyOf(op, text) \in Keys \cup {None}
    BY <1>3
  <2>2. [op |-> op, text |-> text, key |-> KeyOf(op, text), attempt |-> 0,
         at |-> "fetching", status |-> NoStatus, said |-> None]
          \in Records
    BY <2>1 DEF Assumptions, Places, Records
  <2>3. call' \in [Calls -> Records]
    BY <1>2, <2>2 DEF Idle, Inv, Shapes, Records
  <2> QED BY <1>1, <1>2, <1>6, <2>3 DEF Inv, Shapes, Records
<1>8. RequestsAreOfCalls'
  BY <1>2, <1>4, <1>5 DEF Inv, RequestsAreOfCalls, Request
<1>9. KeysTellTexts'
  BY <1>3, <1>4 DEF Inv, KeysTellTexts
<1>10. SleepersMayRetry' /\ WritesWithoutKeyAreSentOnce' /\ AnsweredIsStored'
  BY <1>1, <1>4 DEF Inv, SleepersMayRetry, WritesWithoutKeyAreSentOnce, AnsweredIsStored
<1>11. EffectsAreFinal'
  <2>1. effects[c] = 0
    BY <1>1 DEF Inv, EffectsAreFinal
  <2> QED BY <1>1, <1>2, <1>4, <2>1 DEF Inv, EffectsAreFinal, Request
<1>12. SeenIsStored'
  BY <1>1 DEF Inv, SeenIsStored
<1> QED BY <1>7, <1>8, <1>9, <1>10, <1>11, <1>12 DEF Inv

LEMMA WakeInv == ASSUME Assumptions, Inv, NEW c \in Calls, Wake(c) PROVE Inv'
<1>1. call[c].at = "sleeping" /\ UNCHANGED <<clock, seen, effects, stored>>
  BY DEF Wake
<1>2. /\ call' = [call EXCEPT ![c].at = "fetching", ![c].attempt = @ + 1,
                             ![c].key = call[c].key, ![c].status = NoStatus]
      /\ travelling' = travelling \cup {Request(c, call[c].attempt + 1, call[c].key)}
  BY DEF Wake, KeyKept
<1>3. /\ call'[c].op = call[c].op /\ call'[c].text = call[c].text
      /\ call'[c].key = call[c].key /\ call'[c].attempt = call[c].attempt + 1
      /\ call'[c].at = "fetching" /\ \A d \in Calls \ {c} : call'[d] = call[d]
  BY <1>2 DEF Inv, Shapes, Records
<1>4. /\ call[c].attempt < MaxRetries /\ call[c].attempt \in 0..MaxRetries
      /\ call[c].op.method = "GET" \/ call[c].op.idempotent
  BY <1>1 DEF Inv, Shapes, Records, SleepersMayRetry
<1>5. Request(c, call[c].attempt + 1, call[c].key)
        \in [call : Calls, attempt : Nat, key : Keys \cup {None}]
  BY <1>4 DEF Inv, Shapes, Records, Request, Assumptions
<1>6. Shapes'
  <2>1. call[c].attempt + 1 \in 0..MaxRetries
    BY <1>4 DEF Assumptions
  <2>2. call' \in [Calls -> Records]
    BY <1>2, <2>1 DEF Inv, Shapes, Records, Places
  <2> QED BY <1>1, <1>2, <1>5, <2>2 DEF Inv, Shapes, Records
<1>7. RequestsAreOfCalls'
  <2>1. ASSUME NEW r \in travelling
        PROVE  /\ call'[r.call].at # "idle" /\ r.key = call'[r.call].key
               /\ r.attempt <= call'[r.call].attempt
    <3>1. /\ r.call \in Calls /\ r.attempt \in Nat /\ call[r.call].at # "idle"
          /\ r.key = call[r.call].key /\ r.attempt <= call[r.call].attempt
      BY DEF Inv, Shapes, Records, RequestsAreOfCalls
    <3> QED BY <1>3, <1>4, <3>1 DEF Assumptions
  <2>2. ASSUME NEW r, r = Request(c, call[c].attempt + 1, call[c].key)
        PROVE  /\ call'[r.call].at # "idle" /\ r.key = call'[r.call].key
               /\ r.attempt <= call'[r.call].attempt
    <3>1. r.call = c /\ r.attempt = call[c].attempt + 1 /\ r.key = call[c].key
      BY <2>2 DEF Request
    <3>2. call'[c].attempt \in Nat
      BY <1>3, <1>4 DEF Assumptions
    <3> QED BY <1>3, <1>4, <3>1, <3>2
  <2> QED BY <1>2, <2>1, <2>2 DEF RequestsAreOfCalls
<1>8. KeysTellTexts'
  BY <1>1, <1>3 DEF Inv, KeysTellTexts
<1>9. SleepersMayRetry' /\ AnsweredIsStored'
  BY <1>1, <1>3 DEF Inv, SleepersMayRetry, AnsweredIsStored
<1>10. WritesWithoutKeyAreSentOnce'
  BY <1>3, <1>4 DEF Inv, WritesWithoutKeyAreSentOnce
<1>11. EffectsAreFinal'
  <2> SUFFICES ASSUME NEW d \in Calls
               PROVE  /\ effects'[d] \in {0, 1}
                      /\ effects'[d] = 1 =>
                           /\ call'[d].at # "idle" /\ call'[d].op.method # "GET"
                           /\ IF call'[d].op.idempotent THEN call'[d].key \in seen'
                              ELSE \A r \in travelling' : r.call # d
    BY DEF EffectsAreFinal
  <2>1. CASE d = c
    BY <1>1, <1>3, <1>4, <2>1 DEF Inv, EffectsAreFinal
  <2>2. CASE d # c
    <3>1. \A r \in travelling' \ travelling : r.call = c
      BY <1>2 DEF Request
    <3> QED BY <1>1, <1>3, <2>2, <3>1 DEF Inv, EffectsAreFinal
  <2> QED BY <2>1, <2>2
<1>12. SeenIsStored'
  BY <1>1 DEF Inv, SeenIsStored
<1> QED BY <1>6, <1>7, <1>8, <1>9, <1>10, <1>11, <1>12 DEF Inv
\* A request that takes effect is the first of its call, or the only one.
LEMMA EffectIsFirst ==
  ASSUME Assumptions, Inv, NEW r \in travelling, TakesEffect(r)
  PROVE  /\ r.call \in Calls /\ effects[r.call] = 0
         /\ IF call[r.call].op.idempotent
              THEN r.key \in Keys /\ r.key.text = call[r.call].text
              ELSE r.key = None /\ \A q \in travelling \ {r} : q.call # r.call
<1>1. /\ r \in [call : Calls, attempt : Nat, key : Keys \cup {None}]
      /\ r.call \in Calls /\ call[r.call].at # "idle" /\ r.key = call[r.call].key
      /\ r.attempt <= call[r.call].attempt
  BY DEF Inv, Shapes, Records, RequestsAreOfCalls
<1>2. call[r.call].op.method # "GET" /\ (r.key = None \/ r.key \notin seen)
  BY DEF TakesEffect
<1>3. IF call[r.call].op.idempotent THEN r.key \in Keys /\ r.key.text = call[r.call].text
                                    ELSE r.key = None
  BY <1>1 DEF Inv, KeysTellTexts
<1>4. effects[r.call] = 0
  <2>1. effects[r.call] \in {0, 1}
    BY <1>1 DEF Inv, EffectsAreFinal
  <2>2. ASSUME effects[r.call] = 1 PROVE FALSE
    <3>1. IF call[r.call].op.idempotent THEN r.key \in seen
                                        ELSE \A q \in travelling : q.call # r.call
      BY <1>1, <2>2 DEF Inv, EffectsAreFinal
    <3> QED BY <1>2, <1>3, <3>1 DEF Assumptions
  <2> QED BY <2>1, <2>2
<1>5. ASSUME ~call[r.call].op.idempotent, NEW q \in travelling, q.call = r.call
      PROVE  q = r
  <2>1. /\ q \in [call : Calls, attempt : Nat, key : Keys \cup {None}]
        /\ q.key = call[r.call].key /\ q.attempt <= call[r.call].attempt
    BY <1>5 DEF Inv, Shapes, Records, RequestsAreOfCalls
  <2>2. call[r.call].attempt = 0
    BY <1>1, <1>2, <1>5 DEF Inv, WritesWithoutKeyAreSentOnce
  <2>3. q.attempt = 0 /\ r.attempt = 0 /\ q.key = r.key
    BY <1>1, <2>1, <2>2
  <2> QED BY <1>1, <1>5, <2>1, <2>3
<1> QED BY <1>1, <1>3, <1>4, <1>5

LEMMA ArriveInv == ASSUME Assumptions, Inv, NEW r \in travelling, Arrive(r) PROVE Inv'
<1> DEFINE c == r.call
<1>1. PICK code \in Statuses, late \in BOOLEAN :
        /\ late => TakesEffect(r)
        /\ TakesEffect(r) /\ code = 200 => late
        /\ effects' = IF late THEN [effects EXCEPT ![c] = @ + 1] ELSE effects
        /\ stored' = IF late THEN stored \cup {call[c].text} ELSE stored
        /\ seen' = IF late /\ r.key # None THEN seen \cup {r.key} ELSE seen
        /\ IF call[c].at = "fetching" /\ call[c].attempt = r.attempt
             THEN Answered(c, code) ELSE UNCHANGED call
  <2> DEFINE Outcome(code, late) ==
        /\ effects' = IF late THEN [effects EXCEPT ![c] = @ + 1] ELSE effects
        /\ stored' = IF late THEN stored \cup {call[c].text} ELSE stored
        /\ seen' = IF late /\ r.key # None THEN seen \cup {r.key} ELSE seen
        /\ IF call[c].at = "fetching" /\ call[c].attempt = r.attempt
             THEN Answered(c, code) ELSE UNCHANGED call
  <2>1. PICK code \in Statuses :
          \E late \in IF TakesEffect(r) /\ code >= 500 THEN BOOLEAN
                      ELSE {TakesEffect(r) /\ code = 200} : Outcome(code, late)
    BY DEF Arrive
  <2> HIDE DEF Outcome
  <2>2. CASE TakesEffect(r) /\ code >= 500
    <3>1. PICK late \in BOOLEAN : Outcome(code, late)
      BY <2>1, <2>2
    <3>2. code # 200
      BY <2>2 DEF Statuses
    <3> QED BY <2>2, <3>1, <3>2 DEF Outcome
  <2>3. CASE ~(TakesEffect(r) /\ code >= 500)
    BY <2>1, <2>3 DEF Outcome
  <2> QED BY <2>2, <2>3
<1>2. travelling' = travelling \ {r} /\ clock' = clock
  BY DEF Arrive
<1>3. /\ c \in Calls /\ call[c].at # "idle" /\ r.key = call[c].key
      /\ call[c].text \in Texts
  BY DEF Inv, Shapes, Records, RequestsAreOfCalls, KeysTellTexts
<1>4. stored \subseteq stored' /\ stored' \subseteq Texts /\ seen \subseteq seen'
  BY <1>1, <1>3 DEF Inv, Shapes, Records
<1>5. call[c].op.method # "GET" /\ code = 200 => call[c].text \in stored'
  <2>1. CASE TakesEffect(r)
    BY <1>1, <2>1
  <2>2. CASE ~TakesEffect(r) /\ call[c].op.method # "GET"
    <3>1. r.key # None /\ r.key \in seen
      BY <2>2 DEF TakesEffect
    <3>2. r.key.text = call[c].text
      BY <1>3, <3>1 DEF Inv, KeysTellTexts
    <3> QED BY <1>4, <3>1, <3>2 DEF Inv, SeenIsStored
  <2> QED BY <2>1, <2>2
<1>6. SeenIsStored'
  <2>1. CASE late /\ r.key # None
    <3>1. r.key.text = call[c].text
      BY <1>1, <2>1, EffectIsFirst
    <3> QED BY <1>1, <1>4, <2>1, <3>1 DEF Inv, SeenIsStored
  <2>2. CASE ~(late /\ r.key # None)
    BY <1>1, <1>4, <2>2 DEF Inv, SeenIsStored
  <2> QED BY <2>1, <2>2
<1>7. CallsAdvance
  <2>1. ASSUME NEW place \in {"sleeping", "reading"},
               call' = [call EXCEPT ![c].at = place, ![c].status = code],
               place = "sleeping" => ShouldRetry(call[c].op, code, call[c].attempt)
        PROVE  CallsAdvance
    <3> DEFINE said == call[c].said
    <3>1. call' = [call EXCEPT ![c].at = place, ![c].said = said, ![c].status = code]
      BY <1>3, <2>1 DEF Inv, Shapes, Records
    <3>2. /\ said \in Reasons \cup {None} /\ code \in {NoStatus} \cup Statuses
          /\ place \in Places \ {"idle"} /\ place # "done"
      BY <1>3, <2>1 DEF Inv, Shapes, Records, Places
    <3>3. place = "sleeping" =>
            call[c].attempt < MaxRetries /\ (call[c].op.method = "GET" \/ call[c].op.idempotent)
      BY <2>1 DEF ShouldRetry
    <3> HIDE DEF said, c
    <3> QED BY <1>3, <1>4, <1>5, <3>1, <3>2, <3>3, CallsMoveOn
  <2>2. CASE UNCHANGED call
    BY <1>4, <2>2 DEF CallsAdvance, Inv, Shapes, Records, KeysTellTexts, SleepersMayRetry,
       WritesWithoutKeyAreSentOnce, AnsweredIsStored
  <2>3. CASE Answered(c, code)
    BY <2>1, <2>3 DEF Answered
  <2> QED BY <1>1, <2>2, <2>3
<1>8. Shapes'
  <2>1. effects' \in [Calls -> Nat]
    BY <1>1, <1>3 DEF Inv, Shapes, Records
  <2>2. seen' \subseteq Keys
    BY <1>1, <1>3 DEF Inv, Shapes, Records
  <2> QED BY <1>2, <1>4, <1>7, <2>1, <2>2 DEF CallsAdvance, Inv, Shapes, Records
<1>9. RequestsAreOfCalls'
  BY <1>2, <1>7 DEF CallsAdvance, Inv, Shapes, Records, RequestsAreOfCalls
<1>10. EffectsAreFinal'
  <2>1. CASE ~late
    <3>1. effects' = effects
      BY <1>1, <2>1
    <3> QED BY <1>2, <1>4, <1>7, <3>1 DEF CallsAdvance, Inv, EffectsAreFinal
  <2>2. CASE late
    <3>1. /\ effects[c] = 0 /\ call[c].op.method # "GET"
          /\ IF call[c].op.idempotent THEN r.key \in Keys
                                      ELSE \A q \in travelling' : q.call # c
      BY <1>1, <1>2, <2>2, EffectIsFirst DEF TakesEffect
    <3>2. effects' = [effects EXCEPT ![c] = 1]
      BY <1>1, <1>3, <2>2, <3>1 DEF Inv, Shapes, Records
    <3>3. call[c].op.idempotent => call[c].key \in seen'
      BY <1>1, <1>3, <2>2, <3>1 DEF Assumptions
    <3>4. /\ effects'[c] = 1 /\ call'[c].at # "idle" /\ call'[c].op.method # "GET"
          /\ IF call'[c].op.idempotent THEN call'[c].key \in seen'
                                       ELSE \A q \in travelling' : q.call # c
      BY <1>3, <1>7, <3>1, <3>2, <3>3 DEF CallsAdvance, Inv, Shapes, Records
    <3>5. \A d \in Calls \ {c} : effects'[d] = effects[d]
      BY <1>3, <3>2 DEF Inv, Shapes, Records
    <3> HIDE DEF c
    <3> QED BY <1>2, <1>4, <1>7, <3>4, <3>5 DEF CallsAdvance, Inv, EffectsAreFinal
  <2> QED BY <2>1, <2>2
<1> QED BY <1>6, <1>7, <1>8, <1>9, <1>10 DEF CallsAdvance, Inv

LEMMA StepInv == ASSUME Assumptions, Inv, [Next]_vars PROVE Inv'
<1>1. ASSUME NEW c \in Calls, Start(c) PROVE Inv'
  BY <1>1, StartInv
<1>2. ASSUME NEW c \in Calls, Break(c) \/ TimesOut(c) \/ ReadBody(c) \/ LoseBody(c)
      PROVE  Inv'
  BY <1>2, SettleInv
<1>3. ASSUME NEW c \in Calls, Wake(c) PROVE Inv'
  BY <1>3, WakeInv
<1>4. ASSUME NEW r \in travelling, Arrive(r) PROVE Inv'
  BY <1>4, ArriveInv
<1>5. ASSUME NEW r \in travelling, Lose(r) PROVE Inv'
  <2>1. /\ travelling' \subseteq travelling
        /\ UNCHANGED <<clock, call, seen, effects, stored>>
    BY <1>5 DEF Lose
  <2> QED BY <2>1 DEF Inv, Shapes, RequestsAreOfCalls, KeysTellTexts, SleepersMayRetry,
             WritesWithoutKeyAreSentOnce, EffectsAreFinal, SeenIsStored, AnsweredIsStored
<1>6. CASE Tick
  <2>1. clock' \in 0..MaxClock
    BY <1>6 DEF Tick, Inv, Shapes, Records, Assumptions
  <2>2. UNCHANGED <<call, travelling, seen, effects, stored>>
    BY <1>6 DEF Tick
  <2> QED BY <2>1, <2>2 DEF Inv, Shapes, RequestsAreOfCalls, KeysTellTexts, SleepersMayRetry,
             WritesWithoutKeyAreSentOnce, EffectsAreFinal, SeenIsStored, AnsweredIsStored
<1>7. CASE UNCHANGED vars
  BY <1>7 DEF vars, Inv, Shapes, RequestsAreOfCalls, KeysTellTexts, SleepersMayRetry,
     WritesWithoutKeyAreSentOnce, EffectsAreFinal, SeenIsStored, AnsweredIsStored
<1> QED BY <1>1, <1>2, <1>3, <1>4, <1>5, <1>6, <1>7 DEF Next

-----------------------------------------------------------------------------
(* The theorems about the client.                                          *)

(* A write takes effect at most once, whatever is lost, late or repeated:  *)
(* one without a key is never sent again, and one with a key carries the   *)
(* same key in every attempt (transport.ts:144, retry.ts).                 *)
THEOREM WritesOnce == ASSUME Assumptions PROVE Spec => []WrittenOnce
<1>1. Init => Inv
  BY InitInv
<1>2. Inv /\ [Next]_vars => Inv'
  BY StepInv
<1>3. Inv => WrittenOnce
  BY InvImplies
<1> QED BY <1>1, <1>2, <1>3, PTL DEF Spec

(* A write that resolved has been written, by this call or by an identical *)
(* one whose key it shares (idempotency.ts:35).                            *)
THEOREM ResolvedWritesAreStored == ASSUME Assumptions PROVE Spec => [](TypeOK /\ ResolvedIsWritten)
<1>1. Init => Inv
  BY InitInv
<1>2. Inv /\ [Next]_vars => Inv'
  BY StepInv
<1>3. Inv => TypeOK /\ ResolvedIsWritten
  BY InvImplies
<1> QED BY <1>1, <1>2, <1>3, PTL DEF Spec

-----------------------------------------------------------------------------
(* The engines that run the database in process.                           *)

\* Only the engine with a worker sends messages.
OnlyWorkersPost ==
  kind # "worker" => held = << >> /\ inbox = << >> /\ outbox = << >>

\* A close() that came when #initialize had ended found all that it set.
ConnectedInTime ==
  kind # "worker" /\ ~raced /\ Engine!Aborted => ~Engine!Pending(Connect) /\ ~active

\* A worker whose close() returned was terminated, with everything it had.
TerminatedIsOver ==
  kind = "worker" =>
    /\ (\E k \in EngineCloses : at[k] = "ok") => ~active
    /\ ~active => /\ \A r \in Engine!Requests : ~Engine!Pending(r)
                  /\ held = << >> /\ inbox = << >> /\ outbox = << >>
                  /\ db # "live" /\ status = "disconnected"

\* The engines without a worker freed the instance before close() returned.
FreedIsOver ==
  kind # "worker" /\ ~raced /\ (\E k \in EngineCloses : at[k] = "ok") =>
    db # "live" /\ status = "disconnected"

\* What close() looks at tells whether there is an instance to free.
LiveIsKnown ==
  db = "live" => /\ kind = "local" => reader # "none"
                 /\ kind = "node" => handle

\* Nothing is freed before close(): an answer that is on its way is still true.
AnswersAreTrue ==
  ~Engine!Aborted =>
    /\ db \in {"none", "live"}
    /\ kind = "node" => active
    /\ \A i \in 1..Len(outbox) : outbox[i] = <<Connect, "ok">> => db = "live"

OnlyNodeNotifies == at[Connect] = "notifying" => kind = "node"

\* The inductive invariant.
EngineInv ==
  /\ Engine!TypeOK /\ OnlyWorkersPost /\ ConnectedInTime /\ TerminatedIsOver
  /\ FreedIsOver /\ LiveIsKnown /\ AnswersAreTrue /\ OnlyNodeNotifies

-----------------------------------------------------------------------------

\* Requests of different kinds are different.
LEMMA RequestKinds ==
  /\ Connect \in Engine!Requests /\ EngineCalls \subseteq Engine!Requests
  /\ EngineCloses \subseteq Engine!Requests
  /\ \A r \in Engine!Requests : r \notin EngineCalls /\ r \notin EngineCloses => r = Connect
  /\ \A c \in EngineCalls : c # Connect /\ c \notin EngineCloses
  /\ \A k \in EngineCloses : k # Connect /\ k \notin EngineCalls
BY EnginesAssumption DEF Engine!Requests

\* What a request that is put somewhere leaves of the others.
LEMMA PutElsewhere ==
  ASSUME Engine!TypeOK, NEW r \in Engine!Requests,
         NEW where \in {"none"} \cup Engine!Started \cup Engine!Ended, Engine!Put(r, where)
  PROVE  /\ at' \in [Engine!Requests -> {"none"} \cup Engine!Started \cup Engine!Ended]
         /\ at'[r] = where
         /\ \A q \in Engine!Requests \ {r} : at'[q] = at[q]
BY DEF Engine!TypeOK, Engine!Put

\* A call that moves on has no part in whether the engine was opened or closed.
LEMMA CallsMove ==
  ASSUME EngineInv, NEW c \in EngineCalls, NEW where \in Engine!Started \cup Engine!Ended,
         Engine!Put(c, where),
         UNCHANGED <<kind, status, active, handle, db, reader, raced>>,
         kind = "worker" /\ ~active => where \notin Engine!Started /\ UNCHANGED Engine!mail,
         Engine!TypeOK', OnlyWorkersPost', where # "notifying",
         \A i \in 1..Len(outbox') : outbox'[i] = <<Connect, "ok">> =>
            \E j \in 1..Len(outbox) : outbox[j] = <<Connect, "ok">>
  PROVE  EngineInv'
<1> USE RequestKinds
<1>1. /\ \A q \in Engine!Requests \ {c} : at'[q] = at[q]
      /\ at'[c] = where /\ c \in Engine!Requests /\ Engine!TypeOK
  BY PutElsewhere DEF EngineInv
<1>2. \A k \in EngineCloses : at'[k] = at[k]
  BY <1>1
<1>3. at'[Connect] = at[Connect]
  BY <1>1
<1>4. Engine!Aborted' = Engine!Aborted
  BY <1>2 DEF Engine!Aborted
<1>5. ConnectedInTime'
  BY <1>3, <1>4 DEF ConnectedInTime, Engine!Pending, EngineInv
<1>6. TerminatedIsOver'
  <2>1. SUFFICES ASSUME kind = "worker" PROVE TerminatedIsOver'
    BY DEF TerminatedIsOver
  <2>2. (\E k \in EngineCloses : at'[k] = "ok") => ~active'
    BY <1>2, <2>1 DEF TerminatedIsOver, EngineInv
  <2>3. ASSUME ~active'
        PROVE  /\ \A r \in Engine!Requests : ~(at'[r] \in Engine!Started)
               /\ held' = << >> /\ inbox' = << >> /\ outbox' = << >>
               /\ db' # "live" /\ status' = "disconnected"
    <3>1. where \notin Engine!Started /\ UNCHANGED Engine!mail /\ TerminatedIsOver /\ ~active
      BY <2>1, <2>3 DEF EngineInv
    <3>2. \A r \in Engine!Requests : ~(at'[r] \in Engine!Started)
      BY <1>1, <3>1, <2>1 DEF TerminatedIsOver, Engine!Pending
    <3> QED BY <3>1, <3>2, <2>1 DEF TerminatedIsOver, Engine!mail
  <2> QED BY <2>2, <2>3 DEF TerminatedIsOver, Engine!Pending
<1>7. FreedIsOver'
  BY <1>2 DEF FreedIsOver, EngineInv
<1>8. LiveIsKnown'
  BY DEF LiveIsKnown, EngineInv
<1>9. AnswersAreTrue'
  BY <1>4 DEF AnswersAreTrue, EngineInv
<1>10. OnlyNodeNotifies'
  BY <1>3 DEF OnlyNodeNotifies, EngineInv
<1> QED BY <1>5, <1>6, <1>7, <1>8, <1>9, <1>10 DEF EngineInv

\* open() has been called.
LEMMA EngineInitHolds == Engine!Init => EngineInv
<1> SUFFICES ASSUME Engine!Init PROVE EngineInv
  OBVIOUS
<1> USE RequestKinds
<1>1. /\ \A r \in Engine!Requests \ {Connect} : at[r] = "none"
      /\ at[Connect] \in {"held", "library", "opening"}
      /\ at \in [Engine!Requests -> {"none"} \cup Engine!Started \cup Engine!Ended]
  BY EnginesAssumption DEF Engine!Init, Engine!Started
<1>2. ~Engine!Aborted
  BY <1>1 DEF Engine!Aborted
<1>3. Engine!TypeOK
  <2>1. /\ held \in Seq(Engine!Requests) /\ inbox \in Seq(Engine!Requests)
        /\ outbox \in Seq(Engine!Requests \X {"ok", "failed"})
    BY DEF Engine!Init
  <2> QED BY <1>1, <2>1 DEF Engine!TypeOK, Engine!Init
<1>4. OnlyWorkersPost /\ ConnectedInTime /\ LiveIsKnown /\ OnlyNodeNotifies
  BY <1>1, <1>2 DEF Engine!Init, OnlyWorkersPost, ConnectedInTime, LiveIsKnown, OnlyNodeNotifies
<1>5. TerminatedIsOver /\ FreedIsOver
  BY <1>1, <1>2 DEF Engine!Init, TerminatedIsOver, FreedIsOver, Engine!Aborted
<1>6. AnswersAreTrue
  <2>1. Len(outbox) = 0
    BY DEF Engine!Init
  <2>2. 1..Len(outbox) = {}
    BY <2>1
  <2>3. db = "none" /\ (kind = "node" => active)
    BY DEF Engine!Init
  <2> QED BY <2>2, <2>3 DEF AnswersAreTrue
<1> QED BY <1>3, <1>4, <1>5, <1>6 DEF EngineInv

\* An answer that is posted is one to open() only when open() is answered.
LEMMA AnswersPosted ==
  ASSUME Engine!TypeOK, NEW r \in Engine!Requests, r # Connect, NEW how \in {"ok", "failed"},
         outbox' = Append(outbox, <<r, how>>)
  PROVE  /\ outbox' \in Seq(Engine!Requests \X {"ok", "failed"})
         /\ \A i \in 1..Len(outbox') : outbox'[i] = <<Connect, "ok">> =>
              \E j \in 1..Len(outbox) : outbox[j] = <<Connect, "ok">>
<1>1. /\ outbox \in Seq(Engine!Requests \X {"ok", "failed"})
      /\ <<r, how>> \in Engine!Requests \X {"ok", "failed"}
  BY DEF Engine!TypeOK
<1>2. /\ outbox' \in Seq(Engine!Requests \X {"ok", "failed"}) /\ Len(outbox') = Len(outbox) + 1
      /\ \A i \in 1..Len(outbox) : outbox'[i] = outbox[i]
      /\ outbox'[Len(outbox) + 1] = <<r, how>>
  BY <1>1
<1>3. <<r, how>> # <<Connect, "ok">>
  OBVIOUS
<1>4. Len(outbox) \in Nat
  BY <1>1
<1>5. \A i \in 1..Len(outbox') : i \in 1..Len(outbox) \/ i = Len(outbox) + 1
  BY <1>2, <1>4
<1> QED BY <1>2, <1>3, <1>5

\* The application calls: the engine refuses, or the call is sent or run.
LEMMA CallHolds ==
  ASSUME EngineInv, NEW c \in EngineCalls, Engine!Call(c)
  PROVE  EngineInv'
<1> USE RequestKinds
<1>1. /\ at[c] = "none" /\ Engine!TypeOK /\ OnlyWorkersPost
      /\ UNCHANGED <<kind, fresh, status, active, handle, outbox, db, reader, raced>>
  BY DEF Engine!Call, EngineInv
<1>2. ASSUME NEW where \in Engine!Started \cup Engine!Ended, Engine!Put(c, where),
             where # "notifying",
             held' \in Seq(Engine!Requests), inbox' \in Seq(Engine!Requests),
             kind = "worker" /\ ~active => where \notin Engine!Started /\ UNCHANGED Engine!mail,
             kind # "worker" => UNCHANGED Engine!mail
      PROVE  EngineInv'
  <2>1. Engine!TypeOK'
    BY ZenonT(40), <1>1, <1>2, PutElsewhere DEF Engine!TypeOK
  <2>2. OnlyWorkersPost'
    BY <1>1, <1>2 DEF OnlyWorkersPost, Engine!mail
  <2>3. \A i \in 1..Len(outbox') : outbox'[i] = <<Connect, "ok">> =>
          \E j \in 1..Len(outbox) : outbox[j] = <<Connect, "ok">>
    BY <1>1
  <2> QED BY <1>1, <1>2, <2>1, <2>2, <2>3, CallsMove
<1>3. CASE Engine!Accepts /\ kind = "worker"
  <2>1. Engine!Send(c) /\ active
    BY <1>3 DEF Engine!Call, Engine!Accepts
  <2>2. \/ inbox' = Append(inbox, c) /\ Engine!Put(c, "posted") /\ UNCHANGED held
        \/ held' = Append(held, c) /\ Engine!Put(c, "held") /\ UNCHANGED inbox
    BY <2>1 DEF Engine!Send
  <2>3. held' \in Seq(Engine!Requests) /\ inbox' \in Seq(Engine!Requests)
    <3>1. held \in Seq(Engine!Requests) /\ inbox \in Seq(Engine!Requests) /\ c \in Engine!Requests
      BY <1>1 DEF Engine!TypeOK
    <3>2. Append(held, c) \in Seq(Engine!Requests) /\ Append(inbox, c) \in Seq(Engine!Requests)
      BY <3>1
    <3> QED BY <2>2, <3>1, <3>2
  <2>4. "posted" \in Engine!Started /\ "held" \in Engine!Started
    BY DEF Engine!Started
  <2> QED BY <1>2, <1>3, <2>1, <2>2, <2>3, <2>4
<1>4. CASE ~(Engine!Accepts /\ kind = "worker")
  <2>1. /\ Engine!Put(c, IF ~Engine!Accepts THEN "refused" ELSE IF kind = "local" THEN "running" ELSE "queued")
        /\ UNCHANGED Engine!mail
    BY <1>1, <1>4 DEF Engine!Call, Engine!mail
  <2>2. /\ held' \in Seq(Engine!Requests) /\ inbox' \in Seq(Engine!Requests)
    BY <1>1, <2>1 DEF Engine!TypeOK, Engine!mail
  <2>3. /\ "refused" \in Engine!Ended /\ "refused" \notin Engine!Started
        /\ "running" \in Engine!Started /\ "queued" \in Engine!Started
    BY DEF Engine!Started, Engine!Ended
  <2>4. CASE ~Engine!Accepts
    BY <1>2, <2>1, <2>2, <2>3, <2>4
  <2>5. CASE Engine!Accepts
    BY <1>2, <1>4, <2>1, <2>2, <2>3, <2>5 DEF Engine!Accepts
  <2> QED BY <2>4, <2>5
<1> QED BY <1>3, <1>4

\* A call of the Node binding has the lock, before or after free().
LEMMA LockHolds ==
  ASSUME EngineInv, NEW c \in EngineCalls, Engine!TakesLock(c)
  PROVE  EngineInv'
<1> USE RequestKinds
<1>1. /\ at[c] = "queued" /\ Engine!TypeOK /\ OnlyWorkersPost
      /\ UNCHANGED <<kind, fresh, status, active, handle, Engine!mail, db, reader, raced>>
      /\ Engine!Put(c, IF db = "freed" THEN "failed" ELSE "running")
  BY DEF Engine!TakesLock, EngineInv
<1>2. PICK where \in {"failed", "running"} : Engine!Put(c, where)
  BY <1>1
<1>3. /\ "failed" \in Engine!Ended /\ "running" \in Engine!Started /\ "queued" \in Engine!Started
  BY DEF Engine!Started, Engine!Ended
<1>4. ~(kind = "worker" /\ ~active)
  BY <1>1, <1>3 DEF EngineInv, TerminatedIsOver, Engine!Pending
<1>5. Engine!TypeOK'
  BY <1>1, <1>2, <1>3, PutElsewhere DEF Engine!TypeOK, Engine!mail
<1>6. OnlyWorkersPost'
  BY <1>1 DEF OnlyWorkersPost, Engine!mail
<1>7. \A i \in 1..Len(outbox') : outbox'[i] = <<Connect, "ok">> =>
        \E j \in 1..Len(outbox) : outbox[j] = <<Connect, "ok">>
  BY <1>1 DEF Engine!mail
<1> QED BY <1>1, <1>2, <1>3, <1>4, <1>5, <1>6, <1>7, CallsMove

\* The host answers a call.
LEMMA ExecutesHolds ==
  ASSUME EngineInv, NEW c \in EngineCalls, Engine!Executes(c)
  PROVE  EngineInv'
<1> USE RequestKinds
<1>1. /\ at[c] = "running" /\ Engine!TypeOK /\ OnlyWorkersPost
      /\ UNCHANGED <<kind, fresh, active, handle, held, inbox, db, reader, raced>>
  BY DEF Engine!Executes, EngineInv
<1>2. PICK how \in {"ok", "failed"} : Engine!Answer(c, how)
  BY DEF Engine!Executes
<1>3. /\ "running" \in Engine!Started /\ "answered" \in Engine!Started
      /\ {"ok", "failed"} \subseteq Engine!Ended
  BY DEF Engine!Started, Engine!Ended
<1>4. ~(kind = "worker" /\ ~active)
  BY <1>1, <1>3 DEF EngineInv, TerminatedIsOver, Engine!Pending
<1>5. CASE kind = "worker"
  <2>1. Engine!Put(c, "answered") /\ outbox' = Append(outbox, <<c, how>>) /\ UNCHANGED status
    BY <1>2, <1>5 DEF Engine!Answer, Engine!Post
  <2>2. /\ outbox' \in Seq(Engine!Requests \X {"ok", "failed"})
        /\ \A i \in 1..Len(outbox') : outbox'[i] = <<Connect, "ok">> =>
              \E j \in 1..Len(outbox) : outbox[j] = <<Connect, "ok">>
    BY <1>1, <2>1, AnswersPosted
  <2>3. Engine!TypeOK'
    BY <1>1, <1>3, <2>1, <2>2, PutElsewhere DEF Engine!TypeOK
  <2>4. OnlyWorkersPost'
    BY <1>1, <1>5 DEF OnlyWorkersPost
  <2> QED BY <1>1, <1>3, <1>4, <2>1, <2>2, <2>3, <2>4, CallsMove
<1>6. CASE kind # "worker"
  <2>1. Engine!Put(c, how) /\ UNCHANGED <<outbox, status>>
    BY <1>2, <1>6 DEF Engine!Answer, Engine!Settle
  <2>2. Engine!TypeOK'
    BY <1>1, <1>3, <2>1, PutElsewhere DEF Engine!TypeOK
  <2>3. OnlyWorkersPost'
    BY <1>1, <2>1 DEF OnlyWorkersPost
  <2>4. \A i \in 1..Len(outbox') : outbox'[i] = <<Connect, "ok">> =>
          \E j \in 1..Len(outbox) : outbox[j] = <<Connect, "ok">>
    BY <2>1
  <2> QED BY <1>1, <1>3, <1>4, <2>1, <2>2, <2>3, <2>4, CallsMove
<1> QED BY <1>5, <1>6

\* A close() that is under way has begun, and has not returned.
LEMMA ClosesMove ==
  ASSUME EngineInv, NEW k \in EngineCloses,
         Engine!Put(k, "reader") \/ Engine!Put(k, "answered") \/ Engine!Put(k, "failed"),
         at[k] # "none",
         UNCHANGED <<kind, status, active, handle, db, raced>>,
         reader # "none" => reader' # "none",
         kind = "worker" => active, Engine!TypeOK', OnlyWorkersPost'
  PROVE  EngineInv'
<1> USE RequestKinds
<1>1. PICK where \in {"reader", "answered", "failed"} : Engine!Put(k, where)
  OBVIOUS
<1>2. /\ \A q \in Engine!Requests \ {k} : at'[q] = at[q]
      /\ at'[k] = where /\ k \in Engine!Requests /\ Engine!TypeOK
  BY <1>1, PutElsewhere DEF EngineInv, Engine!Started, Engine!Ended
<1>3. at'[Connect] = at[Connect]
  BY <1>2
<1>4. Engine!Aborted /\ Engine!Aborted'
  BY <1>1, <1>2 DEF Engine!Aborted
<1>5. \A j \in EngineCloses : at'[j] = "ok" => at[j] = "ok"
  BY <1>1, <1>2
<1>6. ConnectedInTime'
  BY <1>3, <1>4 DEF ConnectedInTime, Engine!Pending, EngineInv
<1>7. TerminatedIsOver'
  BY <1>5 DEF TerminatedIsOver, EngineInv
<1>8. FreedIsOver'
  BY <1>5 DEF FreedIsOver, EngineInv
<1>9. LiveIsKnown'
  BY DEF LiveIsKnown, EngineInv
<1>10. AnswersAreTrue' /\ OnlyNodeNotifies'
  BY <1>3, <1>4 DEF AnswersAreTrue, OnlyNodeNotifies, EngineInv
<1> QED BY <1>6, <1>7, <1>8, <1>9, <1>10 DEF EngineInv

\* close() is called, and sets what it sets at once.
LEMMA CloseHolds ==
  ASSUME EngineInv, NEW k \in EngineCloses, Engine!Close(k)
  PROVE  EngineInv'
<1> USE RequestKinds
<1>1. /\ at[k] = "none" /\ raced' = (raced \/ Engine!Pending(Connect))
      /\ UNCHANGED <<kind, fresh, outbox>>
      /\ Engine!TypeOK /\ OnlyWorkersPost /\ kind \in {"worker", "local", "node"}
  BY EnginesAssumption DEF Engine!Close, EngineInv, Engine!TypeOK
<1>2. /\ {"held", "posted", "reader"} \subseteq Engine!Started /\ "ok" \in Engine!Ended
      /\ "ok" \notin Engine!Started
  BY DEF Engine!Started, Engine!Ended
<1>3. /\ \/ kind = "worker" /\ active /\ Engine!Send(k)
      /\ UNCHANGED <<status, active, handle, db, reader>>
      \/ /\ kind = "worker" /\ ~active
         /\ Engine!Put(k, "ok") /\ status' = "disconnected"
         /\ UNCHANGED <<held, inbox, active, handle, db, reader>>
      \/ /\ kind = "local" /\ reader # "none"
         /\ Engine!Put(k, "reader") /\ active' = FALSE /\ Engine!CancelReader
         /\ UNCHANGED <<held, inbox, status, handle, db>>
      \/ /\ kind = "local" /\ reader = "none"
         /\ Engine!Put(k, "ok") /\ active' = FALSE /\ status' = "disconnected"
         /\ UNCHANGED <<held, inbox, handle, db, reader>>
      \/ /\ kind = "node" /\ Engine!Put(k, "ok") /\ status' = "disconnected"
         /\ active' = FALSE /\ handle' = FALSE
         /\ db' = IF handle THEN "freeing" ELSE db
         /\ UNCHANGED <<held, inbox, reader>>
  BY <1>1 DEF Engine!Close
<1>4. PICK where \in {"held", "posted", "reader", "ok"} : Engine!Put(k, where)
  BY <1>3 DEF Engine!Send
<1>5. /\ at' \in [Engine!Requests -> {"none"} \cup Engine!Started \cup Engine!Ended]
      /\ \A q \in Engine!Requests \ {k} : at'[q] = at[q]
      /\ at'[k] = where
  BY <1>1, <1>2, <1>4, PutElsewhere
<1>6. Engine!Aborted' /\ at'[Connect] = at[Connect]
  BY <1>4, <1>5 DEF Engine!Aborted
<1>7. Engine!TypeOK'
  <2>1. held' \in Seq(Engine!Requests) /\ inbox' \in Seq(Engine!Requests)
    <3>1. held \in Seq(Engine!Requests) /\ inbox \in Seq(Engine!Requests)
      BY <1>1 DEF Engine!TypeOK
    <3>2. Append(held, k) \in Seq(Engine!Requests) /\ Append(inbox, k) \in Seq(Engine!Requests)
      BY <3>1
    <3>3. held' \in {held, Append(held, k)} /\ inbox' \in {inbox, Append(inbox, k)}
      BY <1>3 DEF Engine!Send
    <3> QED BY <3>1, <3>2, <3>3
  <2>2. /\ kind' \in EngineKinds /\ fresh' \in BOOLEAN /\ handle' \in BOOLEAN
        /\ active' \in BOOLEAN
        /\ status' \in {"connecting", "connected", "error", "disconnected"}
        /\ db' \in {"none", "live", "freeing", "freed"}
        /\ reader' \in {"none", "reading", "cancelled", "exited"}
        /\ outbox' \in Seq(Engine!Requests \X {"ok", "failed"})
    BY <1>1, <1>3 DEF Engine!TypeOK, Engine!CancelReader
  <2>3. raced' \in BOOLEAN
    BY <1>1 DEF Engine!TypeOK, Engine!Pending
  <2> QED BY <1>5, <2>1, <2>2, <2>3 DEF Engine!TypeOK
<1>8. OnlyWorkersPost'
  BY <1>1, <1>3 DEF OnlyWorkersPost
<1>9. ConnectedInTime'
  BY <1>1, <1>3, <1>6 DEF ConnectedInTime, Engine!Pending
<1>10. TerminatedIsOver'
  <2>1. CASE kind # "worker"
    BY <1>1, <2>1 DEF TerminatedIsOver
  <2>2. CASE kind = "worker" /\ active
    <3>1. at'[k] # "ok" /\ active' = active
      BY <1>1, <1>3, <1>5, <2>2 DEF Engine!Send, Engine!Put, Engine!TypeOK
    <3> QED BY <1>1, <1>5, <2>2, <3>1 DEF TerminatedIsOver, EngineInv
  <2>3. CASE kind = "worker" /\ ~active
    <3>1. Engine!Put(k, "ok") /\ status' = "disconnected" /\ UNCHANGED <<held, inbox, active, db>>
      BY <1>3, <2>3
    <3>2. at'[k] = "ok"
      BY <1>1, <3>1 DEF Engine!Put, Engine!TypeOK
    <3>3. \A r \in Engine!Requests : ~(at'[r] \in Engine!Started)
      BY <1>2, <1>5, <2>3, <3>2 DEF TerminatedIsOver, EngineInv, Engine!Pending
    <3> QED BY <1>1, <2>3, <3>1, <3>3 DEF TerminatedIsOver, EngineInv, Engine!Pending
  <2> QED BY <2>1, <2>2, <2>3
<1>11. FreedIsOver'
  <2>1. SUFFICES ASSUME kind # "worker", ~raced', \E j \in EngineCloses : at'[j] = "ok"
                 PROVE  db' # "live" /\ status' = "disconnected"
    BY <1>1 DEF FreedIsOver
  <2>2. CASE kind = "local" /\ reader # "none"
    <3>1. at'[k] = "reader" /\ UNCHANGED <<status, db>>
      BY <1>1, <1>3, <2>2, PutElsewhere, <1>2
    <3>2. \E j \in EngineCloses : at[j] = "ok"
      BY <1>5, <2>1, <3>1
    <3> QED BY <1>1, <2>1, <3>1, <3>2 DEF FreedIsOver, EngineInv
  <2>3. CASE ~(kind = "local" /\ reader # "none")
    BY <1>1, <1>3, <2>1, <2>3 DEF LiveIsKnown, EngineInv
  <2> QED BY <2>2, <2>3
<1>12. LiveIsKnown'
  BY <1>1, <1>3 DEF LiveIsKnown, EngineInv, Engine!CancelReader
<1>13. AnswersAreTrue' /\ OnlyNodeNotifies'
  BY <1>1, <1>6 DEF AnswersAreTrue, OnlyNodeNotifies, EngineInv
<1> QED BY <1>7, <1>8, <1>9, <1>10, <1>11, <1>12, <1>13 DEF EngineInv

\* The worker says that it is ready, and is sent what waits for it.
LEMMA ReadyHolds ==
  ASSUME EngineInv, Engine!Ready
  PROVE  EngineInv'
<1> USE RequestKinds
<1>1. /\ kind = "worker" /\ held # << >> /\ Engine!TypeOK
      /\ inbox' = inbox \o held /\ held' = << >>
      /\ at' = [r \in Engine!Requests |-> IF at[r] = "held" THEN "posted" ELSE at[r]]
      /\ UNCHANGED <<kind, fresh, status, active, handle, outbox, db, reader, raced>>
  BY DEF Engine!Ready, EngineInv
<1>2. active
  BY <1>1 DEF EngineInv, TerminatedIsOver
<1>3. "posted" \in Engine!Started /\ "held" \notin Engine!Ended
  BY DEF Engine!Started, Engine!Ended
<1>4. Engine!TypeOK'
  <2>1. at' \in [Engine!Requests -> {"none"} \cup Engine!Started \cup Engine!Ended]
    BY <1>1, <1>3 DEF Engine!TypeOK
  <2>2. inbox' \in Seq(Engine!Requests)
    BY <1>1 DEF Engine!TypeOK
  <2>3. held' \in Seq(Engine!Requests)
    BY <1>1
  <2> QED BY <1>1, <2>1, <2>2, <2>3 DEF Engine!TypeOK
<1>5. Engine!Aborted' = Engine!Aborted
  BY <1>1 DEF Engine!Aborted
<1>6. \A k \in EngineCloses : at'[k] = "ok" => at[k] = "ok"
  BY <1>1
<1>7. TerminatedIsOver'
  BY <1>1, <1>2, <1>6 DEF EngineInv, TerminatedIsOver
<1>8. OnlyWorkersPost' /\ ConnectedInTime' /\ FreedIsOver'
  BY <1>1 DEF OnlyWorkersPost, ConnectedInTime, FreedIsOver
<1>9. LiveIsKnown'
  BY <1>1 DEF LiveIsKnown
<1>10. AnswersAreTrue'
  BY <1>1, <1>5 DEF AnswersAreTrue, EngineInv
<1>11. OnlyNodeNotifies'
  BY <1>1 DEF OnlyNodeNotifies, EngineInv
<1> QED BY <1>4, <1>7, <1>8, <1>9, <1>10, <1>11 DEF EngineInv

\* open() is under way: its request moves on, or the library failed to load.
LEMMA ConnectMoves ==
  ASSUME EngineInv, Engine!Pending(Connect),
         NEW where \in (Engine!Started \ {"notifying"}) \cup {"failed"},
         Engine!Put(Connect, where),
         kind = "worker" => UNCHANGED status,
         UNCHANGED <<kind, active, handle, db, reader, raced>>,
         Engine!TypeOK', OnlyWorkersPost',
         \A i \in 1..Len(outbox') : outbox'[i] = <<Connect, "ok">> =>
            \E j \in 1..Len(outbox) : outbox[j] = <<Connect, "ok">>
  PROVE  EngineInv'
<1> USE RequestKinds
<1>1. /\ \A q \in Engine!Requests \ {Connect} : at'[q] = at[q]
      /\ at'[Connect] = where /\ Engine!TypeOK /\ "failed" \in Engine!Ended
  BY PutElsewhere DEF EngineInv, Engine!Started, Engine!Ended
<1>2. \A k \in EngineCloses : at'[k] = at[k]
  BY <1>1
<1>3. Engine!Aborted' = Engine!Aborted
  BY <1>2 DEF Engine!Aborted
<1>4. kind = "worker" => active
  BY DEF EngineInv, TerminatedIsOver
<1>5. kind # "worker" /\ Engine!Aborted => raced
  BY DEF EngineInv, ConnectedInTime
<1>6. ConnectedInTime'
  BY <1>3, <1>5 DEF ConnectedInTime
<1>7. TerminatedIsOver'
  BY <1>2, <1>4 DEF TerminatedIsOver, EngineInv
<1>8. FreedIsOver'
  BY <1>2, <1>3, <1>5 DEF FreedIsOver, Engine!Aborted
<1>9. LiveIsKnown' /\ OnlyNodeNotifies'
  BY <1>1 DEF LiveIsKnown, OnlyNodeNotifies, EngineInv
<1>10. AnswersAreTrue'
  BY <1>3 DEF AnswersAreTrue, EngineInv
<1> QED BY <1>6, <1>7, <1>8, <1>9, <1>10 DEF EngineInv

\* open() fails in the main thread, or the agent says so.
LEMMA AnsweredFailed ==
  ASSUME EngineInv, Engine!Pending(Connect), Engine!Answer(Connect, "failed"),
         UNCHANGED <<kind, fresh, active, handle, held, inbox, db, reader, raced>>
  PROVE  EngineInv'
<1> USE RequestKinds
<1>1. /\ "answered" \in Engine!Started /\ "failed" \in Engine!Ended /\ "answered" # "notifying"
      /\ Engine!TypeOK
  BY DEF Engine!Started, Engine!Ended, EngineInv
<1>2. CASE kind = "worker"
  <2>1. /\ Engine!Put(Connect, "answered") /\ outbox' = Append(outbox, <<Connect, "failed">>)
        /\ UNCHANGED status
    BY <1>2 DEF Engine!Answer, Engine!Post
  <2>2. /\ outbox \in Seq(Engine!Requests \X {"ok", "failed"})
        /\ <<Connect, "failed">> \in Engine!Requests \X {"ok", "failed"}
    BY <1>1 DEF Engine!TypeOK
  <2>3. /\ outbox' \in Seq(Engine!Requests \X {"ok", "failed"}) /\ Len(outbox') = Len(outbox) + 1
        /\ \A i \in 1..Len(outbox) : outbox'[i] = outbox[i]
        /\ outbox'[Len(outbox) + 1] = <<Connect, "failed">> /\ Len(outbox) \in Nat
    BY <2>1, <2>2
  <2>4. \A i \in 1..Len(outbox') : i \in 1..Len(outbox) \/ i = Len(outbox) + 1
    BY <2>3
  <2>5. <<Connect, "failed">> # <<Connect, "ok">>
    OBVIOUS
  <2>6. \A i \in 1..Len(outbox') : outbox'[i] = <<Connect, "ok">> =>
          \E j \in 1..Len(outbox) : outbox[j] = <<Connect, "ok">>
    BY <2>3, <2>4, <2>5
  <2>7. Engine!TypeOK'
    BY <1>1, <2>1, <2>3, PutElsewhere DEF Engine!TypeOK
  <2>8. OnlyWorkersPost'
    BY <1>2 DEF OnlyWorkersPost
  <2> QED BY <1>1, <2>1, <2>6, <2>7, <2>8, ConnectMoves
<1>3. CASE kind # "worker"
  <2>1. Engine!Put(Connect, "failed") /\ status' = "error" /\ UNCHANGED outbox
    BY <1>3 DEF Engine!Answer, Engine!Settle
  <2>2. Engine!TypeOK'
    BY <1>1, <2>1, PutElsewhere DEF Engine!TypeOK
  <2>3. OnlyWorkersPost'
    BY <2>1 DEF OnlyWorkersPost, EngineInv
  <2> QED BY <1>1, <1>3, <2>1, <2>2, <2>3, ConnectMoves
<1> QED BY <1>2, <1>3

\* The library loads or does not, and the datastore may fail to open.
LEMMA LibraryHolds ==
  ASSUME EngineInv, Engine!LibraryLoads \/ Engine!OpenFails
  PROVE  EngineInv'
<1> USE RequestKinds
<1>1. /\ at[Connect] \in {"library", "opening"} /\ Engine!Pending(Connect)
      /\ UNCHANGED <<kind, fresh, active, handle, held, inbox, db, reader, raced>>
      /\ \/ Engine!Put(Connect, "opening") /\ UNCHANGED <<status, outbox>>
         \/ Engine!Answer(Connect, "failed")
  BY DEF Engine!LibraryLoads, Engine!OpenFails, Engine!Pending, Engine!Started
<1>2. CASE Engine!Put(Connect, "opening") /\ UNCHANGED <<status, outbox>>
  <2>1. "opening" \in Engine!Started /\ "opening" # "notifying"
    BY DEF Engine!Started
  <2>2. Engine!TypeOK'
    BY <1>1, <1>2, <2>1, PutElsewhere DEF Engine!TypeOK, EngineInv
  <2>3. OnlyWorkersPost'
    BY <1>1, <1>2 DEF OnlyWorkersPost, EngineInv
  <2> QED BY <1>1, <1>2, <2>1, <2>2, <2>3, ConnectMoves
<1> QED BY <1>1, <1>2, AnsweredFailed

\* The agent takes a message, and begins with it.
LEMMA AgentHolds ==
  ASSUME EngineInv, Engine!AgentTakes
  PROVE  EngineInv'
<1> USE RequestKinds
<1>1. /\ inbox # << >> /\ inbox' = Tail(inbox) /\ Engine!TypeOK /\ OnlyWorkersPost
      /\ UNCHANGED <<kind, fresh, status, active, handle, held, db, raced>>
  BY DEF Engine!AgentTakes, EngineInv
<1>2. /\ inbox \in Seq(Engine!Requests) /\ Head(inbox) \in Engine!Requests
      /\ inbox' \in Seq(Engine!Requests)
  BY <1>1 DEF Engine!TypeOK
<1>3. PICK r \in Engine!Requests : r = Head(inbox)
  BY <1>2
<1>4. kind = "worker" /\ active
  BY <1>1 DEF OnlyWorkersPost, TerminatedIsOver, EngineInv
<1>5. OnlyWorkersPost'
  BY <1>1, <1>4 DEF OnlyWorkersPost
<1>6. /\ {"library", "running", "reader", "answered"} \subseteq Engine!Started
      /\ "library" # "notifying"
  BY DEF Engine!Started
<1>7. /\ r = Connect => Engine!Put(r, "library") /\ UNCHANGED <<outbox, reader>>
      /\ r \in EngineCalls => Engine!BeginCall(r) /\ UNCHANGED reader
      /\ r \in EngineCloses => Engine!BeginClose(r)
  BY <1>3 DEF Engine!AgentTakes
<1>8. ASSUME NEW where \in Engine!Started, Engine!Put(r, where), UNCHANGED <<outbox, reader>>
      PROVE  Engine!TypeOK'
  BY <1>1, <1>2, <1>8, PutElsewhere DEF Engine!TypeOK
<1>9. ASSUME r # Connect, Engine!Post(r, "ok") \/ Engine!Post(r, "failed"), UNCHANGED reader
      PROVE  /\ Engine!Put(r, "answered") /\ Engine!TypeOK'
             /\ \A i \in 1..Len(outbox') : outbox'[i] = <<Connect, "ok">> =>
                  \E j \in 1..Len(outbox) : outbox[j] = <<Connect, "ok">>
  <2>1. PICK how \in {"ok", "failed"} : Engine!Put(r, "answered") /\ outbox' = Append(outbox, <<r, how>>)
    BY <1>9 DEF Engine!Post
  <2>2. /\ outbox' \in Seq(Engine!Requests \X {"ok", "failed"})
        /\ \A i \in 1..Len(outbox') : outbox'[i] = <<Connect, "ok">> =>
              \E j \in 1..Len(outbox) : outbox[j] = <<Connect, "ok">>
    BY <1>1, <1>9, <2>1, AnswersPosted
  <2>3. Engine!TypeOK'
    BY <1>1, <1>2, <1>6, <1>9, <2>1, <2>2, PutElsewhere DEF Engine!TypeOK
  <2> QED BY <2>1, <2>2, <2>3
<1>10. CASE r \in EngineCalls
  <2>1. UNCHANGED reader /\ r # Connect
    BY <1>7, <1>10
  <2>2. CASE db = "live"
    <3>1. Engine!Put(r, "running") /\ UNCHANGED outbox
      BY <1>7, <1>10, <2>2 DEF Engine!BeginCall
    <3> QED BY <1>1, <1>4, <1>5, <1>6, <1>8, <1>10, <2>1, <3>1, CallsMove
  <2>3. CASE db # "live"
    <3>1. Engine!Post(r, "failed")
      BY <1>7, <1>10, <2>3 DEF Engine!BeginCall
    <3> QED BY <1>1, <1>4, <1>5, <1>6, <1>9, <1>10, <2>1, <3>1, CallsMove
  <2> QED BY <2>2, <2>3
<1>11. CASE r = Connect
  <2>1. Engine!Put(Connect, "library") /\ UNCHANGED <<outbox, reader>>
    BY <1>7, <1>11
  <2>2. Engine!TypeOK'
    BY <1>6, <1>8, <1>11, <2>1
  <2>3. at'[Connect] = "library" /\ \A q \in Engine!Requests \ {Connect} : at'[q] = at[q]
    BY <1>1, <1>6, <2>1, PutElsewhere
  <2>4. Engine!Aborted' = Engine!Aborted /\ \A k \in EngineCloses : at'[k] = at[k]
    BY <2>3 DEF Engine!Aborted
  <2>5. ConnectedInTime' /\ FreedIsOver' /\ LiveIsKnown' /\ OnlyNodeNotifies'
    BY <1>1, <1>4, <2>3 DEF ConnectedInTime, FreedIsOver, LiveIsKnown, OnlyNodeNotifies
  <2>6. TerminatedIsOver'
    BY <1>1, <1>4, <2>4 DEF TerminatedIsOver, EngineInv
  <2>7. AnswersAreTrue'
    BY <1>1, <2>1, <2>4 DEF AnswersAreTrue, EngineInv
  <2> QED BY <1>5, <2>2, <2>5, <2>6, <2>7 DEF EngineInv
<1>12. CASE r \in EngineCloses
  <2>2. PICK where \in {"reader", "answered"} : Engine!Put(r, where)
    BY <1>7, <1>12 DEF Engine!BeginClose, Engine!Post
  <2>3. at'[r] = where /\ \A q \in Engine!Requests \ {r} : at'[q] = at[q]
    BY <1>1, <1>6, <2>2, PutElsewhere
  <2>4. Engine!Aborted' /\ at'[Connect] = at[Connect]
    BY <1>12, <2>2, <2>3 DEF Engine!Aborted
  <2>5. \A k \in EngineCloses : at'[k] = "ok" => at[k] = "ok"
    BY <2>2, <2>3
  <2>6. Engine!TypeOK'
    <3>1. CASE reader = "none"
      BY <1>7, <1>9, <1>12, <3>1 DEF Engine!BeginClose
    <3>2. CASE reader # "none"
      <4>1. Engine!Put(r, "reader") /\ Engine!CancelReader /\ UNCHANGED outbox
        BY <1>7, <1>12, <3>2 DEF Engine!BeginClose
      <4> QED BY <1>1, <1>2, <1>6, <4>1, PutElsewhere DEF Engine!TypeOK, Engine!CancelReader
    <3> QED BY <3>1, <3>2
  <2>7. TerminatedIsOver'
    BY <1>1, <1>4, <2>5 DEF TerminatedIsOver, EngineInv
  <2>8. ConnectedInTime' /\ FreedIsOver' /\ LiveIsKnown' /\ OnlyNodeNotifies' /\ AnswersAreTrue'
    BY <1>1, <1>4, <2>4
    DEF ConnectedInTime, FreedIsOver, LiveIsKnown, OnlyNodeNotifies, AnswersAreTrue, EngineInv
  <2> QED BY <1>5, <2>6, <2>7, <2>8 DEF EngineInv
<1> QED BY <1>10, <1>11, <1>12

\* What an answer to open() sets: the engine is connected, unless it was closed.
LEMMA ConnectAnswered ==
  ASSUME EngineInv, Engine!Settle(Connect, "ok") \/ Engine!Settle(Connect, "failed"),
         Engine!Pending(Connect) \/ kind = "worker",
         kind = "worker" => active,
         UNCHANGED <<kind, active, raced>>,
         ~Engine!Aborted => db' \in {"none", "live"},
         db' = "live" => (kind = "local" => reader' # "none") /\ (kind = "node" => handle'),
         \A i \in 1..Len(outbox') : outbox'[i] = <<Connect, "ok">> => (~Engine!Aborted => db' = "live"),
         Engine!TypeOK', OnlyWorkersPost'
  PROVE  EngineInv'
<1> USE RequestKinds
<1>1. PICK how \in {"ok", "failed"} : Engine!Settle(Connect, how)
  OBVIOUS
<1>2. /\ Engine!Put(Connect, how) /\ Engine!TypeOK /\ how \in Engine!Ended
      /\ how \notin Engine!Started /\ how # "notifying"
  BY <1>1 DEF Engine!Settle, EngineInv, Engine!Started, Engine!Ended
<1>3. at'[Connect] = how /\ \A q \in Engine!Requests \ {Connect} : at'[q] = at[q]
  BY <1>2, PutElsewhere
<1>4. Engine!Aborted' = Engine!Aborted /\ \A k \in EngineCloses : at'[k] = at[k]
  BY <1>3 DEF Engine!Aborted
<1>5. kind # "worker" /\ Engine!Aborted => raced
  BY DEF EngineInv, ConnectedInTime
<1>6. ConnectedInTime' /\ OnlyNodeNotifies'
  BY <1>2, <1>3, <1>4, <1>5 DEF ConnectedInTime, OnlyNodeNotifies
<1>7. TerminatedIsOver'
  BY <1>4 DEF TerminatedIsOver, EngineInv
<1>8. FreedIsOver'
  BY <1>4, <1>5 DEF FreedIsOver, Engine!Aborted
<1>9. LiveIsKnown' /\ AnswersAreTrue'
  BY <1>4 DEF LiveIsKnown, AnswersAreTrue, EngineInv
<1> QED BY <1>6, <1>7, <1>8, <1>9 DEF EngineInv

\* The main thread takes an answer; that to close() terminates the worker.
LEMMA DeliverHolds ==
  ASSUME EngineInv, Engine!Deliver
  PROVE  EngineInv'
<1> USE RequestKinds
<1>1. /\ outbox # << >> /\ Engine!TypeOK /\ OnlyWorkersPost
      /\ UNCHANGED <<kind, fresh, handle, raced>>
  BY DEF Engine!Deliver, EngineInv
<1>2. /\ outbox \in Seq(Engine!Requests \X {"ok", "failed"})
      /\ Head(outbox) \in Engine!Requests \X {"ok", "failed"}
  BY <1>1 DEF Engine!TypeOK
<1>3. PICK r \in Engine!Requests, how \in {"ok", "failed"} : Head(outbox) = <<r, how>>
  BY <1>2
<1>4. kind = "worker" /\ active
  BY <1>1 DEF OnlyWorkersPost, TerminatedIsOver, EngineInv
<1>5. OnlyWorkersPost'
  BY <1>1, <1>4 DEF OnlyWorkersPost
<1>6. Head(outbox)[1] = r /\ Head(outbox)[2] = how
  BY <1>3
<1>7. CASE r \in EngineCloses /\ how = "ok"
  <2>1. /\ active' = FALSE /\ status' = "disconnected"
        /\ at' = [q \in Engine!Requests |-> IF q = r THEN "ok" ELSE IF Engine!Pending(q) THEN "lost" ELSE at[q]]
        /\ held' = << >> /\ inbox' = << >> /\ outbox' = << >>
        /\ db' = (IF db = "live" THEN "freed" ELSE db)
        /\ reader' = (IF reader = "none" THEN "none" ELSE "exited")
    BY <1>6, <1>7 DEF Engine!Deliver, Engine!Terminate
  <2>2. {"ok", "lost"} \subseteq Engine!Ended /\ {"ok", "lost"} \cap Engine!Started = {}
    BY DEF Engine!Started, Engine!Ended
  <2>3. \A q \in Engine!Requests : at'[q] \notin Engine!Started
    BY <2>1, <2>2 DEF Engine!Pending
  <2>4. Engine!TypeOK'
    <3>1. at' \in [Engine!Requests -> {"none"} \cup Engine!Started \cup Engine!Ended]
      BY <1>1, <2>1, <2>2 DEF Engine!TypeOK
    <3>2. /\ held' \in Seq(Engine!Requests) /\ inbox' \in Seq(Engine!Requests)
          /\ outbox' \in Seq(Engine!Requests \X {"ok", "failed"})
      BY <2>1
    <3> QED BY <1>1, <2>1, <3>1, <3>2 DEF Engine!TypeOK
  <2>5. TerminatedIsOver'
    BY <2>1, <2>3 DEF TerminatedIsOver, Engine!Pending
  <2>6. Engine!Aborted'
    <3>1. at'[r] = "ok"
      BY <2>1
    <3> QED BY <1>7, <3>1 DEF Engine!Aborted
  <2>7. "notifying" \in Engine!Started
    BY DEF Engine!Started
  <2>8. ConnectedInTime' /\ FreedIsOver' /\ LiveIsKnown' /\ AnswersAreTrue' /\ OnlyNodeNotifies'
    BY <1>1, <1>4, <2>3, <2>6, <2>7
    DEF ConnectedInTime, FreedIsOver, LiveIsKnown, AnswersAreTrue, OnlyNodeNotifies
  <2> QED BY <1>5, <2>4, <2>5, <2>8 DEF EngineInv
<1>8. CASE ~(r \in EngineCloses /\ how = "ok")
  <2>1. /\ Engine!Settle(r, how) /\ outbox' = Tail(outbox)
        /\ UNCHANGED <<active, held, inbox, db, reader>>
    BY <1>6, <1>8 DEF Engine!Deliver
  <2>2. /\ outbox' \in Seq(Engine!Requests \X {"ok", "failed"})
        /\ \A i \in 1..Len(outbox') : i + 1 \in 1..Len(outbox) /\ outbox'[i] = outbox[i + 1]
    BY <1>1, <1>2, <2>1
  <2>3. /\ Engine!Put(r, how) /\ how \in Engine!Ended /\ how \notin Engine!Started
        /\ how # "notifying"
    BY <2>1 DEF Engine!Settle, Engine!Ended, Engine!Started
  <2>4. status' \in {"connecting", "connected", "error", "disconnected"}
    BY <1>1, <2>1 DEF Engine!Settle, Engine!AfterConnect, Engine!TypeOK
  <2>5. Engine!TypeOK'
    BY <1>1, <2>1, <2>2, <2>3, <2>4, PutElsewhere DEF Engine!TypeOK
  <2>6. \A i \in 1..Len(outbox') : outbox'[i] = <<Connect, "ok">> =>
          \E j \in 1..Len(outbox) : outbox[j] = <<Connect, "ok">>
    BY <2>2
  <2>7. CASE r = Connect
    <3>1. \A i \in 1..Len(outbox') : outbox'[i] = <<Connect, "ok">> => (~Engine!Aborted => db' = "live")
      BY <2>1, <2>6 DEF AnswersAreTrue, EngineInv
    <3>2. Engine!Settle(Connect, "ok") \/ Engine!Settle(Connect, "failed")
      BY <2>1, <2>7
    <3>3. ~Engine!Aborted => db' \in {"none", "live"}
      BY <1>1, <2>1 DEF AnswersAreTrue, EngineInv
    <3>4. db' = "live" => (kind = "local" => reader' # "none") /\ (kind = "node" => handle')
      BY <1>4
    <3> QED BY <1>1, <1>4, <1>5, <2>1, <2>5, <3>1, <3>2, <3>3, <3>4, ConnectAnswered
  <2>8. CASE r \in EngineCalls
    <3>1. UNCHANGED status
      BY <2>1, <2>8 DEF Engine!Settle
    <3> QED BY <1>1, <1>4, <1>5, <2>1, <2>3, <2>5, <2>6, <2>8, <3>1, CallsMove
  <2>9. CASE r \in EngineCloses
    <3>1. how = "failed" /\ UNCHANGED status
      BY <1>8, <2>1, <2>9 DEF Engine!Settle
    <3>2. at'[r] = "failed" /\ \A q \in Engine!Requests \ {r} : at'[q] = at[q]
      BY <1>1, <2>3, <3>1, PutElsewhere
    <3>3. Engine!Aborted' /\ at'[Connect] = at[Connect] /\ \A k \in EngineCloses : at'[k] = "ok" => at[k] = "ok"
      BY <2>9, <3>2 DEF Engine!Aborted
    <3>4. TerminatedIsOver'
      BY <1>1, <1>4, <2>1, <3>3 DEF TerminatedIsOver, EngineInv
    <3>5. ConnectedInTime' /\ FreedIsOver' /\ LiveIsKnown' /\ OnlyNodeNotifies' /\ AnswersAreTrue'
      BY <1>1, <1>4, <2>1, <3>3
      DEF ConnectedInTime, FreedIsOver, LiveIsKnown, OnlyNodeNotifies, AnswersAreTrue, EngineInv
    <3> QED BY <1>5, <2>5, <3>4, <3>5 DEF EngineInv
  <2> QED BY <2>7, <2>8, <2>9
<1> QED BY <1>7, <1>8

\* The datastore is open.
LEMMA OpensHolds ==
  ASSUME EngineInv, Engine!Opens
  PROVE  EngineInv'
<1> USE RequestKinds
<1>1. /\ at[Connect] = "opening" /\ db' = "live" /\ Engine!TypeOK /\ OnlyWorkersPost
      /\ handle' = (kind # "worker") /\ active' = (active \/ kind = "local")
      /\ UNCHANGED <<kind, fresh, held, inbox, raced>>
  BY DEF Engine!Opens, EngineInv
<1>2. /\ Engine!Pending(Connect) /\ {"notifying", "answered"} \subseteq Engine!Started
      /\ "ok" \in Engine!Ended
      /\ "ok" \notin Engine!Started /\ "ok" # "notifying"
  BY <1>1 DEF Engine!Pending, Engine!Started, Engine!Ended
<1>3. kind # "worker" /\ Engine!Aborted => raced
  BY <1>2 DEF ConnectedInTime, EngineInv
<1>4. kind = "worker" => active
  BY <1>2 DEF TerminatedIsOver, EngineInv
<1>5. /\ kind = "node" => /\ Engine!Put(Connect, IF Engine!Aborted THEN "ok" ELSE "notifying")
                          /\ UNCHANGED <<reader, status, outbox>>
      /\ kind # "node" => reader' = "reading" /\ Engine!Answer(Connect, "ok")
  BY DEF Engine!Opens
<1>6. PICK where \in {"ok", "notifying", "answered"} :
        Engine!Put(Connect, where) /\ (kind # "node" => where # "notifying")
  BY <1>5 DEF Engine!Answer, Engine!Post, Engine!Settle
<1>7. /\ at'[Connect] = where /\ \A q \in Engine!Requests \ {Connect} : at'[q] = at[q]
      /\ at' \in [Engine!Requests -> {"none"} \cup Engine!Started \cup Engine!Ended]
  BY <1>1, <1>2, <1>6, PutElsewhere
<1>8. Engine!Aborted' = Engine!Aborted /\ \A k \in EngineCloses : at'[k] = at[k]
  BY <1>7 DEF Engine!Aborted
<1>9. status' \in {"connecting", "connected", "error", "disconnected"}
  BY <1>1, <1>5 DEF Engine!Answer, Engine!Post, Engine!Settle, Engine!AfterConnect,
     Engine!TypeOK
<1>10. /\ outbox' \in Seq(Engine!Requests \X {"ok", "failed"})
       /\ (kind # "worker" => UNCHANGED outbox)
  <2>1. /\ outbox \in Seq(Engine!Requests \X {"ok", "failed"})
        /\ <<Connect, "ok">> \in Engine!Requests \X {"ok", "failed"}
    BY <1>1 DEF Engine!TypeOK
  <2>2. /\ outbox' \in {outbox, Append(outbox, <<Connect, "ok">>)}
        /\ (kind # "worker" => UNCHANGED outbox)
    BY <1>5 DEF Engine!Answer, Engine!Post
  <2>3. Append(outbox, <<Connect, "ok">>) \in Seq(Engine!Requests \X {"ok", "failed"})
    BY <2>1
  <2> QED BY <2>1, <2>2, <2>3
<1>11. Engine!TypeOK'
  <2>1. reader' \in {"none", "reading", "cancelled", "exited"}
    BY <1>1, <1>5 DEF Engine!TypeOK
  <2>2. kind' \in EngineKinds /\ fresh' \in BOOLEAN /\ active' \in BOOLEAN /\ handle' \in BOOLEAN
        /\ raced' \in BOOLEAN /\ held' \in Seq(Engine!Requests) /\ inbox' \in Seq(Engine!Requests)
    BY <1>1 DEF Engine!TypeOK
  <2> QED BY <1>1, <1>7, <1>9, <1>10, <2>1, <2>2 DEF Engine!TypeOK
<1>12. OnlyWorkersPost'
  BY <1>1, <1>10 DEF OnlyWorkersPost
<1>13. ConnectedInTime'
  BY <1>1, <1>3, <1>8 DEF ConnectedInTime
<1>14. TerminatedIsOver'
  BY <1>1, <1>4, <1>8 DEF TerminatedIsOver, EngineInv
<1>15. FreedIsOver'
  BY <1>1, <1>3, <1>8 DEF FreedIsOver, Engine!Aborted
<1>16. LiveIsKnown'
  BY <1>1, <1>5 DEF LiveIsKnown
<1>17. AnswersAreTrue'
  BY <1>1, <1>8 DEF AnswersAreTrue, EngineInv
<1>18. OnlyNodeNotifies'
  BY <1>1, <1>6, <1>7 DEF OnlyNodeNotifies
<1> QED BY <1>11, <1>12, <1>13, <1>14, <1>15, <1>16, <1>17, <1>18 DEF EngineInv

\* The binding of Node gives its notifications, or has none to give.
LEMMA NotifiesHolds ==
  ASSUME EngineInv, Engine!Notifies
  PROVE  EngineInv'
<1> USE RequestKinds
<1>1. /\ at[Connect] = "notifying" /\ kind = "node" /\ Engine!TypeOK /\ OnlyWorkersPost
      /\ UNCHANGED <<kind, fresh, active, handle, Engine!mail, db, raced>>
  BY DEF Engine!Notifies, EngineInv, OnlyNodeNotifies
<1>2. /\ Engine!Pending(Connect) /\ {"ok", "failed"} \subseteq Engine!Ended
      /\ {"ok", "failed"} \cap Engine!Started = {}
  BY <1>1 DEF Engine!Pending, Engine!Started, Engine!Ended
<1>3. PICK how \in {"ok", "failed"} :
        /\ Engine!Put(Connect, how) /\ status' \in {"connected", "error"}
        /\ reader' \in {reader, "reading"}
  BY DEF Engine!Notifies
<1>4. /\ at'[Connect] = how /\ \A q \in Engine!Requests \ {Connect} : at'[q] = at[q]
  BY <1>1, <1>2, <1>3, PutElsewhere
<1>5. Engine!TypeOK'
  BY <1>1, <1>2, <1>3, PutElsewhere DEF Engine!TypeOK, Engine!mail
<1>6. Engine!Aborted' = Engine!Aborted /\ \A k \in EngineCloses : at'[k] = at[k]
  BY <1>4 DEF Engine!Aborted
<1>7. Engine!Aborted => raced
  BY <1>1, <1>2 DEF ConnectedInTime, EngineInv
<1>8. OnlyWorkersPost' /\ TerminatedIsOver' /\ ConnectedInTime'
  BY <1>1, <1>6, <1>7 DEF OnlyWorkersPost, TerminatedIsOver, ConnectedInTime, Engine!mail
<1>9. FreedIsOver'
  BY <1>1, <1>6, <1>7 DEF FreedIsOver, Engine!Aborted
<1>10. LiveIsKnown' /\ OnlyNodeNotifies'
  BY <1>1, <1>4 DEF LiveIsKnown, OnlyNodeNotifies, EngineInv
<1>11. AnswersAreTrue'
  BY <1>1, <1>6 DEF AnswersAreTrue, EngineInv, Engine!mail
<1> QED BY <1>5, <1>8, <1>9, <1>10, <1>11 DEF EngineInv

\* free() of the Node binding has the lock: close() was called.
LEMMA InstanceHolds ==
  ASSUME EngineInv, Engine!TakesInstance
  PROVE  EngineInv'
<1>1. /\ db = "freeing" /\ db' = "freed" /\ Engine!TypeOK
      /\ UNCHANGED <<kind, fresh, status, active, handle, Engine!mail, at, reader, raced>>
  BY DEF Engine!TakesInstance, Engine!Freed, EngineInv
<1>2. Engine!TypeOK'
  BY <1>1 DEF Engine!TypeOK, Engine!mail
<1>3. Engine!Aborted /\ Engine!Aborted'
  BY <1>1 DEF AnswersAreTrue, EngineInv, Engine!Aborted
<1>4. OnlyWorkersPost' /\ ConnectedInTime' /\ TerminatedIsOver'
  BY <1>1, <1>3 DEF OnlyWorkersPost, ConnectedInTime, TerminatedIsOver, EngineInv, Engine!mail,
     Engine!Pending
<1>5. FreedIsOver' /\ LiveIsKnown' /\ AnswersAreTrue' /\ OnlyNodeNotifies'
  BY <1>1, <1>3 DEF FreedIsOver, LiveIsKnown, AnswersAreTrue, OnlyNodeNotifies, EngineInv
<1> QED BY <1>2, <1>4, <1>5 DEF EngineInv

\* The loop that reads the notifications ends.
LEMMA ReaderHolds ==
  ASSUME EngineInv, Engine!ReaderExits
  PROVE  EngineInv'
<1>1. /\ reader' = "exited" /\ reader # "none" /\ Engine!TypeOK
      /\ UNCHANGED <<kind, fresh, status, active, handle, Engine!mail, at, db, raced>>
  BY DEF Engine!ReaderExits, EngineInv
<1>2. Engine!TypeOK'
  BY <1>1 DEF Engine!TypeOK, Engine!mail
<1>3. Engine!Aborted' = Engine!Aborted
  BY <1>1 DEF Engine!Aborted
<1>4. OnlyWorkersPost' /\ ConnectedInTime' /\ TerminatedIsOver'
  BY <1>1, <1>3 DEF OnlyWorkersPost, ConnectedInTime, TerminatedIsOver, EngineInv, Engine!mail,
     Engine!Pending
<1>5. FreedIsOver' /\ LiveIsKnown' /\ AnswersAreTrue' /\ OnlyNodeNotifies'
  BY <1>1, <1>3 DEF FreedIsOver, LiveIsKnown, AnswersAreTrue, OnlyNodeNotifies, EngineInv,
     Engine!mail
<1> QED BY <1>2, <1>4, <1>5 DEF EngineInv

\* The reader has left, and the instance is freed, or a call has it borrowed.
LEMMA FreesHolds ==
  ASSUME EngineInv, NEW k \in EngineCloses, Engine!Frees(k)
  PROVE  EngineInv'
<1> USE RequestKinds
<1>1. /\ at[k] = "reader" /\ reader = "exited" /\ Engine!TypeOK /\ OnlyWorkersPost
      /\ UNCHANGED reader
      /\ UNCHANGED <<kind, fresh, active, held, inbox, raced>>
  BY DEF Engine!Frees, EngineInv
<1>2. /\ {"reader", "answered"} \subseteq Engine!Started
      /\ {"ok", "failed"} \subseteq Engine!Ended
      /\ {"ok", "failed"} \cap Engine!Started = {}
  BY DEF Engine!Started, Engine!Ended
<1>3. kind = "worker" => active
  BY <1>1, <1>2 DEF TerminatedIsOver, EngineInv, Engine!Pending
<1>4. Engine!Aborted
  BY <1>1 DEF Engine!Aborted
<1>5. ASSUME Engine!Post(k, "ok") \/ Engine!Post(k, "failed")
      PROVE  outbox' \in Seq(Engine!Requests \X {"ok", "failed"})
  BY <1>1, <1>5, AnswersPosted DEF Engine!Post
<1>6. CASE /\ db' = IF db = "live" THEN "freed" ELSE db
           /\ handle' = FALSE
           /\ IF kind = "worker" THEN Engine!Post(k, "ok") /\ UNCHANGED status
                                 ELSE Engine!Put(k, "ok") /\ status' = "disconnected" /\ UNCHANGED outbox
  <2>1. PICK where \in {"answered", "ok"} : Engine!Put(k, where) /\ (kind = "worker" => where = "answered")
    BY <1>6 DEF Engine!Post
  <2>2. /\ at'[k] = where /\ \A q \in Engine!Requests \ {k} : at'[q] = at[q]
        /\ at' \in [Engine!Requests -> {"none"} \cup Engine!Started \cup Engine!Ended]
    BY <1>1, <1>2, <2>1, PutElsewhere
  <2>3. Engine!Aborted' /\ at'[Connect] = at[Connect]
    BY <2>1, <2>2 DEF Engine!Aborted
  <2>4. db' \in {"none", "freeing", "freed"}
    BY <1>1, <1>6 DEF Engine!TypeOK
  <2>5. Engine!TypeOK'
    <3>1. outbox' \in Seq(Engine!Requests \X {"ok", "failed"}) /\ handle' \in BOOLEAN
          /\ status' \in {"connecting", "connected", "error", "disconnected"}
      BY <1>1, <1>5, <1>6 DEF Engine!TypeOK
    <3> QED BY <1>1, <2>2, <2>4, <3>1 DEF Engine!TypeOK
  <2>6. OnlyWorkersPost'
    BY <1>1, <1>6 DEF OnlyWorkersPost
  <2>7. ConnectedInTime' /\ OnlyNodeNotifies'
    BY <1>1, <1>4, <2>3 DEF ConnectedInTime, OnlyNodeNotifies, EngineInv, Engine!Pending
  <2>8. TerminatedIsOver'
    BY <1>1, <1>3, <2>1, <2>2 DEF TerminatedIsOver, EngineInv
  <2>9. FreedIsOver'
    BY <1>1, <1>6, <2>4 DEF FreedIsOver
  <2>10. LiveIsKnown' /\ AnswersAreTrue'
    BY <2>3, <2>4 DEF LiveIsKnown, AnswersAreTrue
  <2> QED BY <2>5, <2>6, <2>7, <2>8, <2>9, <2>10 DEF EngineInv
<1>7. CASE db = "live" /\ Engine!Running /\ Engine!Answer(k, "failed") /\ UNCHANGED <<db, handle, reader>>
  <2>1. PICK where \in {"answered", "failed"} : Engine!Put(k, where)
    BY <1>7 DEF Engine!Answer, Engine!Post, Engine!Settle
  <2>2. /\ at'[k] = where /\ \A q \in Engine!Requests \ {k} : at'[q] = at[q]
        /\ at' \in [Engine!Requests -> {"none"} \cup Engine!Started \cup Engine!Ended]
    BY <1>1, <1>2, <2>1, PutElsewhere
  <2>3. UNCHANGED status /\ (kind # "worker" => UNCHANGED outbox)
    BY <1>7 DEF Engine!Answer, Engine!Post, Engine!Settle
  <2>4. Engine!TypeOK'
    <3>1. outbox' \in Seq(Engine!Requests \X {"ok", "failed"})
      BY <1>1, <1>5, <1>7, <2>3 DEF Engine!TypeOK, Engine!Answer
    <3> QED BY <1>1, <1>7, <2>2, <2>3, <3>1 DEF Engine!TypeOK
  <2>5. OnlyWorkersPost'
    BY <1>1, <2>3 DEF OnlyWorkersPost
  <2>6. Engine!Put(k, "answered") \/ Engine!Put(k, "failed")
    BY <2>1
  <2> QED BY <1>1, <1>3, <1>7, <2>3, <2>4, <2>5, <2>6, ClosesMove
<1> QED BY <1>6, <1>7 DEF Engine!Frees, Engine!Freed

\* What the invariant says of an engine whose close() has returned.
LEMMA ClosedThen == EngineInv => Engine!ClosedIsOver
<1> SUFFICES ASSUME EngineInv, \E k \in EngineCloses : at[k] = "ok", raced => kind = "worker"
             PROVE  db # "live" /\ ~Engine!Accepts /\ status = "disconnected"
  BY DEF Engine!ClosedIsOver
<1>1. CASE kind = "worker"
  BY <1>1 DEF EngineInv, TerminatedIsOver, Engine!Accepts
<1>2. CASE kind # "worker"
  BY <1>2 DEF EngineInv, FreedIsOver, ConnectedInTime, Engine!Aborted, Engine!Accepts
<1> QED BY <1>1, <1>2

\* Whatever publishes "connected".
LEMMA ConnectedThen ==
  ASSUME EngineInv, Engine!Next, status # "connected", status' = "connected"
  PROVE  IF Engine!Aborted THEN kind = "node" /\ raced ELSE db' = "live" /\ Engine!Accepts'
<1> USE RequestKinds
<1>1. /\ Engine!TypeOK /\ OnlyWorkersPost
  BY DEF EngineInv
<1>2. ASSUME NEW r \in Engine!Requests, NEW how \in {"ok", "failed"}, Engine!Settle(r, how)
      PROVE  r = Connect /\ how = "ok" /\ ~Engine!Aborted
  BY <1>2 DEF Engine!Settle, Engine!AfterConnect
<1>3. CASE Engine!Deliver
  <2>1. /\ outbox # << >> /\ UNCHANGED <<kind, handle, raced>>
    BY <1>3 DEF Engine!Deliver
  <2>2. /\ outbox \in Seq(Engine!Requests \X {"ok", "failed"})
        /\ Head(outbox) \in Engine!Requests \X {"ok", "failed"}
        /\ 1 \in 1..Len(outbox) /\ Head(outbox) = outbox[1]
    BY <1>1, <2>1 DEF Engine!TypeOK
  <2>3. PICK r \in Engine!Requests, how \in {"ok", "failed"} : outbox[1] = <<r, how>>
    BY <2>2
  <2>4. Head(outbox)[1] = r /\ Head(outbox)[2] = how
    BY <2>2, <2>3
  <2>5. ~(r \in EngineCloses /\ how = "ok")
    BY <1>3, <2>4 DEF Engine!Deliver, Engine!Terminate
  <2>6. Engine!Settle(r, how) /\ UNCHANGED <<active, db>>
    BY <1>3, <2>4, <2>5 DEF Engine!Deliver
  <2>7. r = Connect /\ how = "ok" /\ ~Engine!Aborted
    BY <1>2, <2>6
  <2>8. db = "live"
    BY <2>2, <2>3, <2>7 DEF AnswersAreTrue, EngineInv
  <2>9. kind = "worker" /\ active
    BY <1>1, <2>1 DEF OnlyWorkersPost, TerminatedIsOver, EngineInv
  <2> QED BY <2>1, <2>6, <2>7, <2>8, <2>9 DEF Engine!Accepts
<1>4. CASE Engine!Opens
  <2>1. kind # "node" /\ kind # "worker" /\ Engine!Settle(Connect, "ok")
    BY <1>4 DEF Engine!Opens, Engine!Answer
  <2>2. kind = "local"
    BY <1>1, <2>1, EnginesAssumption DEF Engine!TypeOK
  <2> QED BY <1>2, <1>4, <2>1, <2>2 DEF Engine!Opens, Engine!Accepts
<1>5. CASE Engine!Notifies
  <2>1. /\ at[Connect] = "notifying" /\ kind = "node" /\ db \in {"live", "freeing"}
        /\ UNCHANGED <<kind, active, handle, db>>
    BY <1>5 DEF Engine!Notifies, EngineInv, OnlyNodeNotifies
  <2>2. Engine!Pending(Connect)
    BY <2>1 DEF Engine!Pending, Engine!Started
  <2> QED BY <2>1, <2>2 DEF ConnectedInTime, AnswersAreTrue, LiveIsKnown, Engine!Accepts,
     EngineInv
<1>6. CASE \/ Engine!LibraryLoads \/ Engine!OpenFails \/ Engine!TakesInstance
           \/ Engine!ReaderExits \/ Engine!Ready \/ Engine!AgentTakes
  BY <1>6 DEF Engine!LibraryLoads, Engine!OpenFails, Engine!TakesInstance, Engine!ReaderExits,
     Engine!Ready, Engine!AgentTakes, Engine!Answer, Engine!Settle
<1>7. CASE \E k \in EngineCloses : Engine!Frees(k) \/ Engine!Close(k)
  <2>1. PICK k \in EngineCloses : Engine!Frees(k) \/ Engine!Close(k)
    BY <1>7
  <2>2. ~Engine!Frees(k)
    BY <1>2 DEF Engine!Frees, Engine!Answer
  <2>3. ~Engine!Close(k)
    BY <1>1, EnginesAssumption DEF Engine!Close, Engine!TypeOK
  <2> QED BY <2>1, <2>2, <2>3
<1>8. CASE \E c \in EngineCalls : Engine!Call(c) \/ Engine!TakesLock(c) \/ Engine!Executes(c)
  BY <1>2, <1>8 DEF Engine!Call, Engine!TakesLock, Engine!Executes, Engine!Answer
<1> QED BY <1>3, <1>4, <1>5, <1>6, <1>7, <1>8 DEF Engine!Next, Engine!Host

-----------------------------------------------------------------------------
(* The theorems about the engines.                                         *)

LEMMA EngineStays == ServicesSpec => []EngineInv
<1>1. ServicesInit => EngineInv
  BY EngineInitHolds DEF ServicesInit
<1>2. EngineInv /\ [ServicesNext]_<<subject, vars, engineVars>> => EngineInv' /\ [Engine!Next]_Engine!vars
  <2>1. SUFFICES ASSUME EngineInv, [ServicesNext]_<<subject, vars, engineVars>>
                 PROVE  EngineInv' /\ [Engine!Next]_Engine!vars
    OBVIOUS
  <2>2. [Engine!Next]_Engine!vars
    BY <2>1 DEF ServicesNext, engineVars, Engine!vars
  <2>3. CASE UNCHANGED Engine!vars
    BY <2>1, <2>2, <2>3
    DEF Engine!vars, EngineInv, Engine!TypeOK, OnlyWorkersPost, ConnectedInTime, TerminatedIsOver,
        FreedIsOver, LiveIsKnown, AnswersAreTrue, OnlyNodeNotifies, Engine!Aborted, Engine!Pending
  <2>4. CASE Engine!Next
    <3>1. CASE \E c \in EngineCalls : Engine!Call(c) \/ Engine!TakesLock(c) \/ Engine!Executes(c)
      BY <2>1, <2>2, <3>1, CallHolds, LockHolds, ExecutesHolds
    <3>2. CASE \E k \in EngineCloses : Engine!Close(k) \/ Engine!Frees(k)
      BY <2>1, <2>2, <3>2, CloseHolds, FreesHolds
    <3>3. CASE Engine!Ready \/ Engine!AgentTakes \/ Engine!Deliver
      BY <2>1, <2>2, <3>3, ReadyHolds, AgentHolds, DeliverHolds
    <3>4. CASE \/ Engine!LibraryLoads \/ Engine!Opens \/ Engine!OpenFails
               \/ Engine!Notifies \/ Engine!TakesInstance \/ Engine!ReaderExits
      BY <2>1, <2>2, <3>4, LibraryHolds, OpensHolds, NotifiesHolds, InstanceHolds, ReaderHolds
    <3>5. EngineInv'
      BY <2>4, <3>1, <3>2, <3>3, <3>4 DEF Engine!Next, Engine!Host
    <3> QED BY <2>2, <3>5
  <2> QED BY <2>2, <2>3, <2>4
<1> QED BY <1>1, <1>2, PTL DEF ServicesSpec

(* Once close() has returned the database of an embedded engine is freed   *)
(* or about to be, calls are refused and "disconnected" stays the last     *)
(* event, for every engine whose #initialize was not overtaken, and for    *)
(* the worker always (wasm engine.ts, node engine.ts, the worker agent).   *)
THEOREM ClosedStaysClosed == ServicesSpec => []ClosedIsOver
BY EngineStays, ClosedThen, PTL DEF ClosedIsOver

(* Whoever hears "connected" from an embedded engine can use it: there is  *)
(* a live database behind it and calls are accepted; an engine that was    *)
(* closed does not say it, except for that of Node when close() overtook   *)
(* its #initialize.                                                        *)
THEOREM ConnectedCanBeUsed == ServicesSpec => ConnectedIsUsable
<1>1. EngineInv /\ [ServicesNext]_<<subject, vars, engineVars>> =>
        [status # "connected" /\ status' = "connected" =>
           IF Engine!Aborted THEN kind = "node" /\ raced
                             ELSE db' = "live" /\ Engine!Accepts']_Engine!vars
  <2>1. [ServicesNext]_<<subject, vars, engineVars>> => [Engine!Next]_Engine!vars
    BY DEF ServicesNext, engineVars, Engine!vars
  <2> QED BY <2>1, ConnectedThen
<1> QED BY <1>1, EngineStays, PTL DEF ServicesSpec, ConnectedIsUsable, Engine!ConnectedIsUsable
=============================================================================
