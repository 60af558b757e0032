------------------------- MODULE SpectronTransport -------------------------
(***************************************************************************)
(* The transport of the Spectron client (packages/spectron): every method  *)
(* of the client and of its components ends in requestJson, requestBytes   *)
(* or stream.  A call is sent, may be lost, refused, answered halfway or   *)
(* time out, and is tried again when that is held to be safe.  A write     *)
(* that is tried again carries a key under which the server collapses its  *)
(* repetitions.                                                            *)
(***************************************************************************)
EXTENDS Naturals, FiniteSets

CONSTANTS
    Calls,        \* the calls of the application
    Texts,        \* the bodies they carry
    MaxRetries,   \* the option maxRetries of the client
    Bucket,       \* the length of the time bucket of an idempotency key
    MaxClock,     \* bounds the clock
    None          \* the absence of a key

VARIABLES
    clock,        \* the wall clock
    call,         \* what each call asks for and how far it is
    travelling,   \* the requests under way to the server
    seen,         \* the keys the server has served
    effects,      \* how often the request of a call took effect
    stored        \* the texts the server has written

vars == <<clock, call, travelling, seen, effects, stored>>

-----------------------------------------------------------------------------
(* The operations.  Only what the transport tells apart is kept: whether the *)
(* method is GET or one that writes (POST, PUT and DELETE go the same way),  *)
(* whether the write is marked idempotent, and which request function runs.  *)

Read     == [method |-> "GET",  idempotent |-> FALSE, via |-> "json"]
Write    == [method |-> "POST", idempotent |-> FALSE, via |-> "json"]
Remember == [method |-> "POST", idempotent |-> TRUE,  via |-> "json"]
Raw      == [method |-> "GET",  idempotent |-> FALSE, via |-> "bytes"]
Stream   == [method |-> "POST", idempotent |-> FALSE, via |-> "stream"]

MemoryCalls ==
    [health |-> Read, remember |-> Remember, rememberMany |-> Remember,
     recall |-> Write, forget |-> Write]

ThinkingCalls ==
    [chat |-> Write, chatStream |-> Stream, context |-> Write,
     reflect |-> Write, consolidate |-> Write, elaborate |-> Write]

InsightCalls ==
    [fsck |-> Write, inspect |-> Read, audit |-> Read, state |-> Read,
     profile |-> Read, whoami |-> Read]

KeywordCalls ==
    [list |-> Read, search |-> Write, get |-> Read, forDocument |-> Read]

DocumentCalls ==
    [upload |-> Write, reprocess |-> Write, get |-> Read, raw |-> Raw,
     chunks |-> Read, list |-> Read, delete |-> Write, query |-> Write,
     recomputeLinks |-> Write]

EntityCalls    == [list |-> Read, get |-> Read, history |-> Read, delete |-> Write]
KeyCalls       == [create |-> Write, list |-> Read, delete |-> Write, rotate |-> Write]
LifecycleCalls == [expire |-> Write, decay |-> Write]
PrincipalCalls == [list |-> Read, get |-> Read, effective |-> Read,
                   grant |-> Write, revoke |-> Write]
ScopeCalls     == [list |-> Read, register |-> Write, delete |-> Write, forget |-> Write]
SessionCalls   == [create |-> Write, close |-> Write, turns |-> Read, context |-> Write]
TraceCalls     == [list |-> Read, get |-> Read, stats |-> Read]

Served(calls) == {calls[name] : name \in DOMAIN calls}

Operations ==
    Served(MemoryCalls) \cup Served(ThinkingCalls) \cup Served(InsightCalls)
        \cup Served(KeywordCalls) \cup Served(DocumentCalls) \cup Served(EntityCalls)
        \cup Served(KeyCalls) \cup Served(LifecycleCalls) \cup Served(PrincipalCalls)
        \cup Served(ScopeCalls) \cup Served(SessionCalls) \cup Served(TraceCalls)

-----------------------------------------------------------------------------
(* Retries and keys.                                                       *)

\* The status of an answer; 0 stands for `null`: no answer at all.
NoStatus == 0
Statuses == {200, 404, 503}

ShouldRetry(op, status, attempt) ==
    /\ attempt < MaxRetries
    /\ op.method = "GET" \/ op.idempotent
    /\ status = NoStatus \/ status >= 500

\* A faulty variant: the body is left out of the digest.
DigestsNoBody(op, text, now) == [text |-> None, bucket |-> now \div Bucket]

\* The key digests the method, the path, the body and the time bucket.
IdempotencyKey(op, text, now) == [text |-> text, bucket |-> now \div Bucket]

KeyOf(op, text) == IF op.idempotent THEN IdempotencyKey(op, text, clock) ELSE None

\* A faulty variant: each attempt computes a key of its own.
KeyAnew(c) == IF call[c].op.idempotent
              THEN IdempotencyKey(call[c].op, call[c].text, clock) ELSE None

\* The key of a retry: computed once, before the loop.
KeyKept(c) == call[c].key

ErrorOf(status) ==
    CASE status >= 500 -> "ServerError"
      [] status = 401  -> "AuthError"
      [] status = 403  -> "ScopeError"
      [] status = 404  -> "NotFoundError"
      [] status = 429  -> "RateLimitError"
      [] status \in {400, 422} -> "ValidationError"
      [] OTHER -> "SpectronError"

-----------------------------------------------------------------------------
Idle == [op |-> None, text |-> None, key |-> None, attempt |-> 0,
         at |-> "idle", status |-> NoStatus, said |-> None]

Init ==
    /\ clock = 0
    /\ call = [c \in Calls |-> Idle]
    /\ travelling = {}
    /\ seen = {}
    /\ effects = [c \in Calls |-> 0]
    /\ stored = {}

Request(c, attempt, key) == [call |-> c, attempt |-> attempt, key |-> key]

\* The application calls a method.
Start(c) ==
    /\ call[c].at = "idle"
    /\ \E op \in Operations, text \in Texts :
        LET key == KeyOf(op, text) IN
        /\ call' = [call EXCEPT ![c] = [Idle EXCEPT !.op = op, !.text = text,
                                                    !.key = key, !.at = "fetching"]]
        /\ travelling' = travelling \cup {Request(c, 0, key)}
    /\ UNCHANGED <<clock, seen, effects, stored>>

Fails(c, why) == call' = [call EXCEPT ![c].at = "failed", ![c].said = why]

Sleeps(c) == call' = [call EXCEPT ![c].at = "sleeping"]

\* The catch block, for an error without a status; a stream has none.
Caught(c) ==
    IF /\ call[c].op.via # "stream"
       /\ ShouldRetry(call[c].op, NoStatus, call[c].attempt)
    THEN Sleeps(c) ELSE Fails(c, "ConnectionError")

\* The error of a refusal reaches the same catch block: requestJson throws
\* it on, requestBytes retries whatever it caught.
Refused(c, status) ==
    IF call[c].op.via = "bytes" /\ ShouldRetry(call[c].op, NoStatus, call[c].attempt)
    THEN Sleeps(c) ELSE Fails(c, ErrorOf(status))

\* The headers of an answer arrive: the timer is cleared, and a server error
\* is retried without reading the body.
Answered(c, status) ==
    IF /\ status >= 400 /\ call[c].op.via # "stream"
       /\ ShouldRetry(call[c].op, status, call[c].attempt)
    THEN call' = [call EXCEPT ![c].at = "sleeping", ![c].status = status]
    ELSE call' = [call EXCEPT ![c].at = "reading", ![c].status = status]

TakesEffect(r) ==
    /\ call[r.call].op.method # "GET"
    /\ r.key = None \/ r.key \notin seen

\* A request reaches the server, possibly long after its call gave it up.
\* A server error may strike before or after the write.
Arrive(r) ==
    /\ \E status \in Statuses :
        LET written == TakesEffect(r) /\ status = 200 IN
        \E late \in IF TakesEffect(r) /\ status >= 500 THEN BOOLEAN ELSE {written} :
            /\ effects' = IF late THEN [effects EXCEPT ![r.call] = @ + 1] ELSE effects
            /\ stored' = IF late THEN stored \cup {call[r.call].text} ELSE stored
            /\ seen' = IF late /\ r.key # None THEN seen \cup {r.key} ELSE seen
            /\ IF /\ call[r.call].at = "fetching"
                  /\ call[r.call].attempt = r.attempt
               THEN Answered(r.call, status) ELSE UNCHANGED call
    /\ travelling' = travelling \ {r}
    /\ UNCHANGED clock

\* The connection breaks before an answer: the request may still arrive.
Break(c) ==
    /\ call[c].at = "fetching"
    /\ Caught(c)
    /\ UNCHANGED <<clock, travelling, seen, effects, stored>>

Lose(r) ==
    /\ travelling' = travelling \ {r}
    /\ UNCHANGED <<clock, call, seen, effects, stored>>

\* A faulty variant: one timer for the whole call, cleared by its first answer.
ArmedOnce(c) == call[c].op.via # "stream" /\ call[c].attempt = 0

\* Each attempt arms a timer of its own; a stream has none.
Armed(c) == call[c].op.via # "stream"

TimesOut(c) ==
    /\ call[c].at = "fetching" /\ Armed(c)
    /\ Fails(c, "ConnectionError")
    /\ UNCHANGED <<clock, travelling, seen, effects, stored>>

ReadBody(c) ==
    /\ call[c].at = "reading"
    /\ IF call[c].status = 200
       THEN call' = [call EXCEPT ![c].at = "done"]
       ELSE Refused(c, call[c].status)
    /\ UNCHANGED <<clock, travelling, seen, effects, stored>>

\* The body breaks off: the error has no status, whatever the answer was.
\* A stream that was opened is the reader's from then on.
LoseBody(c) ==
    /\ call[c].at = "reading"
    /\ call[c].op.via = "stream" => call[c].status # 200
    /\ Caught(c)
    /\ UNCHANGED <<clock, travelling, seen, effects, stored>>

Wake(c) ==
    /\ call[c].at = "sleeping"
    /\ LET key == KeyKept(c) IN
       /\ call' = [call EXCEPT ![c].at = "fetching", ![c].attempt = @ + 1,
                               ![c].key = key, ![c].status = NoStatus]
       /\ travelling' = travelling \cup {Request(c, call[c].attempt + 1, key)}
    /\ UNCHANGED <<clock, seen, effects, stored>>

Tick ==
    /\ clock < MaxClock
    /\ clock' = clock + 1
    /\ UNCHANGED <<call, travelling, seen, effects, stored>>

Next ==
    \/ Tick
    \/ \E r \in travelling : Arrive(r) \/ Lose(r)
    \/ \E c \in Calls : Start(c) \/ Break(c) \/ TimesOut(c) \/ ReadBody(c)
                        \/ LoseBody(c) \/ Wake(c)

\* Timers fire, and a body that began ends or breaks off.
Fairness == \A c \in Calls : /\ WF_vars(TimesOut(c)) /\ WF_vars(Wake(c))
                             /\ WF_vars(ReadBody(c) \/ LoseBody(c))

Spec == Init /\ [][Next]_vars /\ Fairness

-----------------------------------------------------------------------------
(* Types.                                                                  *)
TypeOK ==
    /\ clock \in 0..MaxClock
    /\ \A c \in Calls : /\ call[c].attempt \in 0..MaxRetries
                        /\ call[c].at \in {"idle", "fetching", "reading", "sleeping",
                                           "done", "failed"}
    /\ \A r \in travelling : r.call \in Calls /\ r.attempt <= call[r.call].attempt
    /\ stored \subseteq Texts

\* However often a write is retried, and however late a request arrives that
\* its call had given up, the write takes effect at most once: a write that
\* carries no key is sent once (retry.ts), and a retry carries the key of the
\* first attempt, even in a later bucket (transport.ts:144).
WrittenOnce == \A c \in Calls : effects[c] <= 1

\* A write that resolved was written, by this call or by an identical one in
\* the same bucket: the key tells the bodies apart, so that no write collapses
\* into another one (idempotency.ts:35).
ResolvedIsWritten ==
    \A c \in Calls : call[c].at = "done" /\ call[c].op.method # "GET"
                        => call[c].text \in stored

\* Every call settles, whatever is lost: each attempt has its timer
\* (transport.ts:151).  A stream has none and is left out.
Settles ==
    \A c \in Calls :
        call[c].at = "fetching" /\ call[c].op.via # "stream"
            ~> call[c].at \in {"done", "failed"}

\* "Retries apply ... on 5xx responses or connection errors" (retry.ts:12).
RefusalIsFinal ==
    [][\A c \in Calls :
        call[c].at = "reading" /\ call[c].status \in 400..499 /\ ReadBody(c)
            => call'[c].at = "failed"]_vars
=============================================================================
