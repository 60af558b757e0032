---------------------------- MODULE QueryExecution ----------------------------
(***************************************************************************)
(* One query of the application, from the promise nobody has awaited yet   *)
(* to its outcome: internal/dispatched-promise.ts, query/query.ts,         *)
(* utils/frame.ts, internal/retry.ts, RpcEngine.query (engine/rpc.ts), and *)
(* the diagnostics that wrap the engine (engine/diagnostics.ts).           *)
(*                                                                         *)
(* A statement comes to one result: a value, an array of two records, or   *)
(* an error.  A value of the answer to the n-th send is tagged with n, so  *)
(* that the answers of two attempts can be told apart.                     *)
(***************************************************************************)
EXTENDS Integers, Sequences, FiniteSets

CONSTANTS
  Statements,    \* the statements of the query, 1..n
  Modes,         \* subset of {"collect", "responses", "stream"}
  Selections,    \* what is selected: sequences of statements, << >> for all
  Options,       \* retry options: records of enabled and attempts
  MaxThens,      \* bound: handlers attached to the promise
  MaxFailures    \* bound: answers of the server that hold an error

VARIABLES
  call,          \* mode, atomic, selection and retry options; fixed
  phase,         \* where the query is
  thens,         \* handlers attached
  dispatched,    \* #dispatched
  sends,         \* requests of the query sent
  attempts,      \* RetryContext.#attempts
  chunks,        \* the chunks of the answer not read yet
  responses,     \* what collect() or responses() has by position
  frames,        \* frames yielded by stream()
  outcome,       \* how the promise or the stream ended
  applied,       \* history: how often each statement took effect
  failures,      \* history: answers that held an error
  last,          \* history: the results in the last answer
  before, after  \* history: diagnostic events of the query

vars == <<call, phase, thens, dispatched, sends, attempts, chunks, responses,
          frames, outcome, applied, failures, last, before, after>>
answerVars == <<applied, failures, last>>

Errors  == {"conflict", "failed", "not executed"}
Results == {"value", "array"} \cup Errors

Phases == {"idle", "waiting", "sent", "reading", "backoff", "settled"}

Init ==
  /\ call \in [mode : Modes, atomic : BOOLEAN, selection : Selections, retry : Options]
  /\ phase = "idle"
  /\ thens = 0
  /\ dispatched = FALSE
  /\ sends = 0 /\ attempts = 0
  /\ chunks = << >>
  /\ responses = << >>
  /\ frames = << >>
  /\ outcome = "none"
  /\ applied = [i \in Statements |-> 0]
  /\ failures = 0
  /\ last = << >>
  /\ before = 0 /\ after = 0

-----------------------------------------------------------------------------
(* Faulty variants of the definitions below.                               *)

\* Every handler dispatches the query.
DispatchAgain == phase' = "waiting" /\ dispatched' = TRUE

\* One attempt more than the options say.
AllowedOnceMore ==
  call.retry.enabled /\ (call.retry.attempts = -1 \/ attempts <= call.retry.attempts)

\* The results of a failed attempt are kept.
ResendKeeping ==
  /\ phase = "backoff"
  /\ phase' = "sent" /\ sends' = sends + 1 /\ before' = before + 1
  /\ UNCHANGED responses

\* Every error is tried again, also that of a request whose answer is lost.
RetryableAny(error) == TRUE

\* No frame ends the values of a single result.
FramesUnended(c) ==
  IF c.error # "none" THEN <<[query |-> c.query, is |-> "error"]>>
  ELSE <<[query |-> c.query, is |-> "value"]>>

-----------------------------------------------------------------------------
(* DispatchedPromise and the start of an attempt.                          *)

Dispatch ==
  IF dispatched THEN UNCHANGED <<phase, dispatched>>
  ELSE phase' = "waiting" /\ dispatched' = TRUE

\* then(), catch() or finally(); for stream() the first next().
Then ==
  /\ thens < MaxThens
  /\ thens' = thens + 1
  /\ Dispatch
  /\ UNCHANGED <<call, sends, attempts, chunks, responses, frames, outcome,
                 answerVars, before, after>>

\* ready() is over: the request is sent, and the diagnostics hear of it.
Send ==
  /\ phase = "waiting"
  /\ phase' = "sent" /\ sends' = sends + 1 /\ before' = before + 1
  /\ responses' = << >>

Resend ==
  /\ phase = "backoff"
  /\ phase' = "sent" /\ sends' = sends + 1 /\ before' = before + 1
  /\ responses' = << >>

Start ==
  /\ Send \/ Resend
  /\ UNCHANGED <<call, thens, dispatched, attempts, chunks, frames, outcome,
                 answerVars, after>>

-----------------------------------------------------------------------------
(* The server.  A statement that fails undoes all of an atomic query.      *)

Good == {"value", "array"}

Answers ==
  {r \in [Statements -> Results] :
     IF call.atomic
       THEN \/ \A i \in Statements : r[i] \in Good
            \/ \E i \in Statements :
                 r[i] \in {"conflict", "failed"}
                   /\ \A j \in Statements \ {i} : r[j] = "not executed"
       ELSE \A i \in Statements : r[i] # "not executed"}

Chunk(i, result) ==
  [query |-> i,
   kind  |-> IF result = "array" THEN "batched-final" ELSE "single",
   error |-> IF result \in Errors THEN result ELSE "none",
   result |-> IF result = "array" THEN <<i, sends, i, sends>> ELSE <<i, sends>>]

Answer ==
  /\ phase = "sent"
  /\ \E r \in Answers :
       LET bad == \E i \in Statements : r[i] \in Errors
       IN /\ bad => failures < MaxFailures
          /\ failures' = IF bad THEN failures + 1 ELSE failures
          /\ applied' = [i \in Statements |-> IF r[i] \in Good THEN applied[i] + 1 ELSE applied[i]]
          /\ last' = r
          /\ chunks' = [i \in Statements |-> Chunk(i, r[i])]
  /\ phase' = "reading"
  /\ UNCHANGED <<call, thens, dispatched, sends, attempts, responses, frames,
                 outcome, before, after>>

-----------------------------------------------------------------------------
(* The reader.                                                             *)

Selected(i) == call.selection = << >> \/ \E p \in DOMAIN call.selection : call.selection[p] = i

\* The last position of a statement that is selected twice.
Position(i) ==
  IF call.selection = << >> THEN i
  ELSE CHOOSE p \in DOMAIN call.selection :
         /\ call.selection[p] = i
         /\ \A q \in DOMAIN call.selection : call.selection[q] = i => q <= p

At(p) == IF p \in DOMAIN responses THEN responses[p] ELSE << >>

Put(p, x) == [q \in DOMAIN responses \cup {p} |-> IF q = p THEN x ELSE responses[q]]

\* collect() throws on every error, responses() on one that is not selected.
Throws(c) ==
  c.error # "none" /\ (call.mode = "collect" \/ (call.mode = "responses" /\ ~Selected(c.query)))

Take(c) ==
  LET p == Position(c.query)
  IN IF ~Selected(c.query) THEN responses
     ELSE IF c.error # "none" THEN Put(p, <<c.error>>)
     ELSE IF c.kind = "single" THEN Put(p, c.result)
     ELSE Put(p, At(p) \o c.result)

Values(c) == IF c.kind = "single" THEN <<c.result>> ELSE <<SubSeq(c.result, 1, 2), SubSeq(c.result, 3, 4)>>

Frames(c) ==
  IF c.error # "none" THEN <<[query |-> c.query, is |-> "error"]>>
  ELSE [i \in DOMAIN Values(c) |-> [query |-> c.query, is |-> "value"]]
         \o <<[query |-> c.query, is |-> "done"]>>

Read ==
  /\ phase = "reading" /\ chunks # << >> /\ ~Throws(Head(chunks))
  /\ chunks' = Tail(chunks)
  /\ IF call.mode = "stream"
       THEN frames' = frames \o Frames(Head(chunks)) /\ UNCHANGED responses
       ELSE responses' = Take(Head(chunks)) /\ UNCHANGED frames
  /\ UNCHANGED <<call, phase, thens, dispatched, sends, attempts, outcome,
                 answerVars, before, after>>

End ==
  /\ phase = "reading" /\ chunks = << >>
  /\ phase' = "settled" /\ outcome' = "resolved"
  /\ after' = after + 1
  /\ UNCHANGED <<call, thens, dispatched, sends, attempts, chunks, responses,
                 frames, answerVars, before>>

-----------------------------------------------------------------------------
(* RetryContext.run().                                                     *)

Retryable(error) == error = "conflict"

Allowed == call.retry.enabled /\ (call.retry.attempts = -1 \/ attempts < call.retry.attempts)

\* What follows the error of an attempt.
Failed(error) ==
  IF call.mode = "collect" /\ Retryable(error) /\ Allowed
    THEN phase' = "backoff" /\ attempts' = attempts + 1 /\ UNCHANGED outcome
    ELSE phase' = "settled" /\ outcome' = error /\ UNCHANGED attempts

\* The reader leaves its loop.  return() ends the generator of the diagnostics,
\* and neither of their callbacks for the end of a call runs.
Throw ==
  /\ phase = "reading" /\ chunks # << >> /\ Throws(Head(chunks))
  /\ chunks' = << >>
  /\ Failed(Head(chunks).error)
  /\ UNCHANGED <<call, thens, dispatched, sends, responses, frames, answerVars, before, after>>

\* send() rejects; the server may have executed the request.
Reject ==
  /\ phase = "sent" /\ failures < MaxFailures
  /\ failures' = failures + 1
  /\ \/ UNCHANGED applied
     \/ applied' = [i \in Statements |-> applied[i] + 1]
  /\ Failed("lost")
  /\ after' = after + 1
  /\ UNCHANGED <<call, thens, dispatched, sends, chunks, responses, frames, last, before>>

Next == Then \/ Start \/ Answer \/ Read \/ End \/ Throw \/ Reject

Spec == Init /\ [][Next]_vars

-----------------------------------------------------------------------------
(* Properties.                                                             *)

TypeOK ==
  /\ call.mode \in Modes /\ call.retry \in Options
  /\ phase \in Phases
  /\ thens \in 0..MaxThens /\ failures \in 0..MaxFailures
  /\ dispatched \in BOOLEAN
  /\ outcome \in {"none", "resolved", "lost"} \cup Errors
  /\ DOMAIN responses \subseteq {Position(i) : i \in {j \in Statements : Selected(j)}}
  /\ after <= before

\* A query is sent when it is first awaited, once, however many handlers are
\* attached, and then once for each conflict that collect() met.
SentAsAwaited ==
  /\ thens = 0 => sends = 0
  /\ sends <= 1 + attempts

Expected(i) ==
  CASE last[i] = "value" -> <<i, sends>>
    [] last[i] = "array" -> <<i, sends, i, sends>>
    [] OTHER             -> <<last[i]>>

\* What collect() and responses() resolve with is the last answer, all of what
\* was selected and nothing of an earlier attempt.
ResolvesWithLastAnswer ==
  outcome = "resolved" /\ call.mode # "stream" =>
    /\ DOMAIN responses = {Position(i) : i \in {j \in Statements : Selected(j)}}
    /\ \A i \in Statements : Selected(i) => responses[Position(i)] = Expected(i)

\* query.ts, retry(): a query that is one transaction takes effect at most once,
\* whatever is tried again, and once when collect() resolves.
AtomicOnce ==
  call.atomic =>
    \A i \in Statements :
      applied[i] <= 1 /\ (outcome = "resolved" /\ call.mode = "collect" => applied[i] = 1)

\* collect() gives up on a conflict exactly when the attempts are used.
GivesUpOnlyWhenSpent ==
  /\ call.retry.attempts # -1 => attempts <= call.retry.attempts
  /\ outcome = "conflict" /\ call.mode = "collect" /\ call.retry.enabled =>
       attempts = call.retry.attempts

\* A stream that ended has told the end or the error of every statement once,
\* in order, and after it no further value of that statement.
EveryStatementEnds ==
  outcome = "resolved" /\ call.mode = "stream" =>
    /\ \A i \in DOMAIN frames : frames[i].query \in Statements
    /\ \A s \in Statements : \E i \in DOMAIN frames : frames[i].query = s /\ frames[i].is # "value"
    /\ \A i, j \in DOMAIN frames :
         i < j => \/ frames[i].query < frames[j].query
                  \/ frames[i].query = frames[j].query /\ frames[i].is = "value"
=============================================================================
