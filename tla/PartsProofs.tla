----------------------------- MODULE PartsProofs -----------------------------
(***************************************************************************)
(* Proofs about QueryExecution, HttpEngine, EmbeddedDatabase, Diagnostics, *)
(* Publisher and Decimals, each with an invariant of its own, and about    *)
(* Parts, where they are put together.                                     *)
(***************************************************************************)
EXTENDS Parts, SequenceTheorems, FiniteSetTheorems, WellFoundedInduction, TLAPS

-----------------------------------------------------------------------------
(* The queries: what the proofs assume of the constants.                   *)

Count == Cardinality(Statements)

QueryConstants ==
  /\ Count \in Nat /\ Statements = 1..Count
  /\ Selections \subseteq Seq(Statements)
  /\ \A option \in RetryOptions : option.attempts \in Nat \cup {-1}
  /\ MaxThens \in Nat /\ MaxFailures \in Nat

-----------------------------------------------------------------------------
(* The inductive invariant.                                                *)

AnyChunk ==
  [query  : Statements,
   kind   : {"single", "batched-final"},
   error  : Query!Errors \cup {"none"},
   result : Seq(Nat)]

QueryShape ==
  /\ call \in [mode : Modes, atomic : BOOLEAN, selection : Selections, retry : RetryOptions]
  /\ phase \in Query!Phases
  /\ attempts \in Nat /\ sends \in Nat /\ dispatched \in BOOLEAN /\ thens \in Nat
  /\ chunks \in Seq(AnyChunk)
  /\ DOMAIN applied = Statements
  /\ phase # "settled" => outcome = "none"

Undone   == \A i \in Statements : applied[i] = 0
DoneOnce == \A i \in Statements : applied[i] = 1

FailureAhead == \E p \in DOMAIN chunks : chunks[p].error # "none"
NoFailures   == \A p \in DOMAIN chunks : chunks[p].error = "none"

\* Nothing of a transaction has taken effect before its answer, and an answer
\* that is read came with all its effects or with none and an error to meet.
EffectsAwaitAnswer ==
  call.atomic =>
    /\ phase \in {"idle", "waiting", "sent", "backoff"} => Undone
    /\ phase = "reading" =>
         \/ DoneOnce /\ NoFailures
         \/ Undone /\ (call.mode = "collect" => FailureAhead)

\* What has taken effect is told.
EffectsAreTold ==
  call.atomic /\ phase = "settled" =>
    /\ Undone \/ DoneOnce
    /\ outcome = "resolved" /\ call.mode = "collect" => DoneOnce

\* A query is dispatched by its first handler, and sent once for each attempt.
SendsCounted ==
  /\ (dispatched <=> phase # "idle") /\ (thens = 0 => ~dispatched)
  /\ phase \in {"idle", "waiting"} => sends = 0 /\ attempts = 0
  /\ phase = "backoff" => sends <= attempts
  /\ sends <= 1 + attempts

QueryInv == QueryShape /\ SendsCounted /\ EffectsAwaitAnswer /\ EffectsAreTold /\ Query!GivesUpOnlyWhenSpent

-----------------------------------------------------------------------------
(* The chunks of an answer, and what is left of them.                      *)

\* What a new answer puts before the reader: of a transaction that failed nothing took
\* effect, and a failure is ahead.
LEMMA ChunksOfAnswer ==
  ASSUME QueryConstants, QueryInv, phase = "sent", NEW r \in Query!Answers,
         chunks' = [i \in Statements |-> Query!Chunk(i, r[i])],
         applied' = [i \in Statements |-> IF r[i] \in Query!Good THEN applied[i] + 1 ELSE applied[i]],
         UNCHANGED call
  PROVE  /\ chunks' \in Seq(AnyChunk) /\ DOMAIN applied' = Statements
         /\ call.atomic => \/ DoneOnce' /\ NoFailures'
                           \/ Undone' /\ FailureAhead'
<1>1. \A i \in Statements : r[i] \in Query!Results
  BY DEF Query!Answers
<1>2. \A i \in Statements : i \in Nat
  BY DEF QueryConstants
<1>3. ASSUME NEW i \in Statements
      PROVE  /\ Query!Chunk(i, r[i]) \in AnyChunk
             /\ Query!Chunk(i, r[i]).error = IF r[i] \in Query!Errors THEN r[i] ELSE "none"
  <2>1. <<i, sends>> \in Seq(Nat) /\ <<i, sends, i, sends>> \in Seq(Nat)
    BY <1>2 DEF QueryInv, QueryShape
  <2> QED BY <2>1 DEF Query!Chunk, AnyChunk
<1>4. chunks' \in Seq(AnyChunk)
  <2>1. Count \in Nat /\ Statements = 1..Count
    BY DEF QueryConstants
  <2> QED BY <1>3, <2>1, IsASeq
<1>5. DOMAIN chunks' = Statements /\ DOMAIN applied' = Statements
      /\ \A i \in Statements : chunks'[i] = Query!Chunk(i, r[i])
  OBVIOUS
<1>6. ASSUME call.atomic, \A i \in Statements : r[i] \in Query!Good
      PROVE  DoneOnce' /\ NoFailures'
  <2>1. Undone
    BY <1>6 DEF QueryInv, EffectsAwaitAnswer
  <2>2. \A i \in Statements : r[i] \notin Query!Errors
    BY <1>6 DEF Query!Good, Query!Errors
  <2> QED BY <1>3, <1>5, <1>6, <2>1, <2>2 DEF DoneOnce, Undone, NoFailures
<1>7. ASSUME call.atomic, NEW i \in Statements, r[i] \in {"conflict", "failed"},
             \A j \in Statements \ {i} : r[j] = "not executed"
      PROVE  Undone' /\ FailureAhead'
  <2>1. Undone
    BY <1>7 DEF QueryInv, EffectsAwaitAnswer
  <2>2. \A j \in Statements : r[j] \notin Query!Good
    BY <1>7 DEF Query!Good
  <2>3. chunks'[i].error # "none"
    BY <1>3, <1>5, <1>7 DEF Query!Errors
  <2> QED BY <1>5, <2>1, <2>2, <2>3 DEF Undone, FailureAhead
<1>8. call.atomic => \/ \A i \in Statements : r[i] \in Query!Good
                     \/ \E i \in Statements :
                          r[i] \in {"conflict", "failed"}
                            /\ \A j \in Statements \ {i} : r[j] = "not executed"
  BY DEF Query!Answers
<1> QED BY <1>4, <1>5, <1>6, <1>7, <1>8

\* What reading a chunk leaves of what is ahead.
LEMMA ChunksLeft ==
  ASSUME chunks \in Seq(AnyChunk), chunks # << >>, chunks' = Tail(chunks)
  PROVE  /\ chunks' \in Seq(AnyChunk)
         /\ NoFailures => NoFailures'
         /\ FailureAhead /\ Head(chunks).error = "none" => FailureAhead'
<1>1. /\ chunks' \in Seq(AnyChunk) /\ Len(chunks') = Len(chunks) - 1 /\ Len(chunks) \in Nat
      /\ \A i \in 1..Len(chunks') : chunks'[i] = chunks[i + 1]
  BY HeadTailProperties
<1>2. DOMAIN chunks = 1..Len(chunks) /\ DOMAIN chunks' = 1..Len(chunks')
      /\ Head(chunks) = chunks[1]
  BY <1>1
<1>3. ASSUME NEW p \in DOMAIN chunks, p # 1
      PROVE  p - 1 \in DOMAIN chunks' /\ chunks'[p - 1] = chunks[p]
  BY <1>1, <1>2, <1>3
<1>4. \A p \in DOMAIN chunks' : p + 1 \in DOMAIN chunks /\ chunks'[p] = chunks[p + 1]
  BY <1>1, <1>2
<1>5. NoFailures => NoFailures'
  BY <1>4 DEF NoFailures
<1>6. FailureAhead /\ Head(chunks).error = "none" => FailureAhead'
  BY <1>2, <1>3 DEF FailureAhead
<1> QED BY <1>1, <1>5, <1>6

-----------------------------------------------------------------------------
(* The invariant is preserved, action by action.                           *)

\* The actions of a query keep its invariant.
LEMMA ThenInv == ASSUME QueryConstants, QueryInv, Query!Then PROVE QueryInv'
<1> USE DEF QueryInv
<1>1. /\ UNCHANGED <<call, sends, attempts, chunks, outcome, applied>>
      /\ thens' = thens + 1 /\ thens' \in Nat /\ thens' # 0
  BY DEF Query!Then, Query!answerVars, QueryShape
<1>2. dispatched' \in BOOLEAN /\ dispatched' /\ phase' = IF phase = "idle" THEN "waiting" ELSE phase
  <2>1. CASE dispatched
    BY <2>1 DEF Query!Then, Query!Dispatch, QueryShape, SendsCounted
  <2>2. CASE ~dispatched
    BY <2>2 DEF Query!Then, Query!Dispatch, SendsCounted
  <2> QED BY <2>1, <2>2
<1>3. QueryShape' /\ SendsCounted'
  <2>1. QueryShape'
    BY <1>1, <1>2 DEF QueryShape, Query!Phases
  <2>2. SendsCounted'
    BY <1>1, <1>2 DEF SendsCounted
  <2> QED BY <2>1, <2>2
<1>4. EffectsAwaitAnswer' /\ EffectsAreTold'
  BY <1>1, <1>2 DEF EffectsAwaitAnswer, EffectsAreTold, Undone, DoneOnce, NoFailures,
     FailureAhead
<1>5. Query!GivesUpOnlyWhenSpent'
  BY <1>1 DEF Query!GivesUpOnlyWhenSpent
<1> QED BY <1>3, <1>4, <1>5

LEMMA StartInv == ASSUME QueryConstants, QueryInv, Query!Start PROVE QueryInv'
<1> USE DEF QueryInv
<1>1. /\ UNCHANGED <<call, thens, dispatched, attempts, chunks, outcome, applied>>
      /\ phase \in {"waiting", "backoff"} /\ phase' = "sent" /\ sends' = sends + 1
  BY DEF Query!Start, Query!Send, Query!Resend, Query!answerVars
<1>2. QueryShape' /\ SendsCounted'
  BY <1>1 DEF QueryShape, SendsCounted, Query!Phases
<1>3. EffectsAwaitAnswer' /\ EffectsAreTold'
  BY <1>1 DEF EffectsAwaitAnswer, EffectsAreTold, Undone
<1>4. Query!GivesUpOnlyWhenSpent'
  BY <1>1 DEF Query!GivesUpOnlyWhenSpent
<1> QED BY <1>2, <1>3, <1>4

LEMMA AnswerInv == ASSUME QueryConstants, QueryInv, Query!Answer PROVE QueryInv'
<1> USE DEF QueryInv
<1>1. /\ phase = "sent" /\ phase' = "reading"
      /\ UNCHANGED <<call, thens, dispatched, sends, attempts, outcome>>
  BY DEF Query!Answer
<1>2. PICK r \in Query!Answers :
        /\ chunks' = [i \in Statements |-> Query!Chunk(i, r[i])]
        /\ applied' = [i \in Statements |-> IF r[i] \in Query!Good THEN applied[i] + 1 ELSE applied[i]]
  BY DEF Query!Answer
<1>3. /\ chunks' \in Seq(AnyChunk) /\ DOMAIN applied' = Statements
      /\ call.atomic => \/ DoneOnce' /\ NoFailures'
                        \/ Undone' /\ FailureAhead'
  BY <1>1, <1>2, ChunksOfAnswer
<1>4. QueryShape' /\ SendsCounted'
  BY <1>1, <1>3 DEF QueryShape, SendsCounted, Query!Phases
<1>5. EffectsAwaitAnswer' /\ EffectsAreTold'
  BY <1>1, <1>3 DEF EffectsAwaitAnswer, EffectsAreTold
<1>6. Query!GivesUpOnlyWhenSpent'
  BY <1>1 DEF Query!GivesUpOnlyWhenSpent
<1> QED BY <1>4, <1>5, <1>6

LEMMA ReadInv == ASSUME QueryConstants, QueryInv, Query!Read PROVE QueryInv'
<1> USE DEF QueryInv
<1>1. /\ phase = "reading" /\ chunks # << >> /\ ~Query!Throws(Head(chunks)) /\ chunks' = Tail(chunks)
      /\ UNCHANGED <<call, phase, thens, dispatched, sends, attempts, outcome, applied>>
  BY DEF Query!Read, Query!answerVars
<1>2. /\ chunks' \in Seq(AnyChunk) /\ (NoFailures => NoFailures')
      /\ FailureAhead /\ call.mode = "collect" => FailureAhead'
  BY <1>1, ChunksLeft DEF QueryShape, Query!Throws
<1>3. QueryShape' /\ SendsCounted'
  BY <1>1, <1>2 DEF QueryShape, SendsCounted
<1>4. EffectsAwaitAnswer' /\ EffectsAreTold'
  BY <1>1, <1>2 DEF EffectsAwaitAnswer, EffectsAreTold, Undone, DoneOnce
<1>5. Query!GivesUpOnlyWhenSpent'
  BY <1>1 DEF Query!GivesUpOnlyWhenSpent
<1> QED BY <1>3, <1>4, <1>5

LEMMA EndInv == ASSUME QueryConstants, QueryInv, Query!End PROVE QueryInv'
<1> USE DEF QueryInv
<1>1. /\ phase = "reading" /\ chunks = << >> /\ phase' = "settled" /\ outcome' = "resolved"
      /\ UNCHANGED <<call, thens, dispatched, sends, attempts, chunks, applied>>
  BY DEF Query!End, Query!answerVars
<1>2. QueryShape' /\ SendsCounted'
  BY <1>1 DEF QueryShape, SendsCounted, Query!Phases
<1>3. ~FailureAhead
  BY <1>1 DEF FailureAhead
<1>4. EffectsAwaitAnswer' /\ EffectsAreTold'
  BY <1>1, <1>3 DEF EffectsAwaitAnswer, EffectsAreTold, Undone, DoneOnce
<1>5. Query!GivesUpOnlyWhenSpent'
  BY <1>1 DEF Query!GivesUpOnlyWhenSpent
<1> QED BY <1>2, <1>4, <1>5

\* What follows an error, when a transaction that is tried again is undone.
LEMMA FailedInv ==
  ASSUME QueryConstants, QueryInv, NEW error, error # "resolved", Query!Failed(error),
         phase \in {"sent", "reading"}, chunks' \in Seq(AnyChunk), DOMAIN applied' = Statements,
         UNCHANGED <<call, thens, dispatched, sends>>,
         call.atomic => Undone' \/ (DoneOnce' /\ error # "conflict")
  PROVE  QueryInv'
<1> USE DEF QueryInv
<1>1. attempts \in Nat /\ outcome = "none" /\ call.retry.attempts \in Nat \cup {-1}
  BY DEF QueryShape, QueryConstants
<1>2. CASE call.mode = "collect" /\ Query!Retryable(error) /\ Query!Allowed
  <2>1. phase' = "backoff" /\ attempts' = attempts + 1 /\ outcome' = outcome /\ error = "conflict"
    BY <1>2 DEF Query!Failed, Query!Retryable
  <2>2. QueryShape' /\ SendsCounted'
    BY <1>1, <2>1 DEF QueryShape, SendsCounted, Query!Phases
  <2>3. EffectsAwaitAnswer' /\ EffectsAreTold'
    BY <2>1 DEF EffectsAwaitAnswer, EffectsAreTold
  <2>4. Query!GivesUpOnlyWhenSpent'
    BY <1>1, <1>2, <2>1 DEF Query!GivesUpOnlyWhenSpent, Query!Allowed
  <2> QED BY <2>2, <2>3, <2>4
<1>3. CASE ~(call.mode = "collect" /\ Query!Retryable(error) /\ Query!Allowed)
  <2>1. phase' = "settled" /\ attempts' = attempts /\ outcome' = error
    BY <1>3 DEF Query!Failed
  <2>2. QueryShape' /\ SendsCounted'
    BY <1>1, <2>1 DEF QueryShape, SendsCounted, Query!Phases
  <2>3. EffectsAwaitAnswer' /\ EffectsAreTold'
    BY <2>1 DEF EffectsAwaitAnswer, EffectsAreTold
  <2>4. Query!GivesUpOnlyWhenSpent'
    BY <1>1, <1>3, <2>1 DEF Query!GivesUpOnlyWhenSpent, Query!Allowed, Query!Retryable
  <2> QED BY <2>2, <2>3, <2>4
<1> QED BY <1>2, <1>3

LEMMA ThrowInv == ASSUME QueryConstants, QueryInv, Query!Throw PROVE QueryInv'
<1> USE DEF QueryInv
<1>1. /\ phase = "reading" /\ chunks # << >> /\ chunks' = << >>
      /\ Query!Throws(Head(chunks)) /\ Query!Failed(Head(chunks).error)
      /\ UNCHANGED <<call, thens, dispatched, sends, applied>>
  BY DEF Query!Throw, Query!answerVars
<1>2. Head(chunks) \in AnyChunk /\ 1 \in DOMAIN chunks /\ Head(chunks) = chunks[1]
  BY <1>1, HeadTailProperties DEF QueryShape
<1>3. Head(chunks).error # "resolved" /\ ~NoFailures
  BY <1>1, <1>2 DEF AnyChunk, Query!Errors, NoFailures, Query!Throws
<1>4. call.atomic => Undone'
  BY <1>1, <1>3 DEF EffectsAwaitAnswer, Undone
<1>5. chunks' \in Seq(AnyChunk) /\ DOMAIN applied' = Statements
  BY <1>1 DEF QueryShape
<1> QED BY <1>1, <1>3, <1>4, <1>5, FailedInv

LEMMA RejectInv == ASSUME QueryConstants, QueryInv, Query!Reject PROVE QueryInv'
<1> USE DEF QueryInv
<1>1. /\ phase = "sent" /\ Query!Failed("lost")
      /\ UNCHANGED <<call, thens, dispatched, sends, chunks>>
      /\ applied' = applied \/ applied' = [i \in Statements |-> applied[i] + 1]
  BY DEF Query!Reject
<1>2. DOMAIN applied' = Statements
  BY <1>1 DEF QueryShape
<1>3. call.atomic => Undone' \/ DoneOnce'
  BY <1>1 DEF EffectsAwaitAnswer, Undone, DoneOnce
<1> QED BY <1>1, <1>2, <1>3, FailedInv DEF QueryShape

LEMMA QueryInitInv == ASSUME QueryConstants, Query!Init PROVE QueryInv
<1>1. QueryShape
  <2>1. chunks \in Seq(AnyChunk) /\ attempts \in Nat /\ sends \in Nat /\ thens \in Nat
    BY EmptySeq DEF Query!Init
  <2>2. dispatched \in BOOLEAN /\ phase \in Query!Phases /\ outcome = "none"
    BY DEF Query!Init, Query!Phases
  <2>3. DOMAIN applied = Statements
    BY DEF Query!Init
  <2>4. call \in [mode : Modes, atomic : BOOLEAN, selection : Selections, retry : RetryOptions]
    BY DEF Query!Init
  <2> QED BY <2>1, <2>2, <2>3, <2>4 DEF QueryShape
<1>2. SendsCounted
  BY DEF Query!Init, SendsCounted
<1>3. EffectsAwaitAnswer /\ EffectsAreTold
  BY DEF Query!Init, EffectsAwaitAnswer, EffectsAreTold, Undone
<1>4. Query!GivesUpOnlyWhenSpent
  BY <1>1 DEF Query!Init, QueryConstants, QueryShape, Query!GivesUpOnlyWhenSpent
<1> QED BY <1>1, <1>2, <1>3, <1>4 DEF QueryInv

LEMMA QueryNextInv == ASSUME QueryConstants, QueryInv, [Query!Next]_Query!vars PROVE QueryInv'
<1>1. CASE UNCHANGED Query!vars
  BY <1>1 DEF Query!vars, Query!answerVars, QueryInv, QueryShape, SendsCounted,
     EffectsAwaitAnswer, EffectsAreTold,
     Undone, DoneOnce, NoFailures, FailureAhead, Query!GivesUpOnlyWhenSpent
<1> QED BY <1>1, ThenInv, StartInv, AnswerInv, ReadInv, EndInv, ThrowInv, RejectInv
   DEF Query!Next

-----------------------------------------------------------------------------
(* What is read of an answer.                                              *)

\* A set of numbers that is not empty has a least element.
LEMMA HasFirst ==
  ASSUME NEW T, T \subseteq Nat, T # {}
  PROVE  \E x \in T : \A y \in T : x <= y
<1>1. PICK x \in T : \A y \in T : ~(<<y, x>> \in OpToRel(<, Nat))
  BY NatLessThanWellFounded, WFMin
<1>2. \A y \in T : ~(y < x)
  BY <1>1 DEF OpToRel
<1>3. x \in Nat /\ \A y \in T : y \in Nat
  OBVIOUS
<1>4. \A y \in T : x <= y
  BY <1>2, <1>3
<1> QED BY <1>4

\* A set of numbers up to n that is not empty has a greatest element.
LEMMA HasLastIn ==
  ASSUME NEW n \in Nat, NEW S, S \subseteq 1..n, S # {}
  PROVE  \E x \in S : \A y \in S : y <= x
<1> DEFINE T == {n - x : x \in S}
<1>1. T \subseteq Nat /\ T # {}
  <2>1. \A x \in S : x \in 1..n
    OBVIOUS
  <2>2. \A x \in S : n - x \in Nat
    BY <2>1
  <2> QED BY <2>2
<1>2. PICK t \in T : \A u \in T : t <= u
  <2> HIDE DEF T
  <2> QED BY <1>1, HasFirst
<1>3. PICK x \in S : t = n - x
  OBVIOUS
<1> QED BY <1>2, <1>3

\* The statements read of the answer at hand.
Told == Count - Len(chunks)

Positions(m) == {Query!Position(i) : i \in {j \in 1..m : Query!Selected(j)}}

Collected(m) ==
  /\ DOMAIN responses = Positions(m)
  /\ \A i \in 1..m : Query!Selected(i) => responses[Query!Position(i)] = Query!Expected(i)

Frame == [query : Nat, is : {"value", "done", "error"}]

InTurn(f) ==
  \A i, j \in DOMAIN f :
    i < j => \/ f[i].query < f[j].query
             \/ f[i].query = f[j].query /\ f[i].is = "value"

Streamed(f, m) ==
  /\ f \in Seq(Frame)
  /\ \A i \in DOMAIN f : f[i].query \in 1..m
  /\ \A s \in 1..m : \E i \in DOMAIN f : f[i].query = s /\ f[i].is # "value"
  /\ InTurn(f)

Counted ==
  /\ thens \in 0..MaxThens /\ failures \in 0..MaxFailures
  /\ before \in Nat /\ after \in Nat /\ after <= before
  /\ phase \in {"sent", "reading"} => after < before
  /\ outcome \in {"none", "resolved", "lost"} \cup Query!Errors

\* The chunks that are left are those of the last statements of the answer.
ChunksAhead ==
  /\ phase = "reading" \/ outcome = "resolved" =>
       /\ last \in [Statements -> Query!Results] /\ Len(chunks) <= Count
       /\ \A p \in 1..Len(chunks) : chunks[p] = Query!Chunk(Told + p, last[Told + p])
  /\ outcome = "resolved" => chunks = << >>

\* The responses are those of the answer at hand, and of the statements read.
ResponsesSoFar ==
  /\ phase = "sent" => responses = << >>
  /\ DOMAIN responses \subseteq Positions(Count)
  /\ call.mode # "stream" /\ (phase = "reading" \/ outcome = "resolved") => Collected(Told)

\* A stream is sent once, and has yielded the frames of the statements read.
FramesSoFar ==
  call.mode = "stream" =>
    /\ phase # "backoff" /\ (phase \in {"idle", "waiting", "sent"} => frames = << >>)
    /\ phase = "reading" \/ outcome = "resolved" => Streamed(frames, Told)

Whole == Counted /\ ChunksAhead /\ ResponsesSoFar /\ FramesSoFar

-----------------------------------------------------------------------------
\* The last position of a selected statement is one of its positions.
LEMMA PositionOf ==
  ASSUME QueryConstants, QueryShape, NEW i \in Statements, Query!Selected(i)
  PROVE  IF call.selection = << >> THEN Query!Position(i) = i
         ELSE Query!Position(i) \in DOMAIN call.selection /\ call.selection[Query!Position(i)] = i
<1>1. CASE call.selection = << >>
  BY <1>1 DEF Query!Position
<1>2. CASE call.selection # << >>
  <2> DEFINE S == {p \in DOMAIN call.selection : call.selection[p] = i}
  <2>1. call.selection \in Seq(Statements)
    BY DEF QueryShape, QueryConstants
  <2>2. Len(call.selection) \in Nat /\ DOMAIN call.selection = 1..Len(call.selection)
    BY <2>1
  <2>3. S # {} /\ S \subseteq 1..Len(call.selection)
    BY <1>2, <2>2 DEF Query!Selected
  <2>4. PICK p \in S : \A q \in S : q <= p
    <3> HIDE DEF S
    <3> QED BY <2>2, <2>3, HasLastIn
  <2>5. \E r \in DOMAIN call.selection :
          /\ call.selection[r] = i
          /\ \A q \in DOMAIN call.selection : call.selection[q] = i => q <= r
    BY <2>4
  <2> QED BY <1>2, <2>5 DEF Query!Position
<1> QED BY <1>1, <1>2

\* Two statements are never put at one position.
LEMMA PositionsDiffer ==
  ASSUME QueryConstants, QueryShape, NEW i \in Statements, NEW j \in Statements,
         Query!Selected(i), Query!Selected(j),
         Query!Position(i) = Query!Position(j)
  PROVE  i = j
BY PositionOf

\* Taking the next chunk collects its statement.
LEMMA Taken ==
  ASSUME QueryConstants, QueryShape, NEW m \in Nat, m + 1 \in Statements,
         last \in [Statements -> Query!Results],
         Collected(m), NEW c, c = Query!Chunk(m + 1, last[m + 1]),
         responses' = Query!Take(c), UNCHANGED <<call, last, sends>>
  PROVE  Collected(m + 1)'
<1> DEFINE s == m + 1
           p == Query!Position(s)
<1>1. /\ c.query = s
      /\ c.kind = IF last[s] = "array" THEN "batched-final" ELSE "single"
      /\ c.error = IF last[s] \in Query!Errors THEN last[s] ELSE "none"
      /\ c.result = IF last[s] = "array" THEN <<s, sends, s, sends>> ELSE <<s, sends>>
  BY DEF Query!Chunk
<1>2. last[s] \in Query!Results /\ last[s] # "none"
  BY DEF Query!Results, Query!Errors
<1>3. 1..(m + 1) = (1..m) \cup {s} /\ 1..m \subseteq Statements /\ s \notin 1..m
  BY DEF QueryConstants
<1>4. \A i \in Statements : /\ Query!Position(i)' = Query!Position(i) /\ Query!Selected(i)' = Query!Selected(i)
                            /\ Query!Expected(i)' = Query!Expected(i)
  BY DEF Query!Position, Query!Selected, Query!Expected
<1>5. CASE ~Query!Selected(s)
  <2>1. responses' = responses
    BY <1>1, <1>5 DEF Query!Take
  <2>2. {j \in 1..(m + 1) : Query!Selected(j)'} = {j \in 1..m : Query!Selected(j)}
    BY <1>3, <1>4, <1>5
  <2>3. Positions(m + 1)' = Positions(m)
    BY <1>3, <1>4, <2>2 DEF Positions
  <2> QED BY <1>3, <1>4, <1>5, <2>1, <2>3 DEF Collected
<1>6. CASE Query!Selected(s)
  <2>1. p \notin DOMAIN responses
    <3>1. \A i \in 1..m : Query!Selected(i) => Query!Position(i) # p
      BY <1>3, <1>6, PositionsDiffer
    <3> QED BY <3>1 DEF Collected, Positions
  <2>2. responses' = Query!Put(p, Query!Expected(s))
    <3>1. CASE last[s] \in Query!Errors
      BY <1>1, <1>2, <1>6, <3>1 DEF Query!Take, Query!Expected, Query!Errors
    <3>2. CASE last[s] = "value"
      BY <1>1, <1>2, <1>6, <3>2 DEF Query!Take, Query!Expected, Query!Errors
    <3>3. CASE last[s] = "array"
      <4>1. responses' = Query!Put(p, Query!At(p) \o c.result)
        BY <1>1, <1>6, <3>3 DEF Query!Take, Query!Errors
      <4>2. Query!At(p) = << >>
        BY <2>1 DEF Query!At
      <4>3. c.result = <<s, sends, s, sends>> /\ Query!Expected(s) = <<s, sends, s, sends>>
        BY <1>1, <3>3 DEF Query!Expected
      <4>4. << >> \o <<s, sends, s, sends>> = <<s, sends, s, sends>>
        <5>1. <<s, sends, s, sends>> \in Seq(Nat)
          BY DEF QueryShape
        <5> QED BY <5>1, ConcatEmptySeq
      <4> QED BY <4>1, <4>2, <4>3, <4>4
    <3> QED BY <1>2, <3>1, <3>2, <3>3 DEF Query!Results
  <2>3. /\ DOMAIN responses' = DOMAIN responses \cup {p}
        /\ responses'[p] = Query!Expected(s)
        /\ \A q \in DOMAIN responses : responses'[q] = responses[q]
    BY <2>1, <2>2 DEF Query!Put
  <2>4. {j \in 1..(m + 1) : Query!Selected(j)'} = {j \in 1..m : Query!Selected(j)} \cup {s}
    BY <1>3, <1>4, <1>6
  <2>5. Positions(m + 1)' = Positions(m) \cup {p}
    BY <1>3, <1>4, <2>4 DEF Positions
  <2>6. ASSUME NEW i \in 1..(m + 1), Query!Selected(i)
        PROVE  responses'[Query!Position(i)] = Query!Expected(i)
    <3>1. CASE i = s
      BY <2>3, <3>1
    <3>2. CASE i \in 1..m
      <4>1. Query!Position(i) \in DOMAIN responses /\ responses[Query!Position(i)] = Query!Expected(i)
        BY <2>6, <3>2 DEF Collected, Positions
      <4> QED BY <2>3, <4>1
    <3> QED BY <1>3, <3>1, <3>2
  <2>7. DOMAIN responses' = Positions(m + 1)'
    BY <2>3, <2>5 DEF Collected
  <2> QED BY <1>3, <1>4, <2>6, <2>7 DEF Collected
<1> QED BY <1>5, <1>6

\* The frames of a chunk: values of its statement, and its end.
LEMMA FramesOf ==
  ASSUME NEW c \in AnyChunk, c.query \in Nat
  PROVE  \E n \in Nat \ {0} :
           /\ Query!Frames(c) \in Seq(Frame) /\ Len(Query!Frames(c)) = n
           /\ \A i \in 1..n : /\ Query!Frames(c)[i].query = c.query
                              /\ Query!Frames(c)[i].is = "value" <=> i # n
<1> DEFINE value == [query |-> c.query, is |-> "value"]
           done  == [query |-> c.query, is |-> "done"]
           error == [query |-> c.query, is |-> "error"]
<1>1. value \in Frame /\ done \in Frame /\ error \in Frame
  BY DEF Frame
<1>2. /\ value.query = c.query /\ value.is = "value" /\ done.query = c.query /\ done.is # "value"
      /\ error.query = c.query /\ error.is # "value"
  OBVIOUS
<1>3. CASE c.error # "none"
  <2>1. Query!Frames(c) = <<error>>
    BY <1>3 DEF Query!Frames
  <2> HIDE DEF error
  <2> QED BY <1>1, <1>2, <2>1
<1>4. CASE c.error = "none"
  <2> DEFINE front == [i \in DOMAIN Query!Values(c) |-> value]
  <2>1. Query!Frames(c) = front \o <<done>>
    BY <1>4 DEF Query!Frames
  <2>2. PICK k \in Nat : DOMAIN Query!Values(c) = 1..k
    <3>1. CASE c.kind = "single"
      BY <3>1 DEF Query!Values
    <3>2. CASE c.kind # "single"
      BY <3>2 DEF Query!Values
    <3> QED BY <3>1, <3>2
  <2>3. front \in Seq(Frame) /\ Len(front) = k /\ \A i \in 1..k : front[i] = value
    <3> HIDE DEF value
    <3> QED BY <1>1, <2>2, IsASeq, LenProperties
  <2>4. <<done>> \in Seq(Frame) /\ Len(<<done>>) = 1 /\ <<done>>[1] = done
    BY <1>1
  <2> HIDE DEF front, value, done
  <2>5. /\ Query!Frames(c) \in Seq(Frame) /\ Len(Query!Frames(c)) = k + 1
        /\ \A i \in 1..(k + 1) : Query!Frames(c)[i] = IF i # k + 1 THEN value ELSE done
    BY <2>1, <2>3, <2>4, ConcatProperties
  <2>6. \A i \in 1..(k + 1) : /\ Query!Frames(c)[i].query = c.query
                              /\ Query!Frames(c)[i].is = "value" <=> i # k + 1
    BY <1>2, <2>5
  <2> QED BY <2>5, <2>6
<1> QED BY <1>3, <1>4

\* Yielding the frames of the next chunk tells its statement.
LEMMA Yielded ==
  ASSUME NEW m \in Nat, NEW f, Streamed(f, m), NEW g \in Seq(Frame),
         NEW n \in Nat \ {0}, Len(g) = n,
         \A i \in 1..n : g[i].query = m + 1 /\ (g[i].is = "value" <=> i # n)
  PROVE  Streamed(f \o g, m + 1)
<1> DEFINE k == Len(f)
           h == f \o g
<1>1. f \in Seq(Frame) /\ k \in Nat /\ DOMAIN f = 1..k
  BY DEF Streamed
<1>2. h \in Seq(Frame) /\ Len(h) = k + n /\ DOMAIN h = 1..(k + n)
  <2>1. h \in Seq(Frame) /\ Len(h) = k + n
    BY <1>1, ConcatProperties
  <2> HIDE DEF h, k
  <2> QED BY <1>1, <2>1
<1>3. /\ \A i \in 1..k : h[i] = f[i]
      /\ \A i \in (k + 1)..(k + n) : i - k \in 1..n /\ h[i] = g[i - k]
  BY <1>1, ConcatProperties
<1> HIDE DEF k, h
<1>4. \A i \in 1..k : h[i].query \in 1..m
  BY <1>1, <1>3 DEF Streamed
<1>5. \A i \in (k + 1)..(k + n) : h[i].query = m + 1 /\ (h[i].is = "value" <=> i # k + n)
  <2> SUFFICES ASSUME NEW i \in (k + 1)..(k + n)
               PROVE  h[i].query = m + 1 /\ (h[i].is = "value" <=> i # k + n)
    OBVIOUS
  <2>1. i - k \in 1..n /\ h[i] = g[i - k]
    BY <1>3
  <2>2. i - k # n <=> i # k + n
    BY <1>1
  <2> QED BY <2>1, <2>2
<1>6. 1..(k + n) = (1..k) \cup ((k + 1)..(k + n)) /\ k + n \in (k + 1)..(k + n)
  BY <1>1
<1>7. \A i \in DOMAIN h : h[i].query \in 1..(m + 1)
  BY <1>2, <1>4, <1>5, <1>6
<1>8. ASSUME NEW s \in 1..(m + 1)
      PROVE  \E i \in DOMAIN h : h[i].query = s /\ h[i].is # "value"
  <2>1. CASE s = m + 1
    BY <1>2, <1>5, <1>6, <2>1
  <2>2. CASE s \in 1..m
    <3>1. PICK i \in DOMAIN f : f[i].query = s /\ f[i].is # "value"
      BY <2>2 DEF Streamed
    <3>2. i \in 1..k /\ i \in DOMAIN h
      BY <1>1, <1>2, <1>6
    <3> QED BY <1>3, <3>1, <3>2
  <2> QED BY <2>1, <2>2
<1>9. InTurn(h)
  <2> SUFFICES ASSUME NEW i \in 1..(k + n), NEW j \in 1..(k + n), i < j
               PROVE  \/ h[i].query < h[j].query
                      \/ h[i].query = h[j].query /\ h[i].is = "value"
    BY <1>2 DEF InTurn
  <2>1. CASE j \in 1..k
    <3>1. i \in 1..k
      BY <1>1, <2>1
    <3>2. InTurn(f) /\ h[i] = f[i] /\ h[j] = f[j]
      BY <1>3, <2>1, <3>1 DEF Streamed
    <3> QED BY <1>1, <2>1, <3>1, <3>2 DEF InTurn
  <2>2. CASE i \in 1..k /\ j \in (k + 1)..(k + n)
    <3>1. h[i].query \in 1..m /\ h[j].query = m + 1
      BY <1>4, <1>5, <2>2
    <3> QED BY <3>1
  <2>3. CASE i \in (k + 1)..(k + n)
    <3>1. j \in (k + 1)..(k + n) /\ i # k + n
      BY <1>1, <2>3
    <3> QED BY <1>5, <2>3, <3>1
  <2> QED BY <1>6, <2>1, <2>2, <2>3
<1> QED BY <1>2, <1>7, <1>8, <1>9 DEF Streamed, h

\* Until an answer is read, and once it is given up, its chunks do not count.
LEMMA OutcomeKnown ==
  ASSUME QueryInv, Whole
  PROVE  phase # "settled" => outcome # "resolved"
BY DEF QueryInv, QueryShape

\* The actions of a query keep what has been read whole.
LEMMA ThenWhole == ASSUME QueryConstants, QueryInv, Whole, Query!Then PROVE Whole'
<1> USE DEF Whole
<1>1. /\ UNCHANGED <<call, sends, chunks, responses, frames, outcome, failures, last, before, after>>
      /\ thens' = thens + 1 /\ thens < MaxThens
  BY DEF Query!Then, Query!answerVars
<1>2. phase' = phase \/ (phase = "idle" /\ phase' = "waiting")
  BY DEF Query!Then, Query!Dispatch, QueryInv, QueryShape, SendsCounted
<1>3. Counted'
  BY <1>1, <1>2 DEF Counted, QueryConstants
<1>4. ChunksAhead'
  BY <1>1, <1>2 DEF ChunksAhead, Told, Query!Chunk
<1>5. ResponsesSoFar'
  BY <1>1, <1>2 DEF ResponsesSoFar, Collected, Positions, Query!Position, Query!Selected,
     Query!Expected, Told
<1>6. FramesSoFar'
  BY <1>1, <1>2 DEF FramesSoFar, Streamed, InTurn, Told
<1> QED BY <1>3, <1>4, <1>5, <1>6

LEMMA StartWhole == ASSUME QueryConstants, QueryInv, Whole, Query!Start PROVE Whole'
<1> USE DEF Whole
<1>1. /\ UNCHANGED <<call, thens, chunks, frames, outcome, failures, last, after>>
      /\ phase \in {"waiting", "backoff"} /\ phase' = "sent"
      /\ before' = before + 1 /\ responses' = << >>
  BY DEF Query!Start, Query!Send, Query!Resend, Query!answerVars
<1>2. outcome # "resolved"
  BY <1>1, OutcomeKnown
<1>3. Counted'
  BY <1>1 DEF Counted
<1>4. ChunksAhead'
  BY <1>1, <1>2 DEF ChunksAhead
<1>5. ResponsesSoFar'
  BY <1>1, <1>2 DEF ResponsesSoFar
<1>6. FramesSoFar'
  BY <1>1, <1>2 DEF FramesSoFar
<1> QED BY <1>3, <1>4, <1>5, <1>6

LEMMA AnswerWhole == ASSUME QueryConstants, QueryInv, Whole, Query!Answer PROVE Whole'
<1> USE DEF Whole
<1>1. /\ UNCHANGED <<call, thens, sends, responses, frames, outcome, before, after>>
      /\ phase = "sent" /\ phase' = "reading"
  BY DEF Query!Answer
<1>2. PICK r \in Query!Answers :
        /\ (\E i \in Statements : r[i] \in Query!Errors) => failures < MaxFailures
        /\ failures' = IF \E i \in Statements : r[i] \in Query!Errors THEN failures + 1 ELSE failures
        /\ last' = r
        /\ chunks' = [i \in Statements |-> Query!Chunk(i, r[i])]
  BY DEF Query!Answer
<1>3. r \in [Statements -> Query!Results] /\ Count \in Nat /\ Statements = 1..Count
  BY DEF Query!Answers, QueryConstants
<1>4. outcome # "resolved"
  BY <1>1, OutcomeKnown
<1>5. /\ DOMAIN chunks' = 1..Count /\ Len(chunks') = Count
      /\ \A i \in 1..Count : chunks'[i] = Query!Chunk(i, r[i])
  <2>1. DOMAIN chunks' = 1..Count /\ \A i \in 1..Count : chunks'[i] = Query!Chunk(i, r[i])
    BY <1>2, <1>3
  <2>2. chunks' \in Seq(AnyChunk)
    BY AnswerInv DEF QueryInv, QueryShape
  <2> QED BY <1>3, <2>1, <2>2
<1>6. Told' = 0
  BY <1>3, <1>5 DEF Told
<1>7. Counted'
  BY <1>1, <1>2 DEF Counted, QueryConstants
<1>8. ChunksAhead'
  <2>1. \A p \in 1..Count : Query!Chunk(p, r[p])' = Query!Chunk(p, r[p])
    BY <1>1 DEF Query!Chunk
  <2>2. ASSUME NEW p \in 1..Len(chunks')
        PROVE  (chunks[p] = Query!Chunk(Told + p, last[Told + p]))'
    <3>1. p \in 1..Count /\ Told' + p = p /\ chunks'[p] = Query!Chunk(p, r[p]) /\ last'[p] = r[p]
      BY <1>2, <1>3, <1>5, <1>6
    <3> QED BY <2>1, <3>1 DEF Query!Chunk
  <2> QED BY <1>1, <1>2, <1>3, <1>4, <1>5, <2>2 DEF ChunksAhead
<1>9. ResponsesSoFar'
  <2>1. responses' = << >> /\ 1..0 = {}
    BY <1>1 DEF ResponsesSoFar
  <2>2. Positions(0)' = {}
    BY <2>1 DEF Positions
  <2>3. Collected(0)'
    BY <2>1, <2>2 DEF Collected
  <2>4. DOMAIN responses' \subseteq Positions(Count)'
    BY <2>1
  <2> QED BY <1>1, <1>6, <2>3, <2>4 DEF ResponsesSoFar
<1>10. FramesSoFar'
  <2>1. Streamed(<< >>, 0)
    BY DEF Streamed, InTurn
  <2> QED BY <1>1, <1>6, <2>1 DEF FramesSoFar, Streamed, InTurn
<1> QED BY <1>7, <1>8, <1>9, <1>10

LEMMA ReadWhole == ASSUME QueryConstants, QueryInv, Whole, Query!Read PROVE Whole'
<1> USE DEF Whole
<1> DEFINE c == Head(chunks)
<1>1. /\ UNCHANGED <<call, phase, thens, sends, outcome, failures, last, before, after>>
      /\ phase = "reading" /\ chunks # << >> /\ chunks' = Tail(chunks)
      /\ IF call.mode = "stream" THEN frames' = frames \o Query!Frames(c) /\ responses' = responses
         ELSE responses' = Query!Take(c) /\ frames' = frames
  BY DEF Query!Read, Query!answerVars
<1>2. /\ chunks \in Seq(AnyChunk) /\ chunks' \in Seq(AnyChunk)
      /\ Len(chunks) \in Nat /\ Len(chunks') = Len(chunks) - 1 /\ Len(chunks) # 0
      /\ \A i \in 1..Len(chunks') : chunks'[i] = chunks[i + 1]
      /\ c = chunks[1] /\ c \in AnyChunk
  BY <1>1, HeadTailProperties, EmptySeq DEF QueryInv, QueryShape
<1>3. /\ Count \in Nat /\ Statements = 1..Count
      /\ last \in [Statements -> Query!Results] /\ Len(chunks) <= Count
      /\ \A p \in 1..Len(chunks) : chunks[p] = Query!Chunk(Told + p, last[Told + p])
  BY <1>1 DEF ChunksAhead, QueryConstants
<1>4. Told \in Nat /\ Told' = Told + 1 /\ Told + 1 \in Statements
  BY <1>2, <1>3 DEF Told
<1>5. c = Query!Chunk(Told + 1, last[Told + 1]) /\ c.query = Told + 1
  <2>1. c = Query!Chunk(Told + 1, last[Told + 1])
    BY <1>2, <1>3
  <2> QED BY <2>1 DEF Query!Chunk
<1> HIDE DEF c
<1>6. outcome # "resolved"
  BY <1>1, OutcomeKnown
<1>7. Counted'
  BY <1>1 DEF Counted
<1>8. ChunksAhead'
  <2> SUFFICES ASSUME NEW p \in 1..Len(chunks')
               PROVE  (chunks[p] = Query!Chunk(Told + p, last[Told + p]))'
    BY <1>1, <1>2, <1>3, <1>6 DEF ChunksAhead
  <2>1. p + 1 \in 1..Len(chunks) /\ Told' + p = Told + (p + 1)
    BY <1>2, <1>4
  <2>2. chunks'[p] = Query!Chunk(Told + (p + 1), last[Told + (p + 1)])
    BY <1>2, <1>3, <2>1
  <2> QED BY <1>1, <2>1, <2>2 DEF Query!Chunk
<1>9. ResponsesSoFar'
  <2>1. CASE call.mode = "stream"
    BY <1>1, <2>1 DEF ResponsesSoFar, Positions, Query!Position, Query!Selected
  <2>2. CASE call.mode # "stream"
    <3>1. PICK t \in Nat : t = Told
      BY <1>4
    <3>2. Collected(t)
      BY <1>1, <2>2, <3>1 DEF ResponsesSoFar
    <3>3. responses' = Query!Take(c) /\ c = Query!Chunk(t + 1, last[t + 1]) /\ t + 1 \in Statements
      BY <1>1, <1>4, <1>5, <2>2, <3>1
    <3>4. Collected(t + 1)'
      BY <1>1, <1>3, <3>2, <3>3, Taken DEF QueryInv
    <3>5. Told' = t + 1 /\ 1..(t + 1) \subseteq 1..Count
      BY <1>3, <1>4, <3>1, <3>3
    <3>6. Collected(Told)'
      BY <3>4, <3>5 DEF Collected, Positions
    <3>7. Positions(t + 1)' \subseteq Positions(Count)'
      BY <3>5 DEF Positions, Count
    <3>8. DOMAIN responses' \subseteq Positions(Count)'
      BY <3>4, <3>7 DEF Collected
    <3> QED BY <1>1, <1>6, <3>6, <3>8 DEF ResponsesSoFar
  <2> QED BY <2>1, <2>2
<1>10. FramesSoFar'
  <2>1. CASE call.mode # "stream"
    BY <1>1, <2>1 DEF FramesSoFar
  <2>2. CASE call.mode = "stream"
    <3>1. Streamed(frames, Told)
      BY <1>1, <2>2 DEF FramesSoFar
    <3>0. c.query \in Nat
      BY <1>4, <1>5
    <3>2. PICK n \in Nat \ {0} :
            /\ Query!Frames(c) \in Seq(Frame) /\ Len(Query!Frames(c)) = n
            /\ \A i \in 1..n : /\ Query!Frames(c)[i].query = c.query
                               /\ Query!Frames(c)[i].is = "value" <=> i # n
      BY <1>2, <3>0, FramesOf
    <3>3. Streamed(frames \o Query!Frames(c), Told + 1)
      BY <1>4, <1>5, <3>1, <3>2, Yielded
    <3>4. Streamed(frames', Told')
      BY <1>1, <1>4, <2>2, <3>3
    <3>5. Streamed(frames, Told)'
      BY <3>4 DEF Streamed, InTurn
    <3> QED BY <1>1, <2>2, <3>5 DEF FramesSoFar
  <2> QED BY <2>1, <2>2
<1> QED BY <1>7, <1>8, <1>9, <1>10

LEMMA EndWhole == ASSUME QueryConstants, QueryInv, Whole, Query!End PROVE Whole'
<1> USE DEF Whole
<1>1. /\ UNCHANGED <<call, thens, sends, chunks, responses, frames, failures, last, before>>
      /\ phase = "reading" /\ chunks = << >> /\ phase' = "settled" /\ outcome' = "resolved"
      /\ after' = after + 1
  BY DEF Query!End, Query!answerVars
<1>2. Counted'
  BY <1>1 DEF Counted
<1>3. ChunksAhead'
  BY <1>1 DEF ChunksAhead, Told, Query!Chunk
<1>4. ResponsesSoFar'
  <2>1. /\ Told' = Told /\ \A i : /\ Query!Position(i)' = Query!Position(i) /\ Query!Selected(i)' = Query!Selected(i)
                                 /\ Query!Expected(i)' = Query!Expected(i)
    BY <1>1 DEF Told, Query!Position, Query!Selected, Query!Expected
  <2>2. Collected(Told) => Collected(Told)'
    BY <1>1, <2>1 DEF Collected, Positions
  <2>3. DOMAIN responses' \subseteq Positions(Count)'
    BY <1>1, <2>1 DEF ResponsesSoFar, Positions
  <2> QED BY <1>1, <2>2, <2>3 DEF ResponsesSoFar
<1>5. FramesSoFar'
  BY <1>1 DEF FramesSoFar, Streamed, InTurn, Told
<1> QED BY <1>2, <1>3, <1>4, <1>5

\* A failed attempt leaves no answer that is read.
LEMMA GivenUp ==
  ASSUME QueryConstants, QueryInv, Whole, NEW error \in {"lost"} \cup Query!Errors,
         Query!Failed(error),
         phase \in {"sent", "reading"},
         UNCHANGED <<call, thens, responses, frames, before>>,
         failures' \in 0..MaxFailures, after' \in {after, after + 1}
  PROVE  Whole'
<1> USE DEF Whole
<1>1. \/ phase' = "backoff" /\ outcome' = outcome /\ call.mode = "collect"
      \/ phase' = "settled" /\ outcome' = error
  BY DEF Query!Failed
<1>2. outcome # "resolved" /\ outcome' # "resolved" /\ phase' \notin {"sent", "reading"}
  BY <1>1, OutcomeKnown DEF Query!Errors
<1>3. Counted'
  BY <1>1, <1>2 DEF Counted
<1>4. ChunksAhead'
  BY <1>2 DEF ChunksAhead
<1>5. ResponsesSoFar'
  BY <1>2 DEF ResponsesSoFar, Positions, Query!Position, Query!Selected
<1>6. FramesSoFar'
  BY <1>1, <1>2 DEF FramesSoFar
<1> QED BY <1>3, <1>4, <1>5, <1>6

LEMMA ThrowWhole == ASSUME QueryConstants, QueryInv, Whole, Query!Throw PROVE Whole'
<1>1. /\ phase = "reading" /\ chunks # << >>
      /\ Query!Throws(Head(chunks)) /\ Query!Failed(Head(chunks).error)
      /\ UNCHANGED <<call, thens, responses, frames, failures, before, after>>
  BY DEF Query!Throw, Query!answerVars
<1>2. Head(chunks) \in AnyChunk
  BY <1>1, HeadTailProperties DEF QueryInv, QueryShape
<1>3. Head(chunks).error \in Query!Errors
  BY <1>1, <1>2 DEF AnyChunk, Query!Throws
<1>4. failures' \in 0..MaxFailures
  BY <1>1 DEF Whole, Counted
<1> QED BY <1>1, <1>3, <1>4, GivenUp

LEMMA RejectWhole == ASSUME QueryConstants, QueryInv, Whole, Query!Reject PROVE Whole'
<1>1. /\ phase = "sent" /\ Query!Failed("lost") /\ failures < MaxFailures /\ failures' = failures + 1
      /\ after' = after + 1
      /\ UNCHANGED <<call, thens, responses, frames, before>>
  BY DEF Query!Reject
<1>2. failures' \in 0..MaxFailures
  BY <1>1 DEF Whole, Counted, QueryConstants
<1> QED BY <1>1, <1>2, GivenUp

LEMMA InitWhole == ASSUME QueryConstants, Query!Init PROVE Whole
<1>1. phase = "idle" /\ outcome = "none" /\ responses = << >> /\ frames = << >> /\ thens = 0 
      /\ failures = 0 /\ before = 0 /\ after = 0
  BY DEF Query!Init
<1>2. Counted
  BY <1>1 DEF Counted, QueryConstants
<1>3. ResponsesSoFar
  BY <1>1 DEF ResponsesSoFar
<1>4. ChunksAhead /\ FramesSoFar
  BY <1>1 DEF ChunksAhead, FramesSoFar
<1> QED BY <1>2, <1>3, <1>4 DEF Whole

LEMMA NextWhole == ASSUME QueryConstants, QueryInv, Whole, [Query!Next]_Query!vars PROVE Whole'
<1>1. CASE UNCHANGED Query!vars
  BY SMTT(30), <1>1 DEF Query!vars, Query!answerVars, Whole, Counted, ChunksAhead, ResponsesSoFar,
     FramesSoFar, Told, Query!Chunk,
     Collected, Positions, Query!Position, Query!Selected, Query!Expected, Streamed, InTurn
<1> QED BY <1>1, ThenWhole, StartWhole, AnswerWhole, ReadWhole, EndWhole, ThrowWhole,
   RejectWhole DEF Query!Next

\* What the invariants say of an outcome.
LEMMA AnswersWhole ==
  ASSUME QueryConstants, QueryInv, Whole
  PROVE  Query!TypeOK /\ Query!SentAsAwaited /\ Query!ResolvesWithLastAnswer /\ Query!EveryStatementEnds
<1> USE DEF Whole
<1>1. Count \in Nat /\ Statements = 1..Count
  BY DEF QueryConstants
<1>2. Query!TypeOK
  BY <1>1 DEF QueryInv, QueryShape, Counted, ResponsesSoFar, Positions, Query!TypeOK
<1>3. Query!SentAsAwaited
  BY DEF QueryInv, SendsCounted, Query!SentAsAwaited
<1>4. outcome = "resolved" => Told = Count
  BY <1>1 DEF ChunksAhead, Told
<1>5. Query!ResolvesWithLastAnswer
  BY <1>1, <1>4 DEF ResponsesSoFar, Collected, Positions, Query!ResolvesWithLastAnswer
<1>6. Query!EveryStatementEnds
  BY <1>1, <1>4 DEF FramesSoFar, Streamed, InTurn, Query!EveryStatementEnds
<1> QED BY <1>2, <1>3, <1>5, <1>6

\* A query that is one transaction takes effect once at most.
LEMMA TransactionsOnce == QueryInv => Query!AtomicOnce
<1> SUFFICES ASSUME QueryInv, call.atomic, NEW i \in Statements
             PROVE  /\ applied[i] <= 1
                    /\ outcome = "resolved" /\ call.mode = "collect" => applied[i] = 1
  BY DEF Query!AtomicOnce
<1>1. Undone \/ DoneOnce
  BY DEF QueryInv, QueryShape, Query!Phases, EffectsAwaitAnswer, EffectsAreTold
<1>2. outcome = "resolved" /\ call.mode = "collect" => DoneOnce
  BY DEF QueryInv, QueryShape, EffectsAreTold
<1> QED BY <1>1, <1>2 DEF Undone, DoneOnce

-----------------------------------------------------------------------------
(* The engine over HTTP.                                                   *)

HttpConstants ==
  /\ Undefined # JsNull /\ Undefined \notin Namespaces \cup Settings \cup Users
  /\ JsNull \notin Namespaces \cup Settings \cup Users
  /\ MaxEngines \in Nat

Answered == Namespaces \cup {Undefined}

\* Entries of the log.
Entries ==
  [does : {"use"}, value : Namespaces \cup {Undefined, JsNull}] \cup [does : {"set"}, value : Settings]
    \cup [does : {"signin"}, value : Users]
    \cup [does : {"unset", "invalidate", "reset"}, value : {Undefined}]

\* What a call is while it waits for its answer, and what it knew when made.
CallShape(c) ==
  call[c].at \in {"local", "sent", "served"} =>
    /\ call[c].op \in Http!Ops
    /\ call[c].answer \in Answered
    /\ call[c].answer # Undefined => call[c].op.does = "use"
    /\ call[c].engine \in Http!Engines

HttpSound ==
  /\ made \in 0..MaxEngines /\ engine \in 0..made
  /\ opened \subseteq Http!Engines /\ timer \subseteq Http!Engines
  /\ handshake \in [Http!Engines -> 0..MaxEngines]
  /\ crossed \in BOOLEAN
  /\ DOMAIN call = Calls
  /\ \A c \in Calls : CallShape(c)
  /\ engine # 0 => engine \in opened

\* The entries that set or unset something, and whether there is a last.
Tells(known, gives, clears) ==
  {i \in DOMAIN known : \/ known[i].does = gives /\ (gives = "use" => known[i].value # Undefined)
                        \/ known[i].does \in clears}
HasLast(S) == S = {} \/ \E i \in S : \A j \in S : j <= i

LogShape ==
  /\ log \in Seq(Entries)
  /\ session = Http!Kept(log)
  /\ HasLast(Tells(log, "use", {"reset"}))
  /\ HasLast(Tells(log, "set", {"unset", "reset"}))
  /\ HasLast(Tells(log, "signin", {"invalidate", "reset"}))

HttpInv == HttpSound /\ LogShape /\ Http!RunsAsKept /\ Http!AnswersFindTheirConnection

-----------------------------------------------------------------------------
\* What the last entry that tells of a kind says of it.
LEMMA LastValue ==
  ASSUME NEW known, NEW gives, NEW clears, NEW i \in Tells(known, gives, clears),
         \A j \in Tells(known, gives, clears) : j \in Nat /\ j <= i
  PROVE  Http!LastOf(known, gives, clears) =
           IF known[i].does = gives /\ known[i].value # JsNull THEN known[i].value ELSE Undefined
<1> DEFINE S == Tells(known, gives, clears)
<1>1. (CHOOSE k \in S : \A j \in S : j <= k) = i
  <2>1. \A k \in S : (\A j \in S : j <= k) => k = i
    BY DEF S
  <2> HIDE DEF S
  <2> QED BY <2>1
<1> QED BY <1>1 DEF Http!LastOf, Tells

\* An entry added to the log tells of its kind, or changes nothing.
LEMMA LastAdded ==
  ASSUME NEW known \in Seq(Entries), NEW gives, NEW clears, NEW x,
         HasLast(Tells(known, gives, clears))
  PROVE  LET new == Append(known, x)
             counts == \/ x.does = gives /\ (gives = "use" => x.value # Undefined)
                       \/ x.does \in clears
         IN /\ HasLast(Tells(new, gives, clears))
            /\ Http!LastOf(new, gives, clears) =
                 IF counts THEN IF x.does = gives /\ x.value # JsNull THEN x.value ELSE Undefined
                           ELSE Http!LastOf(known, gives, clears)
<1> DEFINE new == Append(known, x)
           counts == \/ x.does = gives /\ (gives = "use" => x.value # Undefined)
                     \/ x.does \in clears
           S == Tells(known, gives, clears)
           T == Tells(new, gives, clears)
           n == Len(known) + 1
<1>1. /\ DOMAIN new = 1..n /\ DOMAIN known = 1..Len(known) /\ Len(known) \in Nat
      /\ new[n] = x /\ \A i \in DOMAIN known : new[i] = known[i]
  OBVIOUS
<1>2. S \subseteq 1..Len(known) /\ S = T \cap 1..Len(known) /\ T \subseteq 1..n
  BY <1>1 DEF Tells
<1>3. n \in T <=> counts
  BY <1>1 DEF Tells
<1>4. CASE counts
  <2>1. n \in T /\ \A j \in T : j \in Nat /\ j <= n
    BY <1>1, <1>2, <1>3, <1>4
  <2>2. HasLast(T)
    BY <2>1 DEF HasLast
  <2>3. Http!LastOf(new, gives, clears) =
          IF new[n].does = gives /\ new[n].value # JsNull THEN new[n].value ELSE Undefined
    <3> HIDE DEF new, n
    <3> QED BY <2>1, LastValue
  <2> QED BY <1>1, <1>4, <2>2, <2>3
<1>5. CASE ~counts
  <2>1. T = S
    BY <1>1, <1>2, <1>3, <1>5
  <2>2. Http!LastOf(new, gives, clears) = Http!LastOf(known, gives, clears)
    <3>1. CASE S = {}
      BY <2>1, <3>1 DEF Http!LastOf, Tells
    <3>2. CASE S # {}
      <4>1. PICK i \in S : \A j \in S : j <= i
        BY <3>2 DEF HasLast
      <4>2. /\ i \in 1..Len(known) /\ new[i] = known[i]
            /\ \A j \in S : j \in Nat /\ j <= i
        BY <1>1, <1>2, <4>1
      <4>3. Http!LastOf(known, gives, clears) =
              IF known[i].does = gives /\ known[i].value # JsNull THEN known[i].value ELSE Undefined
        BY <4>1, <4>2, LastValue
      <4>4. Http!LastOf(new, gives, clears) =
              IF new[i].does = gives /\ new[i].value # JsNull THEN new[i].value ELSE Undefined
        <5>1. i \in T /\ \A j \in T : j \in Nat /\ j <= i
          BY <2>1, <4>1, <4>2
        <5> HIDE DEF new
        <5> QED BY <5>1, LastValue
      <4> QED BY <4>2, <4>3, <4>4
    <3> QED BY <3>1, <3>2
  <2> QED BY <1>5, <2>1, <2>2
<1> QED BY <1>4, <1>5

\* What a call adds to the log is what it writes into the session.
LEMMA Writes ==
  ASSUME HttpConstants, LogShape, NEW op \in Http!Ops, NEW answer \in Answered,
         answer # Undefined => op.does = "use", op.does # "query"
  PROVE  LET x == [op EXCEPT !.value = IF answer # Undefined THEN answer ELSE @]
         IN /\ x \in Entries /\ Http!Written(op, answer) = Http!Kept(Append(log, x))
            /\ HasLast(Tells(Append(log, x), "use", {"reset"}))
            /\ HasLast(Tells(Append(log, x), "set", {"unset", "reset"}))
            /\ HasLast(Tells(Append(log, x), "signin", {"invalidate", "reset"}))
<1> DEFINE n == IF answer # Undefined THEN answer ELSE op.value
           x == [op EXCEPT !.value = IF answer # Undefined THEN answer ELSE @]
<1>1. x.does = op.does /\ x.value = n /\ x \in Entries
  BY DEF Http!Ops, Entries, Answered
<1>2. /\ session = [selected |-> Http!LastOf(log, "use", {"reset"}),
                    variable |-> Http!LastOf(log, "set", {"unset", "reset"}),
                    token    |-> Http!LastOf(log, "signin", {"invalidate", "reset"})]
      /\ log \in Seq(Entries)
  BY DEF LogShape, Http!Kept
<1>3. /\ HasLast(Tells(Append(log, x), "use", {"reset"}))
      /\ Http!LastOf(Append(log, x), "use", {"reset"}) =
           IF (op.does = "use" /\ n # Undefined) \/ op.does = "reset"
             THEN IF op.does = "use" /\ n # JsNull THEN n ELSE Undefined
             ELSE session.selected
  <2> HIDE DEF x, n
  <2> QED BY <1>1, <1>2, LastAdded DEF LogShape
<1>4. /\ HasLast(Tells(Append(log, x), "set", {"unset", "reset"}))
      /\ Http!LastOf(Append(log, x), "set", {"unset", "reset"}) =
           IF op.does \in {"set", "unset", "reset"}
             THEN IF op.does = "set" /\ n # JsNull THEN n ELSE Undefined
             ELSE session.variable
  <2> HIDE DEF x, n
  <2> QED BY <1>1, <1>2, LastAdded DEF LogShape
<1>5. /\ HasLast(Tells(Append(log, x), "signin", {"invalidate", "reset"}))
      /\ Http!LastOf(Append(log, x), "signin", {"invalidate", "reset"}) =
           IF op.does \in {"signin", "invalidate", "reset"}
             THEN IF op.does = "signin" /\ n # JsNull THEN n ELSE Undefined
             ELSE session.token
  <2> HIDE DEF x, n
  <2> QED BY <1>1, <1>2, LastAdded DEF LogShape
<1>6. Http!Kept(Append(log, x)) =
        [selected |-> Http!LastOf(Append(log, x), "use", {"reset"}),
         variable |-> Http!LastOf(Append(log, x), "set", {"unset", "reset"}),
         token    |-> Http!LastOf(Append(log, x), "signin", {"invalidate", "reset"})]
  BY DEF Http!Kept
<1>7. /\ op.does \in {"use", "set", "unset", "signin", "invalidate", "reset"}
      /\ op.does # "use" => n = op.value
      /\ op.does = "set" => n # JsNull
      /\ op.does = "signin" => n # JsNull
  BY DEF Http!Ops, HttpConstants
<1>8. CASE op.does = "use"
  <2>1. Http!Written(op, answer) = IF n = Undefined THEN session
                              ELSE IF n = JsNull THEN [session EXCEPT !.selected = Undefined]
                              ELSE [session EXCEPT !.selected = n]
    <3>1. CASE n = Undefined
      BY <1>8, <3>1 DEF Http!Written, HttpConstants
    <3>2. CASE n # Undefined /\ n = JsNull
      BY <1>8, <3>2 DEF Http!Written
    <3>3. CASE n # Undefined /\ n # JsNull
      BY <1>8, <3>3 DEF Http!Written
    <3> QED BY <3>1, <3>2, <3>3
  <2> HIDE DEF n, x
  <2>2. Http!Kept(Append(log, x)) = [selected |-> IF n # Undefined THEN IF n # JsNull THEN n ELSE Undefined ELSE session.selected,
                                variable |-> session.variable, token |-> session.token]
    BY <1>3, <1>4, <1>5, <1>6, <1>8
  <2>3. Http!Written(op, answer) = Http!Kept(Append(log, x))
    BY <1>2, <2>1, <2>2
  <2> QED BY <1>1, <1>3, <1>4, <1>5, <2>3 DEF x
<1>9. CASE op.does # "use"
  <2> HIDE DEF n, x
  <2>1. Http!Written(op, answer) =
          CASE op.does = "set"        -> [session EXCEPT !.variable = n]
            [] op.does = "unset"      -> [session EXCEPT !.variable = Undefined]
            [] op.does = "signin"     -> [session EXCEPT !.token = n]
            [] op.does = "invalidate" -> [session EXCEPT !.token = Undefined]
            [] op.does = "reset"      -> Http!Fresh
    BY <1>7, <1>9 DEF Http!Written, Http!ResetAll
  <2>2. Http!Written(op, answer) = Http!Kept(Append(log, x))
    BY <1>2, <1>3, <1>4, <1>5, <1>6, <1>7, <1>9, <2>1 DEF Http!Fresh
  <2> QED BY <1>1, <1>3, <1>4, <1>5, <2>2 DEF x
<1> QED BY <1>8, <1>9

-----------------------------------------------------------------------------
\* An empty log tells of nothing.
LEMMA NothingKept ==
  /\ Http!Kept(<< >>) = Http!Fresh
  /\ \A gives, clears : HasLast(Tells(<< >>, gives, clears))
<1>1. \A gives, clears : Tells(<< >>, gives, clears) = {}
  BY DEF Tells
<1>2. \A gives, clears : Http!LastOf(<< >>, gives, clears) = Undefined
  BY DEF Http!LastOf
<1> QED BY <1>1, <1>2 DEF HasLast, Http!Kept, Http!Fresh

\* A session that is made anew has an empty log.
LEMMA FreshLog ==
  ASSUME log' = << >>, session' = Http!Fresh
  PROVE  LogShape'
BY NothingKept DEF LogShape

\* The actions over HTTP keep the invariant.
LEMMA HttpInitInv == HttpConstants /\ Http!Init => HttpInv
<1> SUFFICES ASSUME HttpConstants, Http!Init PROVE HttpInv
  OBVIOUS
<1>1. LogShape
  BY NothingKept DEF LogShape, Http!Init
<1>2. HttpSound
  <2>1. handshake \in [Http!Engines -> 0..MaxEngines] /\ made \in 0..MaxEngines
    BY DEF Http!Init, HttpConstants
  <2>2. \A c \in Calls : CallShape(c)
    BY DEF Http!Init, CallShape
  <2>3. /\ opened = {} /\ timer = {} /\ engine = 0 /\ made = 0 /\ crossed = FALSE
        /\ DOMAIN call = Calls
    BY DEF Http!Init
  <2>4. 0 \in 0..0 /\ {} \subseteq Http!Engines
    OBVIOUS
  <2> QED BY <2>4, <2>1, <2>2, <2>3 DEF HttpSound
<1>3. Http!RunsAsKept /\ Http!AnswersFindTheirConnection
  BY DEF Http!Init, Http!RunsAsKept, Http!AnswersFindTheirConnection, Http!InFlight
<1> QED BY <1>1, <1>2, <1>3 DEF HttpInv

\* Calls that are left alone run as they did.
LEMMA SameCalls ==
  ASSUME HttpInv, call' = call
  PROVE  Http!RunsAsKept' /\ \A c \in Calls : CallShape(c)'
BY DEF HttpInv, Http!RunsAsKept, HttpSound, CallShape

LEMMA ConnectInv == ASSUME HttpConstants, HttpInv, Http!Connect PROVE HttpInv'
<1>1. LogShape' /\ Http!RunsAsKept' /\ \A c \in Calls : CallShape(c)'
  BY FreshLog, SameCalls DEF Http!Connect
<1>2. HttpSound'
  BY <1>1 DEF HttpInv, HttpSound, Http!Connect, Http!Engines, HttpConstants
<1>3. Http!AnswersFindTheirConnection'
  <2> SUFFICES ASSUME ~crossed' PROVE Http!AnswersFindTheirConnection'
    BY DEF Http!AnswersFindTheirConnection
  <2>1. ~crossed /\ (engine = 0 \/ ((\A c \in Calls : ~Http!InFlight(c)) /\ \A e \in Http!Engines : handshake[e] = 0))
    BY DEF Http!Connect, Http!Outlives, HttpInv, HttpSound
  <2>2. \A c \in Calls : ~Http!InFlight(c)
    BY <2>1 DEF HttpInv, HttpSound, CallShape, Http!AnswersFindTheirConnection, Http!InFlight,
       Http!Engines
  <2>3. \A e \in Http!Engines : handshake[e] = 0
    BY <2>1 DEF HttpInv, Http!AnswersFindTheirConnection
  <2> QED BY <2>2, <2>3 DEF Http!Connect, Http!AnswersFindTheirConnection, Http!InFlight
<1> QED BY <1>1, <1>2, <1>3 DEF HttpInv

\* close(), and the failure of version().
LEMMA CloseCurrentInv ==
  ASSUME HttpConstants, HttpInv, engine # 0, Http!CloseCurrent, UNCHANGED <<made, timer, call>>,
         handshake' \in [Http!Engines -> 0..MaxEngines],
         \A e \in Http!Engines : handshake'[e] \in {0, handshake[e]}
  PROVE  HttpInv'
<1>1. LogShape' /\ Http!RunsAsKept' /\ \A c \in Calls : CallShape(c)'
  BY FreshLog, SameCalls DEF Http!CloseCurrent
<1>2. HttpSound'
  BY <1>1 DEF HttpInv, HttpSound, Http!CloseCurrent, Http!Outlives
<1>3. Http!AnswersFindTheirConnection'
  <2> SUFFICES ASSUME ~crossed' PROVE Http!AnswersFindTheirConnection'
    BY DEF Http!AnswersFindTheirConnection
  <2>1. (\A c \in Calls : ~Http!InFlight(c)) /\ \A e \in Http!Engines : handshake[e] = 0
    BY DEF Http!CloseCurrent, Http!Outlives
  <2> QED BY <2>1 DEF Http!CloseCurrent, Http!AnswersFindTheirConnection, Http!InFlight
<1> QED BY <1>1, <1>2, <1>3 DEF HttpInv

\* The timer of open() fires, and its request is answered or not.
LEMMA TimerInv ==
  ASSUME HttpConstants, HttpInv, NEW e \in Http!Engines,
         Http!TimerFires(e) \/ Http!Greeted(e) \/ Http!Unreachable(e)
  PROVE  HttpInv'
<1>1. CASE Http!TimerFires(e)
  <2>1. handshake' = [handshake EXCEPT ![e] = engine] /\ engine \in 0..MaxEngines
    BY <1>1 DEF Http!TimerFires, Http!Greets, HttpInv, HttpSound, HttpConstants
  <2>2. LogShape' /\ Http!RunsAsKept' /\ \A c \in Calls : CallShape(c)'
    BY <1>1, SameCalls DEF Http!TimerFires, HttpInv, LogShape
  <2>3. HttpSound'
    BY <1>1, <2>1, <2>2 DEF Http!TimerFires, HttpInv, HttpSound
  <2>4. Http!AnswersFindTheirConnection'
    BY <1>1, <2>1 DEF Http!TimerFires, HttpInv, HttpSound, Http!AnswersFindTheirConnection,
       Http!InFlight
  <2> QED BY <2>2, <2>3, <2>4 DEF HttpInv
<1>2. CASE Http!Greeted(e)
  <2>1. handshake' = [handshake EXCEPT ![e] = 0] /\ 0 \in 0..MaxEngines
    BY <1>2 DEF Http!Greeted, HttpConstants
  <2>2. LogShape' /\ Http!RunsAsKept' /\ \A c \in Calls : CallShape(c)'
    BY <1>2, SameCalls DEF Http!Greeted, HttpInv, LogShape
  <2>3. HttpSound'
    BY <1>2, <2>1, <2>2 DEF Http!Greeted, HttpInv, HttpSound
  <2>4. Http!AnswersFindTheirConnection'
    BY <1>2, <2>1 DEF Http!Greeted, HttpInv, HttpSound, Http!AnswersFindTheirConnection,
       Http!InFlight
  <2> QED BY <2>2, <2>3, <2>4 DEF HttpInv
<1>3. CASE Http!Unreachable(e)
  <2>1. /\ handshake' = [handshake EXCEPT ![e] = 0] /\ 0 \in 0..MaxEngines
        /\ UNCHANGED <<made, timer, call>>
    BY <1>3 DEF Http!Unreachable, HttpConstants
  <2>2. CASE engine # 0
    BY <1>3, <2>1, <2>2, CloseCurrentInv DEF Http!Unreachable, HttpInv, HttpSound
  <2>3. CASE engine = 0
    <3>1. LogShape' /\ Http!RunsAsKept' /\ \A c \in Calls : CallShape(c)'
      BY <1>3, <2>3, SameCalls DEF Http!Unreachable, HttpInv, LogShape
    <3>2. HttpSound'
      BY <1>3, <2>1, <2>3, <3>1 DEF Http!Unreachable, HttpInv, HttpSound
    <3>3. Http!AnswersFindTheirConnection'
      BY <1>3, <2>1, <2>3 DEF Http!Unreachable, HttpInv, HttpSound,
         Http!AnswersFindTheirConnection, Http!InFlight
    <3> QED BY <3>1, <3>2, <3>3 DEF HttpInv
  <2> QED BY <2>2, <2>3
<1> QED BY <1>1, <1>2, <1>3

\* A call takes the session it carries, and is served or refused.
LEMMA CallInv ==
  ASSUME HttpConstants, HttpInv, NEW c \in Calls,
         Http!Call(c) \/ Http!Serve(c) \/ Http!Refuse(c)
  PROVE  HttpInv'
<1>1. /\ UNCHANGED <<made, engine, opened, timer, status, handshake, crossed, session, log>>
      /\ LogShape' /\ session = Http!Kept(log)
  BY DEF Http!Call, Http!Serve, Http!Refuse, Http!connection, HttpInv, LogShape
<1>2. PICK new : /\ call' = [call EXCEPT ![c] = new]
                 /\ new.at # "none" => new.carries = Http!Kept(new.knew)
                 /\ new.at \in {"local", "sent", "served"} =>
                      /\ new.op \in Http!Ops /\ new.answer \in Answered
                      /\ new.answer # Undefined => new.op.does = "use"
                      /\ new.engine \in Http!Engines
                      /\ ~crossed => new.engine = engine
  <2>1. CASE Http!Call(c)
    <3>1. PICK op \in Http!Ops :
            call' = [call EXCEPT ![c] =
              [at |-> IF engine \in opened THEN Http!Where(op) ELSE "failed",
               op |-> op, engine |-> engine, carries |-> session, knew |-> log, answer |-> Undefined]]
      BY <2>1 DEF Http!Call, Http!Carried
    <3>2. engine \in opened => engine \in Http!Engines
      BY DEF HttpInv, HttpSound
    <3> DEFINE new == [at |-> IF engine \in opened THEN Http!Where(op) ELSE "failed",
                       op |-> op, engine |-> engine, carries |-> session, knew |-> log, answer |-> Undefined]
    <3>3. /\ new.op = op /\ new.engine = engine /\ new.carries = session /\ new.knew = log
          /\ new.answer = Undefined /\ Undefined \in Answered
          /\ new.at \in {"local", "sent", "served"} => engine \in opened
      BY DEF Answered
    <3> HIDE DEF new
    <3>4. call' = [call EXCEPT ![c] = new]
      BY <3>1 DEF new
    <3> QED BY <1>1, <3>2, <3>3, <3>4
  <2>2. CASE Http!Serve(c)
    <3>1. PICK n \in Answered :
            /\ call' = [call EXCEPT ![c] = [call[c] EXCEPT !.at = "served", !.answer = n]]
            /\ n # Undefined => call[c].op.does = "use"
      BY <2>2 DEF Http!Serve, Answered
    <3>2. call[c].at = "sent" /\ CallShape(c) /\ call[c].carries = Http!Kept(call[c].knew)
          /\ (~crossed => call[c].engine = engine)
      BY <2>2 DEF Http!Serve, HttpInv, HttpSound, Http!RunsAsKept,
         Http!AnswersFindTheirConnection, Http!InFlight
    <3> DEFINE new == [call[c] EXCEPT !.at = "served", !.answer = n]
    <3>3. /\ new.op = call[c].op /\ new.engine = call[c].engine
          /\ new.carries = call[c].carries /\ new.knew = call[c].knew
          /\ new.answer = n
      BY <3>2
    <3> HIDE DEF new
    <3>4. call' = [call EXCEPT ![c] = new]
      BY <3>1 DEF new
    <3> QED BY <3>1, <3>2, <3>3, <3>4 DEF CallShape
  <2>3. CASE Http!Refuse(c)
    <3>1. call' = [call EXCEPT ![c] = [call[c] EXCEPT !.at = "failed"]]
      BY <2>3 DEF Http!Refuse
    <3>2. call[c].at = "sent" /\ call[c].carries = Http!Kept(call[c].knew)
      BY <2>3 DEF Http!Refuse, HttpInv, Http!RunsAsKept
    <3> DEFINE new == [call[c] EXCEPT !.at = "failed"]
    <3>3. new.at = "failed" /\ new.carries = call[c].carries /\ new.knew = call[c].knew
      BY <3>2
    <3> HIDE DEF new
    <3>4. call' = [call EXCEPT ![c] = new]
      BY <3>1 DEF new
    <3> QED BY <3>2, <3>3, <3>4
  <2> QED BY <2>1, <2>2, <2>3
<1>3. /\ DOMAIN call' = Calls /\ call'[c] = new
      /\ \A d \in Calls \ {c} : call'[d] = call[d]
  BY <1>2 DEF HttpInv, HttpSound
<1>4. HttpSound'
  BY <1>1, <1>2, <1>3 DEF HttpInv, HttpSound, CallShape
<1>5. Http!RunsAsKept'
  BY <1>2, <1>3 DEF HttpInv, Http!RunsAsKept
<1>6. Http!AnswersFindTheirConnection'
  BY <1>1, <1>2, <1>3 DEF HttpInv, Http!AnswersFindTheirConnection, Http!InFlight
<1> QED BY <1>1, <1>4, <1>5, <1>6 DEF HttpInv

\* An answer changes the session, and the log tells of it.
LEMMA ResolveInv ==
  ASSUME HttpConstants, HttpInv, NEW c \in Calls, Http!Resolve(c)
  PROVE  HttpInv'
<1>1. UNCHANGED <<made, engine, opened, timer, status, handshake, crossed>>
  BY DEF Http!Resolve, Http!connection
<1>2. PICK how \in {"ok", "failed"} : call' = [call EXCEPT ![c] = [call[c] EXCEPT !.at = how]]
  BY DEF Http!Resolve
<1>3. /\ DOMAIN call' = Calls /\ call'[c] = [call[c] EXCEPT !.at = how]
      /\ \A d \in Calls \ {c} : call'[d] = call[d]
      /\ call[c].at \in {"local", "served"}
  BY <1>2 DEF HttpInv, HttpSound, Http!Resolve
<1>4. HttpSound'
  BY <1>1, <1>2, <1>3 DEF HttpInv, HttpSound, CallShape
<1>5. Http!RunsAsKept'
  BY <1>2, <1>3 DEF HttpInv, Http!RunsAsKept
<1>6. Http!AnswersFindTheirConnection'
  BY <1>1, <1>2, <1>3 DEF HttpInv, Http!AnswersFindTheirConnection, Http!InFlight
<1>7. LogShape'
  <2>1. call[c].op \in Http!Ops /\ call[c].answer \in Answered /\ (call[c].answer # Undefined => call[c].op.does = "use")
    BY <1>3 DEF HttpInv, HttpSound, CallShape
  <2>2. CASE session' = session /\ log' = log
    BY <2>2 DEF HttpInv, LogShape
  <2>3. CASE ~(session' = session /\ log' = log)
    <3>1. call[c].op.does # "query" /\ engine # 0
      BY <2>3 DEF Http!Resolve, Http!Written, Http!Ops
    <3>2. /\ session' = Http!Written(call[c].op, call[c].answer)
          /\ log' = Append(log, [call[c].op EXCEPT !.value =
                               IF call[c].answer # Undefined THEN call[c].answer ELSE @])
      BY <3>1 DEF Http!Resolve
    <3>3. log \in Seq(Entries)
      BY DEF HttpInv, LogShape
    <3>4. LogShape
      BY DEF HttpInv
    <3> QED BY <2>1, <3>1, <3>2, <3>3, <3>4, Writes DEF LogShape
  <2> QED BY <2>2, <2>3
<1> QED BY <1>4, <1>5, <1>6, <1>7 DEF HttpInv

LEMMA HttpNextInv == ASSUME HttpConstants, HttpInv, [Http!Next]_Http!vars PROVE HttpInv'
<1>1. CASE Http!Connect
  BY <1>1, ConnectInv
<1>2. CASE Http!Close
  BY <1>2, CloseCurrentInv DEF Http!Close, HttpInv, HttpSound
<1>3. ASSUME NEW e \in Http!Engines,
             Http!TimerFires(e) \/ Http!Greeted(e) \/ Http!Unreachable(e)
      PROVE  HttpInv'
  BY <1>3, TimerInv
<1>4. ASSUME NEW c \in Calls, Http!Call(c) \/ Http!Serve(c) \/ Http!Refuse(c) PROVE HttpInv'
  BY <1>4, CallInv
<1>5. ASSUME NEW c \in Calls, Http!Resolve(c) PROVE HttpInv'
  BY <1>5, ResolveInv
<1>6. CASE UNCHANGED Http!vars
  BY <1>6 DEF Http!vars, HttpInv, HttpSound, CallShape, LogShape, Http!RunsAsKept,
     Http!AnswersFindTheirConnection, Http!InFlight, Http!Outlives
<1> QED BY <1>1, <1>2, <1>3, <1>4, <1>5, <1>6 DEF Http!Next

-----------------------------------------------------------------------------
(* The tables of the embedded database.                                    *)

DatabaseConstants ==
  /\ Yes # No /\ Undefined \notin {Yes, No}
  /\ {Yes, No, Undefined} \cap SUBSET Names = {}
  /\ Undefined \notin Rules
  /\ ConnectOptions \subseteq {Yes, No, Undefined} \cup [Database!Kinds -> GivenAs]

-----------------------------------------------------------------------------
(* Live queries. *)

\* A request that has something under way tells of what.
TaskShape ==
  /\ DOMAIN task = Requests
  /\ \A r \in Requests :
       /\ Database!Does(r, "handle_live") => task[r].session \in Sessions \cup {Undefined}
       /\ Database!Does(r, "query") \/ Database!Does(r, "commit") \/ Database!Does(r, "cancel") => task[r].tx \in Transactions

LiveShape ==
  /\ running \subseteq Requests /\ attached \subseteq Sessions
  /\ live_queries \subseteq Requests \X (Sessions \cup {Undefined})

\* A live query that runs will be entered, is in the table, or will be deleted.
RunningIsKnown ==
  \A q \in running :
    \/ Database!Does(q, "handle_live")
    \/ \E e \in live_queries : e[1] = q
    \/ \E r \in Requests : Database!Does(r, "delete") /\ q \in task[r].queries

\* A query that was killed does not run, and no other takes its id.
KilledIsGone ==
  /\ \A q \in running : ~Database!Does(q, "none")
  /\ \A r \in Requests : Database!Does(r, "handle_kill") =>
       task[r].query \in Requests \ running /\ ~Database!Does(task[r].query, "none")

\* An entry is of a session that is attached, unless it was made after a cleanup.
EntriesAreOfSessions ==
  \A e \in live_queries : e[1] \in outrun \/ e[2] \in attached \cup {Undefined}

LiveInv == TaskShape /\ LiveShape /\ RunningIsKnown /\ KilledIsGone /\ EntriesAreOfSessions

-----------------------------------------------------------------------------
(* Transactions. *)

IsEnding(r) == Database!Does(r, "commit") \/ Database!Does(r, "cancel")

TxShape ==
  /\ tx \in [Transactions -> {"none", "open", "committed", "cancelled"}]
  /\ ends \in [Transactions -> Nat] /\ transactions \subseteq Transactions

\* Who takes a transaction from the table is alone to end it.
OneEnds == \A r, u \in Requests : IsEnding(r) /\ IsEnding(u) /\ task[r].tx = task[u].tx => r = u

\* What is in the table, or taken from it to be ended, is open and not ended.
OpenUntilEnded ==
  \A t \in Transactions :
    /\ ends[t] = IF tx[t] \in {"committed", "cancelled"} THEN 1 ELSE 0
    /\ t \in transactions => tx[t] = "open" /\ \A r \in Requests : IsEnding(r) => task[r].tx # t
    /\ tx[t] = "open" => t \in transactions \/ \E r \in Requests : IsEnding(r) /\ task[r].tx = t
    /\ \A r \in Requests : IsEnding(r) /\ task[r].tx = t => tx[t] = "open"

TxInv == TaskShape /\ TxShape /\ OneEnds /\ OpenUntilEnded

DatabaseInv == LiveInv /\ TxInv /\ Database!OptionsMean

-----------------------------------------------------------------------------
\* What the options grant is what they say, for every option.
LEMMA OptionsHold ==
  ASSUME DatabaseConstants, options \in ConnectOptions, granted = Database!Capabilities(options)
  PROVE  Database!OptionsMean
<1> SUFFICES ASSUME options \notin {Yes, No, Undefined}, NEW k \in Database!Kinds, NEW name \in Names
             PROVE  LET allow == Database!Given(options[k], "allow")
                        deny  == Database!Given(options[k], "deny")
                    IN Database!Allows(k, name) <=>
                        /\ allow = Undefined => k = "functions"
                        /\ allow \notin {Undefined, Yes} => allow # No /\ name \in allow
                        /\ deny \notin {Undefined, No} => deny # Yes /\ name \notin deny
  BY DEF Database!OptionsMean
<1> DEFINE allow == Database!Given(options[k], "allow")
           deny  == Database!Given(options[k], "deny")
<1>1. options[k] \in GivenAs
  BY DEF DatabaseConstants
<1>2. granted = [allow |-> Database!Set("allow", options), deny |-> Database!Set("deny", options)]
  BY DEF Database!Capabilities
<1>3. allow \in Lists \cup {Undefined} /\ deny \in Lists \cup {Undefined}
  <2>1. CASE options[k] = Undefined
    BY <2>1 DEF Database!Given
  <2>2. CASE options[k] \in [all : Lists]
    BY <2>2, DatabaseConstants DEF Database!Given, DatabaseConstants
  <2>3. CASE options[k] \in [allow : Lists \cup {Undefined}, deny : Lists \cup {Undefined}]
    BY <2>3 DEF Database!Given, DatabaseConstants
  <2> QED BY <1>1, <2>1, <2>2, <2>3 DEF GivenAs, Rules
<1>4. ASSUME NEW side \in {"allow", "deny"}
      PROVE  Database!Set(side, options)[k] =
               IF Database!Given(options[k], side) = Undefined THEN Database!Default[side][k]
               ELSE Database!Targets(Database!Given(options[k], side))
  <2> DEFINE from == {j \in Database!Kinds : Database!KindOf(j) = k /\ Database!Given(options[j], side) # Undefined}
  <2>1. Database!Set(side, options)[k] = IF from = {} THEN Database!Default[side][k]
          ELSE Database!Targets(Database!Given(options[CHOOSE j \in from : TRUE], side))
    BY DEF Database!Set
  <2>2. from = IF Database!Given(options[k], side) = Undefined THEN {} ELSE {k}
    BY DEF Database!KindOf
  <2>3. (CHOOSE j \in {k} : TRUE) = k
    OBVIOUS
  <2> HIDE DEF from
  <2> QED BY <2>1, <2>2, <2>3
<1>5. granted.allow[k] = IF allow = Undefined THEN IF k = "functions" THEN Names ELSE {}
                         ELSE Database!Targets(allow)
  BY <1>2, <1>4 DEF Database!Default
<1>6. granted.deny[k] = IF deny = Undefined THEN {} ELSE Database!Targets(deny)
  BY <1>2, <1>4 DEF Database!Default
<1>7. \A l \in Lists : Database!Targets(l) = IF l = Yes THEN Names ELSE IF l = No THEN {} ELSE l
  BY DEF Database!Targets, DatabaseConstants
<1> HIDE DEF allow, deny
<1>8. name \in granted.allow[k] <=>
        /\ allow = Undefined => k = "functions"
        /\ allow \notin {Undefined, Yes} => allow # No /\ name \in allow
  BY <1>3, <1>5, <1>7 DEF DatabaseConstants
<1>9. name \notin granted.deny[k] <=>
        (deny \notin {Undefined, No} => deny # Yes /\ name \notin deny)
  BY <1>3, <1>6, <1>7 DEF DatabaseConstants
<1> QED BY <1>8, <1>9 DEF Database!Allows, allow, deny

-----------------------------------------------------------------------------
(* Steps of a request in one part leave the other alone. *)

Live4 == {"handle_live", "handle_kill", "delete"}

\* A request that goes on leaves the others where they are.
LEMMA Goes1 ==
  ASSUME TaskShape, NEW r \in Requests, NEW to, Database!Goes(r, to)
  PROVE  /\ DOMAIN task' = Requests /\ task'[r] = to
         /\ \A u \in Requests \ {r} : task'[u] = task[u]
BY DEF TaskShape, Database!Goes

\* A step that is not about live queries.
LEMMA LiveElsewhere ==
  ASSUME LiveInv, NEW r \in Requests, NEW to, Database!Goes(r, to), UNCHANGED Database!liveVars,
         TaskShape',
         task[r].does \notin Live4, to.does \notin Live4 \cup {"none"}
  PROVE  LiveInv'
<1>1. /\ DOMAIN task' = Requests /\ task'[r] = to
      /\ \A u \in Requests \ {r} : task'[u] = task[u]
  BY Goes1 DEF LiveInv
<1>2. UNCHANGED <<attached, live_queries, running, outrun>>
  BY DEF Database!liveVars
<1>3. LiveShape' /\ EntriesAreOfSessions'
  BY <1>2 DEF LiveInv, LiveShape, EntriesAreOfSessions
<1>4. \A q \in Requests : \A what \in Live4 :
        /\ Database!Does(q, what) => Database!Does(q, what)' /\ task'[q] = task[q]
        /\ Database!Does(q, what)' => Database!Does(q, what)
  BY <1>1 DEF Database!Does
<1>5. \A q \in Requests : ~Database!Does(q, "none") => ~Database!Does(q, "none")'
  BY <1>1 DEF Database!Does
<1>6. RunningIsKnown'
  BY <1>2, <1>4 DEF LiveInv, RunningIsKnown, LiveShape, Live4
<1>7. KilledIsGone'
  BY <1>2, <1>4, <1>5 DEF LiveInv, KilledIsGone, LiveShape, Live4
<1> QED BY <1>3, <1>6, <1>7 DEF LiveInv

\* A step that is not about transactions.
LEMMA TxElsewhere ==
  ASSUME TxInv, NEW r \in Requests, NEW to, Database!Goes(r, to), UNCHANGED Database!txVars,
         TaskShape',
         ~IsEnding(r), to.does \notin {"commit", "cancel"}
  PROVE  TxInv'
<1>1. /\ DOMAIN task' = Requests /\ task'[r] = to
      /\ \A u \in Requests \ {r} : task'[u] = task[u]
  BY Goes1 DEF TxInv
<1>2. UNCHANGED <<transactions, tx, ends>>
  BY DEF Database!txVars
<1>3. \A u \in Requests : (IsEnding(u)' <=> IsEnding(u)) /\ (IsEnding(u) => task'[u] = task[u])
  BY <1>1 DEF IsEnding, Database!Does
<1>4. TxShape'
  BY <1>2 DEF TxInv, TxShape
<1>5. OneEnds'
  BY <1>3 DEF TxInv, OneEnds
<1>6. OpenUntilEnded'
  BY <1>2, <1>3 DEF TxInv, OpenUntilEnded
<1> QED BY <1>4, <1>5, <1>6 DEF TxInv

\* What a request has under way stays well-formed.
LEMMA ShapeKept ==
  ASSUME TaskShape, NEW r \in Requests, NEW to, Database!Goes(r, to),
         to.does = "handle_live" => to.session \in Sessions \cup {Undefined},
         to.does \in {"query", "commit", "cancel"} => to.tx \in Transactions
  PROVE  TaskShape'
<1>1. /\ DOMAIN task' = Requests /\ task'[r] = to
      /\ \A u \in Requests \ {r} : task'[u] = task[u]
  BY Goes1
<1> QED BY <1>1 DEF TaskShape, Database!Does

-----------------------------------------------------------------------------
\* The database starts with empty tables.
LEMMA DatabaseInitInv == ASSUME DatabaseConstants, Database!Init PROVE DatabaseInv
<1>1. \A r \in Requests : Database!Does(r, "none") /\ task[r].does = "none"
  BY DEF Database!Init, Database!Does
<1>2. TaskShape
  BY <1>1 DEF Database!Init, TaskShape, Database!Does
<1>3. LiveInv
  BY <1>1, <1>2 DEF Database!Init, LiveInv, LiveShape, RunningIsKnown, KilledIsGone,
     EntriesAreOfSessions, Database!Does
<1>4. TxInv
  <2>1. \A r \in Requests : ~IsEnding(r)
    BY <1>1 DEF IsEnding, Database!Does
  <2>2. TxShape
    BY DEF Database!Init, TxShape
  <2>3. OneEnds /\ OpenUntilEnded
    BY <2>1 DEF Database!Init, OneEnds, OpenUntilEnded
  <2> QED BY <1>2, <2>2, <2>3 DEF TxInv
<1>5. Database!OptionsMean
  BY OptionsHold DEF Database!Init
<1> QED BY <1>3, <1>4, <1>5 DEF DatabaseInv

\* The options do not change.
LEMMA OptionsStay ==
  ASSUME Database!OptionsMean, UNCHANGED <<options, granted>>
  PROVE  Database!OptionsMean'
BY DEF Database!OptionsMean, Database!Allows

-----------------------------------------------------------------------------
\* The steps of live queries, one lock at a time.
LEMMA LiveStep == ASSUME LiveInv, NEW r \in Requests, Database!Live(r) PROVE LiveInv'
<1>1. PICK s \in attached \cup {Undefined} :
        /\ running' = running \cup {r}
        /\ Database!Goes(r, [does |-> "handle_live", session |-> s])
        /\ Database!Does(r, "none") /\ UNCHANGED <<attached, live_queries, outrun>>
  BY DEF Database!Live
<1>2. s \in Sessions \cup {Undefined}
  BY DEF LiveInv, LiveShape
<1>3. /\ DOMAIN task' = Requests /\ task'[r] = [does |-> "handle_live", session |-> s]
      /\ \A u \in Requests \ {r} : task'[u] = task[u]
  BY <1>1, Goes1 DEF LiveInv
<1>4. TaskShape'
  BY <1>1, <1>2, ShapeKept DEF LiveInv
<1>5. LiveShape' /\ EntriesAreOfSessions'
  BY <1>1 DEF LiveInv, LiveShape, EntriesAreOfSessions
<1>6. \A u \in Requests \ {r} : \A what : Database!Does(u, what)' <=> Database!Does(u, what)
  BY <1>3 DEF Database!Does
<1>7. Database!Does(r, "handle_live")' /\ ~Database!Does(r, "none")' /\ ~Database!Does(r, "handle_kill")'
  BY <1>3 DEF Database!Does
<1>8. \A u \in Requests : Database!Does(u, "delete") => u # r
  BY <1>1 DEF Database!Does
<1>9. RunningIsKnown'
  BY <1>1, <1>3, <1>6, <1>7, <1>8 DEF LiveInv, RunningIsKnown, LiveShape
<1>10. KilledIsGone'
  BY <1>1, <1>3, <1>6, <1>7 DEF LiveInv, KilledIsGone, LiveShape
<1> QED BY <1>4, <1>5, <1>9, <1>10 DEF LiveInv

LEMMA HandleLiveStep ==
  ASSUME LiveInv, NEW r \in Requests, Database!HandleLive(r)
  PROVE  LiveInv'
<1>1. /\ Database!Does(r, "handle_live") /\ Database!Goes(r, [does |-> "ok"])
      /\ live_queries' = live_queries \cup {<<r, task[r].session>>}
      /\ outrun' = IF task[r].session \in attached \cup {Undefined} THEN outrun ELSE outrun \cup {r}
      /\ UNCHANGED <<attached, running>>
  BY DEF Database!HandleLive, Database!Ends
<1>2. task[r].session \in Sessions \cup {Undefined}
  BY <1>1 DEF LiveInv, TaskShape
<1>3. /\ DOMAIN task' = Requests /\ task'[r] = [does |-> "ok"]
      /\ \A u \in Requests \ {r} : task'[u] = task[u]
  BY <1>1, Goes1 DEF LiveInv
<1>4. TaskShape'
  BY <1>1, ShapeKept DEF LiveInv
<1>5. LiveShape'
  BY <1>1, <1>2 DEF LiveInv, LiveShape
<1>6. EntriesAreOfSessions'
  BY <1>1 DEF LiveInv, EntriesAreOfSessions
<1>7. \A u \in Requests \ {r} : \A what : Database!Does(u, what)' <=> Database!Does(u, what)
  BY <1>3 DEF Database!Does
<1>8. /\ ~Database!Does(r, "none")' /\ ~Database!Does(r, "handle_kill")' /\ ~Database!Does(r, "delete")
  BY <1>1, <1>3 DEF Database!Does
<1>9. RunningIsKnown'
  <2> SUFFICES ASSUME NEW q \in running
               PROVE  \/ Database!Does(q, "handle_live")'
                      \/ \E e \in live_queries' : e[1] = q
                      \/ \E u \in Requests : Database!Does(u, "delete")' /\ q \in task'[u].queries
    BY <1>1 DEF RunningIsKnown
  <2>1. CASE q = r
    <3>1. <<r, task[r].session>> \in live_queries' /\ <<r, task[r].session>>[1] = q
      BY <1>1, <2>1
    <3> QED BY <3>1
  <2>2. CASE q # r
    BY <1>1, <1>3, <1>7, <1>8, <2>2 DEF LiveInv, RunningIsKnown, LiveShape
  <2> QED BY <2>1, <2>2
<1>10. KilledIsGone'
  BY <1>1, <1>3, <1>7, <1>8 DEF LiveInv, KilledIsGone, LiveShape
<1> QED BY <1>4, <1>5, <1>6, <1>9, <1>10 DEF LiveInv

LEMMA KillStep == ASSUME LiveInv, NEW r \in Requests, Database!Kill(r) PROVE LiveInv'
<1>1. PICK q \in running :
        /\ running' = running \ {q}
        /\ Database!Goes(r, [does |-> "handle_kill", query |-> q])
        /\ Database!Does(r, "none") /\ UNCHANGED <<attached, live_queries, outrun>>
  BY DEF Database!Kill
<1>2. /\ DOMAIN task' = Requests /\ task'[r] = [does |-> "handle_kill", query |-> q]
      /\ \A u \in Requests \ {r} : task'[u] = task[u]
  BY <1>1, Goes1 DEF LiveInv
<1>3. TaskShape'
  BY <1>1, ShapeKept DEF LiveInv
<1>4. LiveShape' /\ EntriesAreOfSessions'
  BY <1>1 DEF LiveInv, LiveShape, EntriesAreOfSessions
<1>5. \A u \in Requests \ {r} : \A what : Database!Does(u, what)' <=> Database!Does(u, what)
  BY <1>2 DEF Database!Does
<1>6. Database!Does(r, "handle_kill")' /\ ~Database!Does(r, "none")' /\ ~Database!Does(r, "delete")' /\ task'[r].query = q
  BY <1>2 DEF Database!Does
<1>7. ~Database!Does(r, "handle_live") /\ ~Database!Does(r, "delete") /\ ~Database!Does(r, "handle_kill")
  BY <1>1 DEF Database!Does
<1>8. RunningIsKnown'
  BY <1>1, <1>2, <1>5, <1>7 DEF LiveInv, RunningIsKnown, LiveShape
<1>9. KilledIsGone'
  <2>1. q \in Requests /\ ~Database!Does(q, "none") /\ q # r
    BY <1>1 DEF LiveInv, KilledIsGone, LiveShape
  <2> QED BY <1>1, <1>2, <1>5, <1>6, <1>7, <2>1 DEF LiveInv, KilledIsGone, LiveShape
<1> QED BY <1>3, <1>4, <1>8, <1>9 DEF LiveInv

LEMMA HandleKillStep ==
  ASSUME LiveInv, NEW r \in Requests, Database!HandleKill(r)
  PROVE  LiveInv'
<1>1. /\ Database!Does(r, "handle_kill") /\ Database!Goes(r, [does |-> "ok"])
      /\ live_queries' = {e \in live_queries : e[1] # task[r].query}
      /\ UNCHANGED <<attached, running, outrun>>
  BY DEF Database!HandleKill, Database!Ends
<1>2. /\ DOMAIN task' = Requests /\ task'[r] = [does |-> "ok"]
      /\ \A u \in Requests \ {r} : task'[u] = task[u]
  BY <1>1, Goes1 DEF LiveInv
<1>3. TaskShape'
  BY <1>1, ShapeKept DEF LiveInv
<1>4. LiveShape' /\ EntriesAreOfSessions'
  BY <1>1 DEF LiveInv, LiveShape, EntriesAreOfSessions
<1>5. \A u \in Requests \ {r} : \A what : Database!Does(u, what)' <=> Database!Does(u, what)
  BY <1>2 DEF Database!Does
<1>6. ~Database!Does(r, "none")' /\ ~Database!Does(r, "handle_kill")'
  BY <1>2 DEF Database!Does
<1>7. ~Database!Does(r, "handle_live") /\ ~Database!Does(r, "delete")
  BY <1>1 DEF Database!Does
<1>8. task[r].query \notin running
  BY <1>1 DEF LiveInv, KilledIsGone
<1>9. RunningIsKnown'
  BY <1>1, <1>2, <1>5, <1>7, <1>8 DEF LiveInv, RunningIsKnown, LiveShape
<1>10. KilledIsGone'
  BY <1>1, <1>2, <1>5, <1>6, <1>7 DEF LiveInv, KilledIsGone, LiveShape
<1> QED BY <1>3, <1>4, <1>9, <1>10 DEF LiveInv

\* cleanup_lqs() and cleanup_all_lqs(): what leaves the table will be deleted.
LEMMA CleanupStep ==
  ASSUME LiveInv, NEW r \in Requests, NEW gone \in SUBSET live_queries,
         Database!Does(r, "none"),
         live_queries' = live_queries \ gone, UNCHANGED <<running, outrun>>,
         attached' \subseteq attached,
         \A e \in live_queries \ gone : e[2] \in attached => e[2] \in attached',
         Database!Goes(r, [does |-> "delete", queries |-> Database!Collected(gone)])
  PROVE  LiveInv'
<1>1. /\ DOMAIN task' = Requests /\ task'[r] = [does |-> "delete", queries |-> Database!Collected(gone)]
      /\ \A u \in Requests \ {r} : task'[u] = task[u]
  BY Goes1 DEF LiveInv
<1>2. TaskShape'
  BY ShapeKept DEF LiveInv
<1>3. LiveShape' /\ EntriesAreOfSessions'
  BY DEF LiveInv, LiveShape, EntriesAreOfSessions
<1>4. \A u \in Requests \ {r} : \A what : Database!Does(u, what)' <=> Database!Does(u, what)
  BY <1>1 DEF Database!Does
<1>5. /\ ~Database!Does(r, "none")' /\ ~Database!Does(r, "handle_kill")' /\ Database!Does(r, "delete")'
      /\ task'[r].queries = Database!Collected(gone)
      /\ ~Database!Does(r, "handle_live") /\ ~Database!Does(r, "delete")
  BY <1>1 DEF Database!Does
<1>6. \A e \in gone : e[1] \in Database!Collected(gone)
  BY DEF Database!Collected
<1>7. RunningIsKnown'
  <2> SUFFICES ASSUME NEW q \in running
               PROVE  \/ Database!Does(q, "handle_live")'
                      \/ \E e \in live_queries' : e[1] = q
                      \/ \E u \in Requests : Database!Does(u, "delete")' /\ q \in task'[u].queries
    BY DEF RunningIsKnown
  <2>1. CASE \E e \in gone : e[1] = q
    BY <1>5, <1>6, <2>1
  <2>2. CASE ~\E e \in gone : e[1] = q
    BY <1>1, <1>4, <1>5, <2>2 DEF LiveInv, RunningIsKnown, LiveShape
  <2> QED BY <2>1, <2>2
<1>8. KilledIsGone'
  BY <1>1, <1>4, <1>5 DEF LiveInv, KilledIsGone, LiveShape
<1> QED BY <1>2, <1>3, <1>7, <1>8 DEF LiveInv

LEMMA DeleteStep == ASSUME LiveInv, NEW r \in Requests, Database!Delete(r) PROVE LiveInv'
<1>1. /\ Database!Does(r, "delete") /\ Database!Goes(r, [does |-> "ok"])
      /\ running' = running \ task[r].queries
      /\ UNCHANGED <<attached, live_queries, outrun>>
  BY DEF Database!Delete, Database!Ends
<1>2. /\ DOMAIN task' = Requests /\ task'[r] = [does |-> "ok"]
      /\ \A u \in Requests \ {r} : task'[u] = task[u]
  BY <1>1, Goes1 DEF LiveInv
<1>3. TaskShape'
  BY <1>1, ShapeKept DEF LiveInv
<1>4. LiveShape' /\ EntriesAreOfSessions'
  BY <1>1 DEF LiveInv, LiveShape, EntriesAreOfSessions
<1>5. \A u \in Requests \ {r} : \A what : Database!Does(u, what)' <=> Database!Does(u, what)
  BY <1>2 DEF Database!Does
<1>6. /\ ~Database!Does(r, "none")' /\ ~Database!Does(r, "handle_kill")'
      /\ ~Database!Does(r, "handle_live") /\ ~Database!Does(r, "handle_kill")
  BY <1>1, <1>2 DEF Database!Does
<1>7. RunningIsKnown'
  BY <1>1, <1>2, <1>5, <1>6 DEF LiveInv, RunningIsKnown, LiveShape
<1>8. KilledIsGone'
  BY <1>1, <1>2, <1>5, <1>6 DEF LiveInv, KilledIsGone, LiveShape
<1> QED BY <1>3, <1>4, <1>7, <1>8 DEF LiveInv

LEMMA LiveSteps ==
  ASSUME DatabaseInv, NEW r \in Requests,
         \/ Database!Live(r) \/ Database!HandleLive(r) \/ Database!Kill(r) \/ Database!HandleKill(r)
         \/ Database!Detach(r) \/ Database!CleanupAll(r) \/ Database!Delete(r)
  PROVE  DatabaseInv'
<1>1. UNCHANGED <<options, granted>> /\ UNCHANGED Database!txVars
  BY DEF Database!Live, Database!HandleLive, Database!Kill, Database!HandleKill,
     Database!Detach, Database!CleanupAll, Database!Delete
<1>2. LiveInv'
  <2>1. CASE Database!Detach(r)
    <3>1. PICK s \in attached :
            /\ attached' = attached \ {s}
            /\ live_queries' = live_queries \ {e \in live_queries : e[2] = s}
            /\ Database!Goes(r, [does |-> "delete", queries |-> Database!Collected({e \in live_queries : e[2] = s})])
      BY <2>1 DEF Database!Detach
    <3>2. Database!Does(r, "none") /\ UNCHANGED <<running, outrun>>
      BY <2>1 DEF Database!Detach
    <3>3. /\ attached' \subseteq attached
          /\ {e \in live_queries : e[2] = s} \in SUBSET live_queries
          /\ \A e \in live_queries \ {f \in live_queries : f[2] = s} : e[2] \in attached => e[2] \in attached'
      BY <3>1
    <3>4. LiveInv
      BY DEF DatabaseInv
    <3> QED BY <3>1, <3>2, <3>3, <3>4, CleanupStep
  <2>2. CASE Database!CleanupAll(r)
    <3>1. /\ live_queries' = live_queries \ live_queries
          /\ Database!Goes(r, [does |-> "delete", queries |-> Database!Collected(live_queries)])
          /\ Database!Does(r, "none") /\ UNCHANGED <<running, outrun, attached>>
          /\ live_queries \in SUBSET live_queries
      BY <2>2 DEF Database!CleanupAll
    <3>2. LiveInv
      BY DEF DatabaseInv
    <3> QED BY <3>1, <3>2, CleanupStep
  <2> QED BY <2>1, <2>2, LiveStep, HandleLiveStep, KillStep, HandleKillStep, DeleteStep
     DEF DatabaseInv
<1>3. PICK to : Database!Goes(r, to) /\ to.does \notin {"commit", "cancel"}
  <2>1. CASE Database!Live(r)
    BY <2>1 DEF Database!Live
  <2>2. CASE Database!Kill(r)
    BY <2>2 DEF Database!Kill
  <2>3. CASE Database!Detach(r) \/ Database!CleanupAll(r)
    <3>1. PICK gone : Database!Goes(r, [does |-> "delete", queries |-> gone])
      BY <2>3 DEF Database!Detach, Database!CleanupAll
    <3> QED BY <3>1
  <2>4. CASE Database!HandleLive(r) \/ Database!HandleKill(r) \/ Database!Delete(r)
    <3>1. Database!Goes(r, [does |-> "ok"])
      BY <2>4 DEF Database!HandleLive, Database!HandleKill, Database!Delete, Database!Ends
    <3> QED BY <3>1
  <2> QED BY <2>1, <2>2, <2>3, <2>4
<1>4. ~IsEnding(r)
  BY DEF IsEnding, Database!Live, Database!HandleLive, Database!Kill, Database!HandleKill,
     Database!Detach, Database!CleanupAll, Database!Delete, Database!Does
<1>5. TaskShape'
  BY <1>2 DEF LiveInv
<1>6. TxInv'
  BY <1>1, <1>3, <1>4, <1>5, TxElsewhere DEF DatabaseInv
<1> QED BY <1>1, <1>2, <1>6, OptionsStay DEF DatabaseInv

-----------------------------------------------------------------------------
\* The steps of transactions, one lock at a time.
LEMMA BeginStep == ASSUME TxInv, NEW r \in Requests, Database!Begin(r) PROVE TxInv'
<1>1. PICK t \in Transactions :
        /\ tx[t] = "none" /\ tx' = [tx EXCEPT ![t] = "open"]
        /\ transactions' = transactions \cup {t}
        /\ Database!Does(r, "none") /\ Database!Goes(r, [does |-> "ok"]) /\ ends' = ends
  BY DEF Database!Begin, Database!Ends
<1>2. /\ DOMAIN task' = Requests /\ task'[r] = [does |-> "ok"]
      /\ \A u \in Requests \ {r} : task'[u] = task[u]
  BY <1>1, Goes1 DEF TxInv
<1>3. TaskShape'
  BY <1>1, ShapeKept DEF TxInv
<1>4. \A u \in Requests : (IsEnding(u)' <=> IsEnding(u)) /\ (IsEnding(u) => task'[u] = task[u])
  BY <1>1, <1>2 DEF IsEnding, Database!Does
<1>5. TxShape'
  BY <1>1 DEF TxInv, TxShape
<1>6. OneEnds'
  BY <1>4 DEF TxInv, OneEnds
<1>7. \A u \in Requests : IsEnding(u) => task[u].tx # t
  BY <1>1 DEF TxInv, OpenUntilEnded
<1>8. OpenUntilEnded'
  BY <1>1, <1>4, <1>7 DEF TxInv, OpenUntilEnded, TxShape
<1> QED BY <1>3, <1>5, <1>6, <1>8 DEF TxInv

LEMMA CommitOrCancelStep ==
  ASSUME TxInv, NEW r \in Requests, Database!CommitOrCancel(r)
  PROVE  TxInv'
<1>1. PICK t \in Transactions, how \in {"commit", "cancel"} :
        /\ tx[t] # "none" /\ Database!Does(r, "none") /\ UNCHANGED <<tx, ends>>
        /\ IF t \in transactions
             THEN transactions' = transactions \ {t} /\ Database!Goes(r, [does |-> how, tx |-> t])
             ELSE transactions' = transactions /\ Database!Goes(r, [does |-> "not found"])
  BY DEF Database!CommitOrCancel, Database!TakesFromTable, Database!Ends
<1>2. ~IsEnding(r)
  BY <1>1 DEF IsEnding, Database!Does
<1>3. CASE t \in transactions
  <2>1. /\ DOMAIN task' = Requests /\ task'[r] = [does |-> how, tx |-> t]
        /\ \A u \in Requests \ {r} : task'[u] = task[u]
    BY <1>1, <1>3, Goes1 DEF TxInv
  <2>2. TaskShape'
    BY <1>1, <1>3, ShapeKept DEF TxInv
  <2>3. /\ IsEnding(r)' /\ task'[r].tx = t
        /\ \A u \in Requests \ {r} : (IsEnding(u)' <=> IsEnding(u)) /\ task'[u] = task[u]
    BY <2>1 DEF IsEnding, Database!Does
  <2>4. tx[t] = "open" /\ \A u \in Requests : IsEnding(u) => task[u].tx # t
    BY <1>3 DEF TxInv, OpenUntilEnded
  <2>5. TxShape' /\ OneEnds'
    BY <1>1, <1>3, <2>3, <2>4 DEF TxInv, TxShape, OneEnds
  <2>6. OpenUntilEnded'
    BY <1>1, <1>2, <1>3, <2>3, <2>4 DEF TxInv, OpenUntilEnded, TxShape
  <2> QED BY <2>2, <2>5, <2>6 DEF TxInv
<1>4. CASE t \notin transactions
  <2>1. Database!Goes(r, [does |-> "not found"]) /\ UNCHANGED Database!txVars
    BY <1>1, <1>4 DEF Database!txVars
  <2>2. TaskShape'
    BY <2>1, ShapeKept DEF TxInv
  <2> QED BY <1>2, <2>1, <2>2, TxElsewhere
<1> QED BY <1>3, <1>4

LEMMA EndsStep == ASSUME TxInv, NEW r \in Requests, Database!EndsTransaction(r) PROVE TxInv'
<1> DEFINE t == task[r].tx
<1>1. IsEnding(r) /\ t \in Transactions
  BY DEF Database!EndsTransaction, IsEnding, TxInv, TaskShape
<1>2. PICK end \in {"committed", "cancelled"} :
        tx' = [tx EXCEPT ![t] = end] /\ ends' = [ends EXCEPT ![t] = @ + 1]
  BY DEF Database!EndsTransaction
<1>3. PICK how \in {"ok", "conflict"} : Database!Goes(r, [does |-> how])
  BY DEF Database!EndsTransaction, Database!Ends
<1>4. transactions' = transactions
  BY DEF Database!EndsTransaction
<1>5. /\ DOMAIN task' = Requests /\ task'[r] = [does |-> how]
      /\ \A u \in Requests \ {r} : task'[u] = task[u]
  BY <1>3, Goes1 DEF TxInv
<1>6. TaskShape'
  BY <1>3, ShapeKept DEF TxInv
<1>7. ~IsEnding(r)' /\ \A u \in Requests \ {r} : (IsEnding(u)' <=> IsEnding(u)) /\ task'[u] = task[u]
  BY <1>5 DEF IsEnding, Database!Does
<1>8. /\ tx[t] = "open" /\ ends[t] = 0 /\ t \notin transactions
      /\ \A u \in Requests \ {r} : IsEnding(u) => task[u].tx # t
  BY <1>1 DEF TxInv, OpenUntilEnded, OneEnds
<1>9. TxShape' /\ OneEnds'
  BY <1>1, <1>2, <1>4, <1>7 DEF TxInv, TxShape, OneEnds
<1>10. OpenUntilEnded'
  <2> HIDE DEF t
  <2>1. tx'[t] = end /\ ends'[t] = 1
    BY <1>1, <1>2, <1>8 DEF TxInv, TxShape
  <2>2. \A v \in Transactions \ {t} : tx'[v] = tx[v] /\ ends'[v] = ends[v]
    BY <1>1, <1>2 DEF TxInv, TxShape
  <2>3. \A u \in Requests : IsEnding(u)' => IsEnding(u) /\ u # r /\ task'[u].tx = task[u].tx
    BY <1>7
  <2>4. ASSUME NEW v \in Transactions \ {t}, NEW u \in Requests, IsEnding(u), task[u].tx = v
        PROVE  IsEnding(u)' /\ task'[u].tx = v
    BY <1>7, <2>4 DEF t
  <2> QED BY <1>4, <1>8, <2>1, <2>2, <2>3, <2>4 DEF TxInv, OpenUntilEnded
<1> QED BY <1>6, <1>9, <1>10 DEF TxInv

LEMMA TxSteps ==
  ASSUME DatabaseInv, NEW r \in Requests,
         \/ Database!Begin(r) \/ Database!Query(r) \/ Database!Statement(r)
         \/ Database!CommitOrCancel(r) \/ Database!EndsTransaction(r)
  PROVE  DatabaseInv'
<1>1. UNCHANGED <<options, granted>> /\ UNCHANGED Database!liveVars
  BY DEF Database!Begin, Database!Query, Database!Statement, Database!CommitOrCancel,
     Database!EndsTransaction
<1>2. CASE Database!Query(r) \/ Database!Statement(r)
  <2>1. PICK to : /\ Database!Goes(r, to) /\ to.does \in {"query", "ok", "closed", "not found"}
                  /\ to.does = "query" => to.tx \in Transactions
    <3>1. CASE Database!Query(r)
      <4>1. PICK t \in Transactions :
              Database!Goes(r, [does |-> "query", tx |-> t]) \/ Database!Goes(r, [does |-> "not found"])
        BY <3>1 DEF Database!Query, Database!Ends
      <4>2. /\ [does |-> "query", tx |-> t].does = "query" /\ [does |-> "query", tx |-> t].tx = t
            /\ [does |-> "not found"].does = "not found"
        OBVIOUS
      <4> QED BY <4>1, <4>2
    <3>2. CASE Database!Statement(r)
      <4>1. PICK how \in {"ok", "closed"} : Database!Goes(r, [does |-> how])
        BY <3>2 DEF Database!Statement, Database!Ends
      <4>2. [does |-> how].does = how
        OBVIOUS
      <4> QED BY <4>1, <4>2
    <3> QED BY <1>2, <3>1, <3>2
  <2>2. UNCHANGED Database!txVars /\ ~IsEnding(r) /\ task[r].does \notin Live4
    BY <1>2 DEF Database!Query, Database!Statement, IsEnding, Database!Does, Live4
  <2>3. TaskShape'
    BY <2>1, ShapeKept DEF DatabaseInv, TxInv
  <2>4. TxInv'
    BY <2>1, <2>2, <2>3, TxElsewhere DEF DatabaseInv
  <2>5. LiveInv'
    BY <1>1, <2>1, <2>2, <2>3, LiveElsewhere DEF DatabaseInv, Live4
  <2> QED BY <1>1, <2>4, <2>5, OptionsStay DEF DatabaseInv
<1>3. CASE Database!Begin(r) \/ Database!CommitOrCancel(r) \/ Database!EndsTransaction(r)
  <2>1. TxInv'
    BY <1>3, BeginStep, CommitOrCancelStep, EndsStep DEF DatabaseInv
  <2>2. PICK to : Database!Goes(r, to) /\ to.does \in {"commit", "cancel", "ok", "not found", "conflict"}
    <3>1. CASE Database!CommitOrCancel(r)
      <4>1. PICK t \in Transactions, how \in {"commit", "cancel"} :
              Database!Goes(r, [does |-> how, tx |-> t]) \/ Database!Goes(r, [does |-> "not found"])
        BY <3>1 DEF Database!CommitOrCancel, Database!Ends
      <4>2. [does |-> how, tx |-> t].does = how /\ [does |-> "not found"].does = "not found"
        OBVIOUS
      <4> QED BY <4>1, <4>2
    <3>2. CASE Database!Begin(r) \/ Database!EndsTransaction(r)
      <4>1. PICK how \in {"ok", "conflict"} : Database!Goes(r, [does |-> how])
        BY <3>2 DEF Database!Begin, Database!EndsTransaction, Database!Ends
      <4>2. [does |-> how].does = how
        OBVIOUS
      <4> QED BY <4>1, <4>2
    <3> QED BY <1>3, <3>1, <3>2
  <2>3. task[r].does \notin Live4
    BY <1>3 DEF Database!Begin, Database!CommitOrCancel, Database!EndsTransaction,
       Database!Does, Live4
  <2>4. TaskShape'
    BY <2>1 DEF TxInv
  <2>5. LiveInv'
    BY <1>1, <2>2, <2>3, <2>4, LiveElsewhere DEF DatabaseInv, Live4
  <2> QED BY <1>1, <2>1, <2>5, OptionsStay DEF DatabaseInv
<1> QED BY <1>2, <1>3

LEMMA DatabaseNextInv == ASSUME DatabaseInv, [Database!Next]_Database!vars PROVE DatabaseInv'
<1>1. CASE UNCHANGED Database!vars
  BY <1>1 DEF Database!vars, DatabaseInv, LiveInv, TxInv, TaskShape, LiveShape, RunningIsKnown,
     KilledIsGone,
     EntriesAreOfSessions, TxShape, OneEnds, OpenUntilEnded, Database!OptionsMean,
     Database!Allows, Database!Does, IsEnding
<1>2. CASE Database!Next
  BY <1>2, LiveSteps, TxSteps DEF Database!Next
<1> QED BY <1>1, <1>2

\* What the invariant says to a user of the tables.
LEMMA DatabaseInvKeeps ==
  ASSUME DatabaseInv
  PROVE  Database!OptionsMean /\ Database!NoLiveQueryEscapes /\ Database!EndsOnce
<1>1. Database!NoLiveQueryEscapes
  <2> SUFFICES ASSUME \A r \in Requests : /\ ~Database!Does(r, "handle_live")
                                             /\ ~Database!Does(r, "handle_kill")
                                             /\ ~Database!Does(r, "delete"),
                      NEW q \in running
               PROVE  /\ \E e \in live_queries : e[1] = q
                      /\ q \notin outrun => \A e \in live_queries : e[1] = q => e[2] \in attached \cup {Undefined}
    BY DEF Database!NoLiveQueryEscapes
  <2> QED BY DEF DatabaseInv, LiveInv, RunningIsKnown, EntriesAreOfSessions, LiveShape
<1>2. Database!EndsOnce
  BY DEF DatabaseInv, TxInv, OpenUntilEnded, Database!EndsOnce, IsEnding
<1> QED BY <1>1, <1>2 DEF DatabaseInv

-----------------------------------------------------------------------------
(* The diagnostics.                                                        *)

ItemsKnown == Items \in Seq({Items[i] : i \in DOMAIN Items})

AnyItem == {Items[i] : i \in DOMAIN Items}
Phases  == {"before", "progress", "success", "failure"}

\* A stream has yielded the first items, in their order.
Follows(s) == s \in Seq(AnyItem) /\ Len(s) <= Len(Items) /\ \A i \in 1..Len(s) : s[i] = Items[i]

DiagnosedShape ==
  /\ kind \in [Calls -> {"plain", "attach", "stream"}]
  /\ at \in [Calls -> {"none", "delegated", "streaming", "settled", "left"}]
  /\ told \in [Calls -> Seq(Phases)]
  /\ delegate \in [Calls -> {"none", "pending", "ok", "failed"}]
  /\ result \in [Calls -> {"none", "ok", "failed", "thrown"}]
  /\ DOMAIN yielded = Calls /\ \A c \in Calls : Follows(yielded[c])

\* A callback that throws ends the call, and what has not begun has done nothing.
Begun(c) ==
  /\ c \in threw => at[c] = "settled"
  /\ at[c] = "none" => told[c] = << >> /\ yielded[c] = << >> /\ result[c] = "none" /\ delegate[c] = "none"
  /\ at[c] \in {"delegated", "streaming", "left"} => delegate[c] = "pending"
  /\ at[c] = "delegated" => kind[c] # "stream"
  /\ at[c] # "settled" /\ kind[c] # "attach" => result[c] = "none"
  /\ result[c] = "ok" /\ kind[c] # "attach" => delegate[c] = "ok"
  /\ at[c] = "settled" /\ c \notin threw => delegate[c] \in {"ok", "failed"}

DiagnosedInv == DiagnosedShape /\ (\A c \in Calls : Begun(c)) /\ Diagnosed!Transparent

Advance(n) == <<"before">> \o [i \in 1..n |-> "progress"]

-----------------------------------------------------------------------------
\* What a stream is told grows by one at its end.
LEMMA Advances ==
  ASSUME NEW n \in Nat
  PROVE  /\ Advance(n) \in Seq(Phases)
         /\ Advance(0) = <<"before">>
         /\ Append(Advance(n), "progress") = Advance(n + 1)
         /\ \A p \in Phases : Append(Advance(n), p) = Advance(n) \o <<p>>
<1> DEFINE P(m) == [i \in 1..m |-> "progress"]
<1>1. \A m \in Nat : P(m) \in Seq(Phases) /\ Len(P(m)) = m
  BY DEF Phases
<1>2. P(0) = << >>
  OBVIOUS
<1>3. Append(P(n), "progress") = P(n + 1)
  <2>1. Len(Append(P(n), "progress")) = Len(P(n + 1)) /\ Append(P(n), "progress") \in Seq(Phases)
    BY <1>1 DEF Phases
  <2>2. \A i \in 1..(n + 1) : Append(P(n), "progress")[i] = P(n + 1)[i]
    BY <1>1
  <2> QED BY <1>1, <2>1, <2>2
<1> HIDE DEF P
<1>4. <<"before">> \in Seq(Phases)
  BY DEF Phases
<1>5. Advance(n) = <<"before">> \o P(n) /\ Advance(n + 1) = <<"before">> \o P(n + 1) /\ Advance(0) = <<"before">> \o P(0)
  BY DEF Advance, P
<1>6. Advance(n) \in Seq(Phases)
  BY <1>1, <1>4, <1>5
<1>7. Advance(0) = <<"before">>
  BY <1>2, <1>4, <1>5, ConcatEmptySeq
<1>8. \A p \in Phases : Append(Advance(n), p) = Advance(n) \o <<p>>
  BY <1>6
<1>9. Append(Advance(n), "progress") = Advance(n + 1)
  <2>1. "progress" \in Phases
    BY DEF Phases
  <2>2. \A i \in 1..Len(P(n)) + 2 : Append(<<"before">> \o P(n), "progress")[i] = (<<"before">> \o Append(P(n), "progress"))[i]
    BY <1>1, <1>4, <2>1
  <2>3. Len(Append(<<"before">> \o P(n), "progress")) = Len(<<"before">> \o Append(P(n), "progress"))
    BY <1>1, <1>4, <2>1
  <2>4. Append(<<"before">> \o P(n), "progress") = <<"before">> \o Append(P(n), "progress")
    BY <1>1, <1>4, <2>1, <2>2, <2>3
  <2> QED BY <1>3, <1>5, <2>4
<1> QED BY <1>6, <1>7, <1>8, <1>9

\* Account(c) of what a call has come to.
AccountOf(where, how, n) ==
  IF where \in {"delegated", "streaming", "left"} THEN Advance(n)
  ELSE IF how = "ok" THEN Append(Advance(n), "success")
  ELSE IF how = "failed" THEN Append(Advance(n), "failure")
  ELSE Advance(n)

\* The account of a call, for each place it can be at.
LEMMA AccountForms ==
  ASSUME NEW where, NEW how, NEW n \in Nat,
         where \in {"delegated", "streaming", "left"} => how \notin {"ok", "failed"}
  PROVE  AccountOf(where, how, n) =
           <<"before">> \o [i \in 1..n |-> "progress"] \o
             CASE where \in {"delegated", "streaming", "left"} -> << >>
               [] how = "ok"     -> <<"success">>
               [] how = "failed" -> <<"failure">>
               [] OTHER -> << >>
<1> DEFINE E == CASE where \in {"delegated", "streaming", "left"} -> << >>
                  [] how = "ok"     -> <<"success">>
                  [] how = "failed" -> <<"failure">>
                  [] OTHER -> << >>
<1>1. /\ Advance(n) \in Seq(Phases) /\ Advance(n) \o << >> = Advance(n)
      /\ Append(Advance(n), "success") = Advance(n) \o <<"success">>
      /\ Append(Advance(n), "failure") = Advance(n) \o <<"failure">>
  BY Advances, ConcatEmptySeq DEF Phases
<1>2. CASE where \in {"delegated", "streaming", "left"}
  <2>1. E = << >>
    BY <1>2
  <2> HIDE DEF E
  <2>2. AccountOf(where, how, n) = Advance(n) \o E
    BY <1>1, <1>2, <2>1 DEF AccountOf
  <2> QED BY <2>2 DEF Advance, E
<1>3. CASE where \notin {"delegated", "streaming", "left"}
  <2>1. E = IF how = "ok" THEN <<"success">> ELSE IF how = "failed" THEN <<"failure">> ELSE << >>
    BY <1>3
  <2> HIDE DEF E
  <2>2. AccountOf(where, how, n) = Advance(n) \o E
    BY <1>1, <1>3, <2>1 DEF AccountOf
  <2> QED BY <2>2 DEF Advance, E
<1> QED BY <1>2, <1>3

\* The account of a call in its own terms, before and after a step.
LEMMA AccountIs ==
  ASSUME NEW c \in Calls, DiagnosedShape, Begun(c)
  PROVE  Diagnosed!Account(c) = AccountOf(at[c], delegate[c], Len(yielded[c]))
<1>1. Len(yielded[c]) \in Nat
  BY DEF DiagnosedShape, Follows
<1> QED BY <1>1, AccountForms DEF Diagnosed!Account, Begun

LEMMA AccountIsNext ==
  ASSUME NEW c \in Calls, DiagnosedShape', Begun(c)'
  PROVE  Diagnosed!Account(c)' = AccountOf(at'[c], delegate'[c], Len(yielded'[c]))
<1>1. Len(yielded'[c]) \in Nat
  BY DEF DiagnosedShape, Follows
<1> QED BY <1>1, AccountForms DEF Diagnosed!Account, Begun

-----------------------------------------------------------------------------
\* A step of one call leaves the others as they are.
Others(c) ==
  \A d \in Calls \ {c} :
    /\ kind'[d] = kind[d] /\ at'[d] = at[d] /\ told'[d] = told[d] /\ delegate'[d] = delegate[d]
    /\ result'[d] = result[d] /\ yielded'[d] = yielded[d] /\ (d \in threw' <=> d \in threw)

Clear(c) ==
  at[c] # "none" =>
    /\ told[c] = AccountOf(at[c], delegate[c], Len(yielded[c]))
    /\ kind[c] # "attach" /\ at[c] = "settled" => result[c] = delegate[c]
    /\ kind[c] = "attach" => result[c] = "ok"

\* A step of one call leaves the accounts of the others.
LEMMA StepOf ==
  ASSUME DiagnosedInv, DiagnosedShape', NEW c \in Calls, Others(c), Begun(c)',
         c \notin threw' => Clear(c)'
  PROVE  DiagnosedInv'
<1>1. ASSUME NEW d \in Calls, d # c PROVE Begun(d)' /\ (d \notin threw' => Clear(d)')
  <2>1. Begun(d)'
    BY <1>1 DEF DiagnosedInv, Begun, Others
  <2>2. Diagnosed!Account(d) = AccountOf(at[d], delegate[d], Len(yielded[d]))
    BY AccountIs DEF DiagnosedInv
  <2>3. d \notin threw => Clear(d)
    BY <2>2 DEF DiagnosedInv, Diagnosed!Transparent, Clear
  <2> QED BY <1>1, <2>1, <2>3 DEF Others, Clear
<1>2. \A d \in Calls : Begun(d)' /\ (d \notin threw' => Clear(d)')
  BY <1>1
<1>3. \A d \in Calls : Diagnosed!Account(d)' = AccountOf(at'[d], delegate'[d], Len(yielded'[d]))
  BY <1>2, AccountIsNext
<1>4. Diagnosed!Transparent'
  BY <1>2, <1>3 DEF Diagnosed!Transparent, Clear
<1> QED BY <1>2, <1>4 DEF DiagnosedInv

\* A callback that threw nothing left the account whole.
LEMMA IsClear ==
  ASSUME DiagnosedInv, NEW c \in Calls, c \notin threw PROVE Clear(c)
<1>1. Diagnosed!Account(c) = AccountOf(at[c], delegate[c], Len(yielded[c]))
  BY AccountIs DEF DiagnosedInv
<1> QED BY <1>1 DEF DiagnosedInv, Diagnosed!Transparent, Clear

\* The steps of a diagnosed call keep the invariant.
LEMMA DiagnosedInitInv == ItemsKnown /\ Diagnosed!Init => DiagnosedInv
<1> SUFFICES ASSUME ItemsKnown, Diagnosed!Init PROVE DiagnosedInv
  OBVIOUS
<1>1. \A c \in Calls : Follows(yielded[c])
  <2>1. << >> \in Seq(AnyItem) /\ Len(<< >>) = 0
    OBVIOUS
  <2>2. Len(Items) >= 0
    BY DEF ItemsKnown
  <2> QED BY <2>1, <2>2 DEF Diagnosed!Init, Follows
<1>2. DiagnosedShape
  BY <1>1 DEF Diagnosed!Init, DiagnosedShape
<1>3. \A c \in Calls : Begun(c) /\ at[c] = "none"
  BY DEF Diagnosed!Init, Begun
<1> QED BY <1>2, <1>3 DEF DiagnosedInv, Diagnosed!Transparent

LEMMA BeginInv ==
  ASSUME ItemsKnown, DiagnosedInv, NEW c \in Calls, Diagnosed!Begin(c)
  PROVE  DiagnosedInv'
<1>1. /\ at[c] = "none" /\ c \notin threw
      /\ told[c] = << >> /\ yielded[c] = << >> /\ result[c] = "none" /\ delegate[c] = "none"
      /\ kind[c] \in {"plain", "attach", "stream"}
  BY DEF Diagnosed!Begin, DiagnosedInv, Begun, DiagnosedShape
<1>2. /\ told' = [told EXCEPT ![c] = Append(told[c], "before")] /\ kind' = kind /\ yielded' = yielded
  BY DEF Diagnosed!Begin, Diagnosed!Tell, Diagnosed!Put
<1>3. told'[c] = <<"before">> /\ told'[c] = Advance(0) /\ told' \in [Calls -> Seq(Phases)]
  BY <1>1, <1>2, Advances DEF DiagnosedInv, DiagnosedShape, Phases
<1>4. \/ /\ at' = [at EXCEPT ![c] = IF kind[c] = "stream" THEN "streaming" ELSE "delegated"]
         /\ delegate' = [delegate EXCEPT ![c] = "pending"]
         /\ result' = [result EXCEPT ![c] = IF kind[c] = "attach" THEN "ok" ELSE result[c]]
         /\ threw' = threw
      \/ /\ threw' = threw \cup {c}
         /\ at' = [at EXCEPT ![c] = "settled"] /\ delegate' = delegate
         /\ result' = [result EXCEPT ![c] = IF kind[c] = "attach" THEN "ok" ELSE "thrown"]
  BY DEF Diagnosed!Begin, Diagnosed!Put, Diagnosed!Throws, DiagnosedInv, DiagnosedShape
<1>5. DiagnosedShape'
  <2>1. /\ at' \in [Calls -> {"none", "delegated", "streaming", "settled", "left"}]
        /\ delegate' \in [Calls -> {"none", "pending", "ok", "failed"}]
    BY ZenonT(40), <1>4 DEF DiagnosedInv, DiagnosedShape
  <2>2. result' \in [Calls -> {"none", "ok", "failed", "thrown"}]
    BY ZenonT(40), <1>4 DEF DiagnosedInv, DiagnosedShape
  <2> QED BY <1>2, <1>3, <2>1, <2>2 DEF DiagnosedInv, DiagnosedShape
<1>6. Others(c)
  BY <1>1, <1>2, <1>4 DEF Others, DiagnosedInv, DiagnosedShape
<1>7. Begun(c)'
  BY <1>1, <1>2, <1>3, <1>4 DEF Begun, DiagnosedInv, DiagnosedShape
<1>8. ASSUME c \notin threw' PROVE Clear(c)'
  <2>1. Len(yielded'[c]) = 0
    BY <1>1, <1>2
  <2>2. at'[c] \in {"delegated", "streaming"} /\ (kind'[c] = "attach" => result'[c] = "ok")
    BY <1>1, <1>2, <1>4, <1>8 DEF DiagnosedInv, DiagnosedShape
  <2> QED BY <1>3, <2>1, <2>2 DEF Clear, AccountOf
<1> QED BY <1>5, <1>6, <1>7, <1>8, StepOf

\* The call ends: the delegate is done, or the callback throws.
LEMMA Ending ==
  ASSUME DiagnosedInv, NEW c \in Calls, at[c] \in {"delegated", "streaming"},
         NEW how \in {"ok", "failed", "thrown"}, NEW phases \in Seq(Phases),
         NEW done \in {"pending", "ok", "failed"},
         UNCHANGED <<kind, yielded>>,
         told' = [told EXCEPT ![c] = told[c] \o phases], Diagnosed!Settle(c, how),
         delegate' = [delegate EXCEPT ![c] = done],
         threw' = threw \cup IF how = "thrown" THEN {c} ELSE {},
         how # "thrown" => done = how /\ phases = IF how = "ok" THEN <<"success">> ELSE <<"failure">>
  PROVE  DiagnosedInv'
<1>1. /\ at' = [at EXCEPT ![c] = "settled"]
      /\ result' = [result EXCEPT ![c] = IF kind[c] = "attach" THEN result[c] ELSE how]
  BY DEF Diagnosed!Settle, Diagnosed!Put, DiagnosedInv, DiagnosedShape
<1>2. c \notin threw /\ told[c] \in Seq(Phases) /\ kind[c] \in {"plain", "attach", "stream"}
  BY DEF DiagnosedInv, Begun, DiagnosedShape
<1>3. told'[c] = told[c] \o phases /\ told' \in [Calls -> Seq(Phases)]
  BY <1>2 DEF DiagnosedInv, DiagnosedShape
<1>4. DiagnosedShape'
  BY <1>1, <1>3 DEF DiagnosedInv, DiagnosedShape
<1>5. Others(c)
  BY <1>1 DEF Others, DiagnosedInv, DiagnosedShape
<1>6. Begun(c)'
  BY <1>1 DEF Begun, DiagnosedInv, DiagnosedShape
<1>7. ASSUME c \notin threw' PROVE Clear(c)'
  <2>1. how \in {"ok", "failed"} /\ done = how
    BY <1>7
  <2>2. /\ told[c] = Advance(Len(yielded[c])) /\ (kind[c] = "attach" => result[c] = "ok")
        /\ Len(yielded[c]) \in Nat
    BY <1>2, IsClear DEF Clear, AccountOf, DiagnosedInv, DiagnosedShape, Follows
  <2>3. told'[c] = Append(Advance(Len(yielded[c])), IF how = "ok" THEN "success" ELSE "failure")
    BY <1>3, <2>1, <2>2, Advances DEF Phases
  <2>4. /\ at'[c] = "settled" /\ delegate'[c] = how /\ (kind[c] # "attach" => result'[c] = how)
        /\ (kind[c] = "attach" => result'[c] = result[c]) /\ kind'[c] = kind[c] /\ yielded'[c] = yielded[c]
    BY <1>1, <2>1 DEF DiagnosedInv, DiagnosedShape
  <2> QED BY <2>1, <2>2, <2>3, <2>4 DEF Clear, AccountOf
<1> QED BY <1>4, <1>5, <1>6, <1>7, StepOf

\* The phases a call can end with.
LEMMA PhaseLists ==
  /\ <<"success">> \in Seq(Phases) /\ <<"failure">> \in Seq(Phases)
  /\ <<"success", "failure">> \in Seq(Phases) /\ <<"progress", "failure">> \in Seq(Phases)
BY DEF Phases

LEMMA EndsInv ==
  ASSUME DiagnosedInv, NEW c \in Calls,
         Diagnosed!Succeed(c) \/ Diagnosed!Fail(c) \/ Diagnosed!YieldThrows(c)
  PROVE  DiagnosedInv'
<1>1. /\ at[c] \in {"delegated", "streaming"} /\ UNCHANGED <<kind, yielded>> /\ threw \cup {} = threw
      /\ told[c] \in Seq(Phases) /\ delegate[c] = "pending"
  BY DEF Diagnosed!Succeed, Diagnosed!Fail, Diagnosed!YieldThrows, DiagnosedInv, DiagnosedShape,
     Begun
<1>2. CASE Diagnosed!Succeed(c)
  <2>1. delegate' = [delegate EXCEPT ![c] = "ok"]
    BY <1>2 DEF Diagnosed!Succeed, Diagnosed!Put
  <2>2. \/ /\ told' = [told EXCEPT ![c] = told[c] \o <<"success">>]
           /\ Diagnosed!Settle(c, "ok") /\ threw' = threw \cup {}
        \/ /\ told' = [told EXCEPT ![c] = told[c] \o <<"success", "failure">>]
           /\ Diagnosed!Settle(c, "thrown") /\ threw' = threw \cup {c}
    <3>1. Append(told[c], "success") = told[c] \o <<"success">>
      BY <1>1 DEF Phases
    <3> QED BY <1>1, <1>2, <3>1 DEF Diagnosed!Succeed, Diagnosed!Tell, Diagnosed!Put,
       Diagnosed!Caught, Diagnosed!Throws
  <2> QED BY <1>1, <2>1, <2>2, PhaseLists, Ending
<1>3. CASE Diagnosed!Fail(c)
  <2>1. delegate' = [delegate EXCEPT ![c] = "failed"] /\ told' = [told EXCEPT ![c] = told[c] \o <<"failure">>]
    BY <1>3 DEF Diagnosed!Fail, Diagnosed!Put, Diagnosed!Caught
  <2>2. \/ Diagnosed!Settle(c, "failed") /\ threw' = threw \cup {}
        \/ Diagnosed!Settle(c, "thrown") /\ threw' = threw \cup {c}
    BY <1>1, <1>3 DEF Diagnosed!Fail, Diagnosed!Caught, Diagnosed!Throws
  <2> QED BY <1>1, <2>1, <2>2, PhaseLists, Ending
<1>4. CASE Diagnosed!YieldThrows(c)
  <2>1. /\ delegate' = [delegate EXCEPT ![c] = "pending"]
        /\ told' = [told EXCEPT ![c] = told[c] \o <<"progress", "failure">>]
        /\ Diagnosed!Settle(c, "thrown") /\ threw' = threw \cup {c}
    BY <1>1, <1>4 DEF Diagnosed!YieldThrows, Diagnosed!Put, Diagnosed!Caught, Diagnosed!Throws,
       DiagnosedInv, DiagnosedShape
  <2> QED BY <1>1, <2>1, PhaseLists, Ending
<1> QED BY <1>2, <1>3, <1>4

LEMMA YieldInv ==
  ASSUME ItemsKnown, DiagnosedInv, NEW c \in Calls, Diagnosed!Yield(c)
  PROVE  DiagnosedInv'
<1>1. /\ at[c] = "streaming" /\ yielded[c] # Items /\ UNCHANGED <<kind, at, delegate, result, threw>>
      /\ yielded' = [yielded EXCEPT ![c] = Append(yielded[c], Items[Len(yielded[c]) + 1])]
      /\ told' = [told EXCEPT ![c] = Append(told[c], "progress")]
      /\ c \notin threw
  BY DEF Diagnosed!Yield, Diagnosed!Put, Diagnosed!TellProgress, Diagnosed!Tell, DiagnosedInv,
     Begun
<1>2. Follows(yielded[c]) /\ Len(yielded[c]) \in Nat /\ Len(Items) \in Nat
  BY DEF DiagnosedInv, DiagnosedShape, Follows, ItemsKnown
<1>3. Len(yielded[c]) < Len(Items)
  <2> SUFFICES ASSUME Len(yielded[c]) = Len(Items) PROVE yielded[c] = Items
    BY <1>1, <1>2 DEF Follows
  <2>1. yielded[c] \in Seq(AnyItem) /\ Items \in Seq(AnyItem)
    BY <1>2 DEF Follows, ItemsKnown, AnyItem
  <2> QED BY <1>2, <2>1 DEF Follows
<1>4. Follows(yielded'[c]) /\ Len(yielded'[c]) = Len(yielded[c]) + 1
  <2>1. Items[Len(yielded[c]) + 1] \in AnyItem
    BY <1>2, <1>3 DEF AnyItem, ItemsKnown
  <2>2. yielded'[c] = Append(yielded[c], Items[Len(yielded[c]) + 1])
    BY <1>1 DEF DiagnosedInv, DiagnosedShape
  <2> QED BY <1>2, <1>3, <2>1, <2>2 DEF Follows
<1>5. told[c] = Advance(Len(yielded[c])) /\ (kind[c] = "attach" => result[c] = "ok")
  BY <1>1, IsClear DEF Clear, AccountOf
<1>6. told'[c] = Advance(Len(yielded'[c])) /\ told'[c] \in Seq(Phases)
  <2>1. told'[c] = Append(told[c], "progress")
    BY <1>1 DEF DiagnosedInv, DiagnosedShape
  <2>2. Len(yielded[c]) + 1 \in Nat
    BY <1>2
  <2> QED BY <1>2, <1>4, <1>5, <2>1, <2>2, Advances
<1>7. DiagnosedShape'
  BY <1>1, <1>4, <1>6 DEF DiagnosedInv, DiagnosedShape
<1>8. Others(c) /\ Begun(c)'
  BY <1>1 DEF Others, Begun, DiagnosedInv, DiagnosedShape
<1>9. Clear(c)'
  BY <1>1, <1>5, <1>6 DEF Clear, AccountOf
<1> QED BY <1>7, <1>8, <1>9, StepOf

LEMMA LeaveInv == ASSUME DiagnosedInv, NEW c \in Calls, Diagnosed!Leave(c) PROVE DiagnosedInv'
<1>1. /\ at[c] = "streaming" /\ UNCHANGED <<kind, told, delegate, result, yielded, threw>>
      /\ at' = [at EXCEPT ![c] = "left"]
  BY DEF Diagnosed!Leave, Diagnosed!Put
<1>2. DiagnosedShape' /\ Others(c) /\ Begun(c)'
  BY <1>1 DEF DiagnosedInv, DiagnosedShape, Others, Begun
<1>3. ASSUME c \notin threw' PROVE Clear(c)'
  BY <1>1, <1>3, IsClear DEF Clear, AccountOf, DiagnosedInv, DiagnosedShape
<1> QED BY <1>2, <1>3, StepOf

LEMMA DiagnosedNextInv ==
  ASSUME ItemsKnown, DiagnosedInv, [Diagnosed!Next]_Diagnosed!vars
  PROVE  DiagnosedInv'
<1>1. CASE UNCHANGED Diagnosed!vars
  BY <1>1 DEF Diagnosed!vars, DiagnosedInv, DiagnosedShape, Begun, Diagnosed!Transparent,
     Diagnosed!Account
<1>2. CASE Diagnosed!Next
  BY <1>2, BeginInv, EndsInv, YieldInv, LeaveInv DEF Diagnosed!Next
<1> QED BY <1>1, <1>2

\* What the invariant says of a call and its diagnostics.
LEMMA DiagnosedInvKeeps == DiagnosedInv => Diagnosed!Transparent /\ Diagnosed!FailuresStay
BY DEF DiagnosedInv, Begun, Diagnosed!FailuresStay

-----------------------------------------------------------------------------
(* The publisher.                                                          *)

\* Functions of the application are not those that subscribeFirst() makes.
PublisherConstants == Listeners \cap Firsts = {} /\ MaxSteps \in Nat /\ MaxDepth \in Nat

AnEntry == [event : Events, set : Nat, order : Nat, who : Listeners \cup Firsts]
ALoop   == [id : Nat, event : Events, set : Nat, last : Nat, calling : Nat, there : SUBSET AnEntry]

\* Two entries of an event are told apart by their number, and all are in its
\* current Set.
EntriesNumbered ==
  /\ steps \in Nat /\ entries \subseteq AnEntry /\ current \in [Events -> Nat]
  /\ \A e \in entries : e.order \in 1..steps /\ e.set = current[e.event]
  /\ \A e, f \in entries : e.event = f.event /\ e.order = f.order => e = f

\* What a loop has visited it has called once, and what is ahead not yet.
LoopTold(loop) ==
  /\ loop.id <= steps
  /\ \A e \in loop.there : e.order < loop.id
  /\ \A e \in loop.there \cap entries : e.event = loop.event => e.set = loop.set
  /\ \A i \in DOMAIN calls : calls[i][1] = loop.id => calls[i][2].order <= loop.last
  /\ \A e \in loop.there \cap entries :
       e.event = loop.event /\ e.order <= loop.last =>
         \E i \in DOMAIN calls : \A j \in DOMAIN calls :
           calls[j][1] = loop.id /\ calls[j][2] = e <=> i = j

LoopsTold ==
  /\ loops \in Seq(ALoop) /\ calls \in Seq(Nat \X AnEntry)
  /\ \A i \in DOMAIN calls : calls[i][1] <= steps
  /\ \A k \in DOMAIN loops : LoopTold(loops[k])
  /\ \A j, k \in DOMAIN loops : j # k => loops[j].id # loops[k].id

FirstsOnce ==
  /\ resolved \in [Firsts -> {0, 1}]
  /\ \A e \in entries : e.who \in Firsts => resolved[e.who] = 0

PublisherInv == EntriesNumbered /\ LoopsTold /\ FirstsOnce

-----------------------------------------------------------------------------
\* Entries that go take nothing with them.
LEMMA Removed ==
  ASSUME EntriesNumbered, NEW gone, Published!RemoveAll(gone), UNCHANGED steps
  PROVE  EntriesNumbered' /\ entries' \subseteq entries
<1>1. entries' = entries \ gone
  BY DEF Published!RemoveAll
<1>2. current' \in [Events -> Nat]
  <2>1. \A e \in Events : current[e] + 1 \in Nat /\ current[e] \in Nat
    BY DEF EntriesNumbered
  <2> QED BY <2>1 DEF Published!RemoveAll
<1>3. ASSUME NEW e \in entries' PROVE current'[e.event] = current[e.event]
  <2>1. e \in entries \ gone /\ e.event \in Events
    BY <1>1 DEF EntriesNumbered, AnEntry
  <2> QED BY <2>1 DEF Published!RemoveAll
<1> QED BY <1>1, <1>2, <1>3 DEF EntriesNumbered

\* A loop that is not at work stays as it was, when no entry it knows returns.
LEMMA LoopStays ==
  ASSUME NEW loop \in ALoop, LoopTold(loop), steps \in Nat, steps' \in Nat, steps <= steps',
         loop.there \cap entries' \subseteq entries, UNCHANGED calls
  PROVE  LoopTold(loop)'
BY DEF LoopTold, ALoop

\* What is known of one loop, now and after a step.
LEMMA Loops ==
  ASSUME LoopsTold, NEW k \in DOMAIN loops
  PROVE  loops[k] \in ALoop /\ LoopTold(loops[k])
BY DEF LoopsTold

LEMMA ToldAt ==
  ASSUME NEW k, NEW loop, loops'[k] = loop, LoopTold(loop)'
  PROVE  LoopTold(loops[k])'
BY DEF LoopTold

\* A step that calls nobody and touches no loop.
LEMMA LoopsStay ==
  ASSUME LoopsTold, UNCHANGED <<loops, calls>>, steps \in Nat, steps' \in Nat, steps <= steps',
         \A e \in entries' : e \in entries \/ e.order > steps
  PROVE  LoopsTold'
<1>1. ASSUME NEW k \in DOMAIN loops, NEW loop, loop = loops[k] PROVE LoopTold(loop)'
  <2>1. loop \in ALoop /\ LoopTold(loop)
    BY <1>1, Loops
  <2>2. loop.there \cap entries' \subseteq entries
    BY <2>1 DEF LoopTold, ALoop, AnEntry
  <2> QED BY <2>1, <2>2, LoopStays
<1>2. \A k \in DOMAIN loops' : LoopTold(loops[k])'
  BY <1>1 DEF LoopTold
<1>3. \A i \in DOMAIN calls : calls[i] \in Nat \X AnEntry
  BY DEF LoopsTold
<1>4. \A i \in DOMAIN calls : calls[i][1] <= steps'
  BY <1>3 DEF LoopsTold
<1> QED BY <1>2, <1>4 DEF LoopsTold

\* The steps of the publisher and its listeners keep the invariant.
LEMMA SubscribeInv ==
  ASSUME PublisherConstants, PublisherInv, NEW event \in Events, NEW l \in Listeners,
         Published!Subscribe(event, l)
  PROVE  PublisherInv'
<1> DEFINE e == [event |-> event, set |-> current[event], order |-> steps + 1, who |-> l]
<1>1. /\ steps' = steps + 1 /\ UNCHANGED <<current, loops, resolved, calls>>
      /\ entries' = entries \/ entries' = entries \cup {e}
  BY DEF Published!Subscribe
<1>2. e \in AnEntry /\ e.order = steps + 1 /\ e.event = event /\ e.set = current[event] /\ e.who = l
  BY DEF AnEntry, PublisherInv, EntriesNumbered
<1> HIDE DEF e
<1>3. EntriesNumbered'
  BY <1>1, <1>2 DEF PublisherInv, EntriesNumbered
<1>4. LoopsTold'
  BY <1>1, <1>2, LoopsStay DEF PublisherInv, EntriesNumbered
<1>5. FirstsOnce'
  BY <1>1, <1>2 DEF PublisherInv, FirstsOnce, PublisherConstants
<1> QED BY <1>3, <1>4, <1>5 DEF PublisherInv

LEMMA UnsubscribeInv ==
  ASSUME PublisherInv, NEW event \in Events, NEW l \in Listeners,
         Published!Unsubscribe(event, l)
  PROVE  PublisherInv'
<1>1. Published!RemoveAll(Published!Entry(event, l)) /\ UNCHANGED <<loops, resolved, steps, calls>>
  BY DEF Published!Unsubscribe
<1>2. EntriesNumbered' /\ entries' \subseteq entries
  BY <1>1, Removed DEF PublisherInv
<1>3. LoopsTold'
  BY <1>1, <1>2, LoopsStay DEF PublisherInv, EntriesNumbered
<1>4. FirstsOnce'
  BY <1>1, <1>2 DEF PublisherInv, FirstsOnce
<1> QED BY <1>2, <1>3, <1>4 DEF PublisherInv

LEMMA SubscribeFirstInv ==
  ASSUME PublisherInv, NEW f \in Firsts, Published!SubscribeFirst(f)
  PROVE  PublisherInv'
<1> DEFINE new == {[event |-> e, set |-> current[e], order |-> steps', who |-> f] : e \in Events}
<1>1. /\ steps' = steps + 1 /\ UNCHANGED <<current, loops, resolved, calls>>
      /\ entries' = entries \cup new /\ resolved[f] = 0
  BY DEF Published!SubscribeFirst
<1>2. \A e \in new : /\ e \in AnEntry /\ e.order = steps + 1 /\ e.set = current[e.event] /\ e.who = f
                     /\ e = [event |-> e.event, set |-> current[e.event], order |-> steps', who |-> f]
  BY <1>1 DEF AnEntry, PublisherInv, EntriesNumbered
<1> HIDE DEF new
<1>3. EntriesNumbered'
  <2>1. \A e \in entries' : e \in AnEntry /\ e.order \in 1..steps' /\ e.set = current[e.event]
    BY <1>1, <1>2 DEF PublisherInv, EntriesNumbered
  <2>2. \A e, g \in entries' : e.event = g.event /\ e.order = g.order => e = g
    BY <1>1, <1>2 DEF PublisherInv, EntriesNumbered
  <2> QED BY <1>1, <2>1, <2>2 DEF PublisherInv, EntriesNumbered
<1>4. LoopsTold'
  BY <1>1, <1>2, LoopsStay DEF PublisherInv, EntriesNumbered
<1>5. FirstsOnce'
  BY <1>1, <1>2 DEF PublisherInv, FirstsOnce
<1> QED BY <1>3, <1>4, <1>5 DEF PublisherInv

LEMMA PublishInv ==
  ASSUME PublisherInv, NEW event \in Events, Published!Publish(event)
  PROVE  PublisherInv'
<1> DEFINE new == [id |-> steps + 1, event |-> event, set |-> current[event],
                   last |-> 0, calling |-> 0, there |-> entries]
           n == Len(loops) + 1
<1>1. /\ steps' = steps + 1 /\ UNCHANGED <<entries, current, resolved, calls>>
      /\ loops' = Append(loops, new)
  BY DEF Published!Publish
<1>2. /\ new \in ALoop /\ new.id = steps + 1 /\ new.event = event /\ new.set = current[event]
      /\ new.last = 0 /\ new.there = entries
  BY DEF ALoop, PublisherInv, EntriesNumbered
<1> HIDE DEF new
<1>3. /\ loops' \in Seq(ALoop) /\ DOMAIN loops = 1..Len(loops) /\ DOMAIN loops' = 1..n
      /\ Len(loops) \in Nat /\ loops'[n] = new /\ \A k \in DOMAIN loops : loops'[k] = loops[k]
  BY <1>1, <1>2 DEF PublisherInv, LoopsTold
<1>4. EntriesNumbered' /\ FirstsOnce'
  BY <1>1 DEF PublisherInv, EntriesNumbered, FirstsOnce
<1>5. \A i \in DOMAIN calls : calls[i][1] \in Nat /\ calls[i][1] <= steps
  BY DEF PublisherInv, LoopsTold
<1>6. ASSUME NEW k \in DOMAIN loops, NEW loop, loop = loops[k]
      PROVE  LoopTold(loop)' /\ loop.id # steps + 1
  <2>1. loop \in ALoop /\ LoopTold(loop)
    BY <1>6, Loops DEF PublisherInv
  <2>2. LoopTold(loop)'
    BY <1>1, <2>1, LoopStays DEF PublisherInv, EntriesNumbered
  <2> QED BY <2>1, <2>2 DEF LoopTold, ALoop, PublisherInv, EntriesNumbered
<1>7. ASSUME NEW loop, loop = new PROVE LoopTold(loop)'
  <2>1. \A e \in entries : e.order < steps + 1 /\ (e.event = event => e.set = current[event]) /\ ~(e.order <= 0)
    BY DEF PublisherInv, EntriesNumbered
  <2>2. \A i \in DOMAIN calls : calls[i][1] # steps + 1
    BY <1>5 DEF PublisherInv, EntriesNumbered
  <2>3. new.id <= steps'
    BY <1>1, <1>2 DEF PublisherInv, EntriesNumbered
  <2> QED BY <1>1, <1>2, <1>7, <2>1, <2>2, <2>3 DEF LoopTold
<1>8. ASSUME NEW k \in DOMAIN loops' PROVE LoopTold(loops[k])'
  <2>1. PICK loop : loop = loops'[k]
    OBVIOUS
  <2>2. LoopTold(loop)'
    <3>1. CASE k = n
      BY <1>3, <1>7, <2>1, <3>1
    <3>2. CASE k \in DOMAIN loops
      BY <1>3, <1>6, <2>1, <3>2
    <3> QED BY <1>3, <3>1, <3>2
  <2> QED BY <2>1, <2>2, ToldAt
<1>9. \A j, k \in DOMAIN loops' : j # k => loops'[j].id # loops'[k].id
  BY <1>2, <1>3, <1>6 DEF PublisherInv, LoopsTold
<1>10. \A i \in DOMAIN calls : calls[i][1] <= steps'
  BY <1>1, <1>5 DEF PublisherInv, EntriesNumbered
<1> QED BY <1>1, <1>3, <1>4, <1>8, <1>9, <1>10 DEF PublisherInv, LoopsTold

\* The loop that is at work: the others stay as they were.
LEMMA WorkingLoop ==
  ASSUME EntriesNumbered, LoopsTold, loops # << >>, NEW loop \in ALoop,
         Published!Innermost(loop),
         UNCHANGED steps, entries' \subseteq entries,
         loop.id = Published!Last(loops).id, LoopTold(loop)',
         \/ UNCHANGED calls
         \/ \E e \in AnEntry : calls' = Append(calls, <<loop.id, e>>)
  PROVE  LoopsTold'
<1> DEFINE n == Len(loops)
<1>1. /\ loops \in Seq(ALoop) /\ n \in Nat /\ DOMAIN loops = 1..n /\ n \in 1..n
      /\ loops[n].id = loop.id
  BY EmptySeq DEF LoopsTold, Published!Last
<1>2. /\ loops' \in Seq(ALoop) /\ DOMAIN loops' = 1..n
      /\ loops'[n] = loop /\ \A k \in 1..n : k # n => loops'[k] = loops[k]
  <2>1. loops' = [loops EXCEPT ![n] = loop]
    BY DEF Published!Innermost
  <2>2. loops' \in Seq(ALoop)
    BY <1>1, <2>1, ExceptSeq
  <2> HIDE DEF n
  <2> QED BY <1>1, <2>1, <2>2
<1> HIDE DEF n
<1>3. \A k \in DOMAIN loops : loops[k] \in ALoop
  BY <1>1
<1>4. \A k \in 1..n : loops'[k].id = loops[k].id
  BY <1>1, <1>2
<1>5. /\ calls \in Seq(Nat \X AnEntry) /\ calls' \in Seq(Nat \X AnEntry)
      /\ \A i \in DOMAIN calls : i \in DOMAIN calls' /\ calls'[i] = calls[i]
      /\ \A i \in DOMAIN calls' : i \in DOMAIN calls \/ calls'[i][1] = loop.id
  <2>1. calls \in Seq(Nat \X AnEntry)
    BY DEF LoopsTold
  <2>2. CASE UNCHANGED calls
    BY <2>1, <2>2
  <2>3. CASE \E e \in AnEntry : calls' = Append(calls, <<loop.id, e>>)
    <3>1. PICK e \in AnEntry : calls' = Append(calls, <<loop.id, e>>)
      BY <2>3
    <3>2. <<loop.id, e>> \in Nat \X AnEntry /\ <<loop.id, e>>[1] = loop.id
      BY DEF ALoop
    <3> QED BY <2>1, <3>1, <3>2
  <2> QED BY <2>2, <2>3
<1>6. loop.id <= steps
  BY <1>1, Loops DEF LoopTold
<1>7. \A i \in DOMAIN calls' : calls'[i][1] <= steps'
  BY <1>5, <1>6 DEF LoopsTold
<1>8. ASSUME NEW k \in 1..n PROVE LoopTold(loops[k])'
  <2>1. CASE k = n
    BY <1>2, <2>1, ToldAt
  <2>2. CASE k # n
    <3>1. PICK other : other = loops[k]
      OBVIOUS
    <3>2. other \in ALoop /\ LoopTold(other) /\ other.id # loop.id
      <4>1. other.id # loop.id
        BY <1>1, <2>2, <3>1 DEF LoopsTold
      <4> QED BY <1>1, <3>1, <4>1, Loops
    <3>3. /\ other.id <= steps'
          /\ \A e \in other.there : e.order < other.id
          /\ \A e \in other.there \cap entries' : e.event = other.event => e.set = other.set
      BY <3>2 DEF LoopTold
    <3>4. \A i \in DOMAIN calls' : calls'[i][1] = other.id => calls'[i][2].order <= other.last
      BY <1>5, <3>2 DEF LoopTold
    <3>5. ASSUME NEW e \in other.there \cap entries', e.event = other.event,
                 e.order <= other.last
          PROVE  \E i \in DOMAIN calls' : \A j \in DOMAIN calls' :
                   calls'[j][1] = other.id /\ calls'[j][2] = e <=> i = j
      <4>1. PICK i \in DOMAIN calls : \A j \in DOMAIN calls :
              calls[j][1] = other.id /\ calls[j][2] = e <=> i = j
        BY <3>2, <3>5 DEF LoopTold
      <4>2. \A j \in DOMAIN calls' : calls'[j][1] = other.id /\ calls'[j][2] = e <=> i = j
        BY <1>5, <3>2, <4>1
      <4> QED BY <1>5, <4>1, <4>2
    <3>6. LoopTold(other)'
      BY <3>3, <3>4, <3>5 DEF LoopTold
    <3> QED BY <1>2, <2>2, <3>1, <3>6, ToldAt
  <2> QED BY <2>1, <2>2
<1>9. \A j, k \in DOMAIN loops' : j # k => loops'[j].id # loops'[k].id
  BY <1>1, <1>2, <1>4 DEF LoopsTold
<1> QED BY <1>2, <1>5, <1>7, <1>8, <1>9 DEF LoopsTold

\* A listener returns or throws, and the loop goes on.
LEMMA GoesOnInv ==
  ASSUME PublisherInv, Published!Returns \/ Published!Throws
  PROVE  PublisherInv'
<1>1. PICK l : l = Published!Last(loops)
  OBVIOUS
<1>2. l \in ALoop /\ LoopTold(l) /\ loops # << >>
  <2>1. loops # << >> /\ loops \in Seq(ALoop)
    BY DEF Published!Returns, Published!Throws, PublisherInv, LoopsTold
  <2>2. Len(loops) \in DOMAIN loops
    BY <2>1, EmptySeq
  <2> QED BY <1>1, <2>1, <2>2, Loops DEF Published!Last, PublisherInv
<1>3. PICK loop : loop = [l EXCEPT !.calling = 0]
  OBVIOUS
<1>4. /\ loop \in ALoop /\ loop.id = l.id /\ loop.event = l.event /\ loop.set = l.set
      /\ loop.last = l.last /\ loop.there = l.there
  BY <1>2, <1>3 DEF ALoop
<1>5. Published!Innermost(loop) /\ UNCHANGED <<entries, current, resolved, steps, calls>>
  BY <1>1, <1>3 DEF Published!Returns, Published!Throws, Published!GoesOn
<1>6. LoopTold(loop)'
  BY <1>2, <1>4, <1>5 DEF LoopTold
<1>7. LoopsTold'
  BY <1>1, <1>2, <1>4, <1>5, <1>6, WorkingLoop DEF PublisherInv
<1> QED BY <1>5, <1>7 DEF PublisherInv, EntriesNumbered, FirstsOnce

LEMMA DoneInv == ASSUME PublisherInv, Published!Done PROVE PublisherInv'
<1>1. loops' = Published!Front(loops) /\ loops # << >> /\ UNCHANGED <<entries, current, resolved, steps, calls>>
  BY DEF Published!Done
<1>2. /\ loops' \in Seq(ALoop)
      /\ \A k \in DOMAIN loops' : k \in DOMAIN loops /\ loops'[k] = loops[k]
  BY <1>1, EmptySeq DEF PublisherInv, LoopsTold, Published!Front
<1>3. ASSUME NEW k \in DOMAIN loops' PROVE LoopTold(loops[k])'
  <2>1. PICK loop : loop = loops[k]
    OBVIOUS
  <2>2. LoopTold(loop)
    BY <1>2, <2>1 DEF PublisherInv, LoopsTold
  <2>3. LoopTold(loop)'
    BY <1>1, <2>2 DEF LoopTold
  <2> QED BY <1>2, <2>1, <2>3, ToldAt
<1>4. LoopsTold'
  BY <1>1, <1>2, <1>3 DEF PublisherInv, LoopsTold
<1> QED BY <1>1, <1>4 DEF PublisherInv, EntriesNumbered, FirstsOnce

\* The next listener is the first ahead; what is behind it has been called.
LEMMA CallNextInv == ASSUME PublisherInv, Published!CallNext PROVE PublisherInv'
<1>1. PICK l : l = Published!Last(loops)
  OBVIOUS
<1>2. l \in ALoop /\ LoopTold(l) /\ loops # << >>
  <2>1. loops # << >> /\ loops \in Seq(ALoop)
    BY DEF Published!CallNext, PublisherInv, LoopsTold
  <2>2. Len(loops) \in DOMAIN loops
    BY <2>1, EmptySeq
  <2> QED BY <1>1, <2>1, <2>2, Loops DEF Published!Last, PublisherInv
<1>3. PICK e \in Published!Ahead(l) :
        /\ \A o \in Published!Ahead(l) : e.order <= o.order
        /\ calls' = Append(calls, <<l.id, e>>)
        /\ IF e.who \in Firsts
             THEN /\ Published!RemoveAll(entries \ Published!WithOthers(e, entries))
                  /\ resolved' = [resolved EXCEPT ![e.who] = @ + 1]
                  /\ Published!Innermost([l EXCEPT !.last = e.order])
             ELSE /\ Published!Innermost([l EXCEPT !.last = e.order, !.calling = e.order])
                  /\ UNCHANGED <<entries, current, resolved>>
        /\ UNCHANGED steps
  BY <1>1 DEF Published!CallNext
<1>4. e \in entries /\ e \in AnEntry /\ e.event = l.event /\ e.set = l.set /\ e.order > l.last
  BY <1>3 DEF Published!Ahead, PublisherInv, EntriesNumbered
<1>5. PICK loop \in ALoop : /\ Published!Innermost(loop) /\ loop.id = l.id /\ loop.event = l.event
                            /\ loop.set = l.set /\ loop.last = e.order /\ loop.there = l.there
  <2>1. CASE e.who \in Firsts
    <3>1. PICK loop : loop = [l EXCEPT !.last = e.order]
      OBVIOUS
    <3>2. /\ loop \in ALoop /\ loop.id = l.id /\ loop.event = l.event /\ loop.set = l.set
          /\ loop.last = e.order /\ loop.there = l.there
      BY <1>2, <1>4, <3>1 DEF ALoop, AnEntry
    <3> QED BY <1>3, <2>1, <3>1, <3>2
  <2>2. CASE e.who \notin Firsts
    <3>1. PICK loop : loop = [l EXCEPT !.last = e.order, !.calling = e.order]
      OBVIOUS
    <3>2. /\ loop \in ALoop /\ loop.id = l.id /\ loop.event = l.event /\ loop.set = l.set
          /\ loop.last = e.order /\ loop.there = l.there
      BY <1>2, <1>4, <3>1 DEF ALoop, AnEntry
    <3> QED BY <1>3, <2>2, <3>1, <3>2
  <2> QED BY <2>1, <2>2
<1>6. EntriesNumbered' /\ entries' \subseteq entries
  <2>1. CASE e.who \in Firsts
    BY <1>3, <2>1, Removed DEF PublisherInv
  <2>2. CASE e.who \notin Firsts
    BY <1>3, <2>2 DEF PublisherInv, EntriesNumbered
  <2> QED BY <2>1, <2>2
<1>7. /\ calls \in Seq(Nat \X AnEntry) /\ DOMAIN calls' = DOMAIN calls \cup {Len(calls) + 1}
      /\ calls'[Len(calls) + 1] = <<l.id, e>> /\ Len(calls) + 1 \notin DOMAIN calls
      /\ \A i \in DOMAIN calls : calls'[i] = calls[i]
  <2>1. calls \in Seq(Nat \X AnEntry)
    BY DEF PublisherInv, LoopsTold
  <2>2. <<l.id, e>> \in Nat \X AnEntry
    BY <1>2, <1>4 DEF ALoop
  <2> QED BY <1>3, <2>1, <2>2
<1>8. LoopTold(loop)'
  <2> DEFINE m == Len(calls) + 1
  <2>1. /\ loop.id <= steps'
        /\ \A o \in loop.there : o.order < loop.id
        /\ \A o \in loop.there \cap entries' : o.event = loop.event => o.set = loop.set
    BY <1>2, <1>3, <1>5, <1>6 DEF LoopTold
  <2>2. \A i \in DOMAIN calls : calls[i][1] \in Nat /\ calls[i][2] \in AnEntry
    BY <1>7
  <2>3. \A i \in DOMAIN calls : calls[i][1] = l.id => calls[i][2].order <= l.last
    BY <1>2 DEF LoopTold
  <2>4. <<l.id, e>>[1] = l.id /\ <<l.id, e>>[2] = e
    OBVIOUS
  <2>5. \A i \in DOMAIN calls' : calls'[i][1] = loop.id => calls'[i][2].order <= loop.last
    BY SMTT(30), <1>2, <1>4, <1>5, <1>7, <2>2, <2>3, <2>4 DEF AnEntry, ALoop
  <2>6. ASSUME NEW o \in loop.there \cap entries', o.event = loop.event, o.order <= loop.last
        PROVE  \E i \in DOMAIN calls' : \A j \in DOMAIN calls' :
                 calls'[j][1] = loop.id /\ calls'[j][2] = o <=> i = j
    <3>1. o \in entries /\ o \in AnEntry /\ o.event = l.event /\ o.set = l.set /\ o \in l.there
      BY <1>2, <1>5, <1>6, <2>6 DEF LoopTold, PublisherInv, EntriesNumbered
    <3>2. CASE o.order <= l.last
      <4>1. PICK i \in DOMAIN calls : \A j \in DOMAIN calls :
              calls[j][1] = l.id /\ calls[j][2] = o <=> i = j
        BY <1>2, <3>1, <3>2 DEF LoopTold
      <4>2. o # e
        BY <1>2, <1>4, <3>1, <3>2 DEF AnEntry, ALoop
      <4>3. \A j \in DOMAIN calls' : calls'[j][1] = loop.id /\ calls'[j][2] = o <=> i = j
        BY <1>5, <1>7, <2>4, <4>1, <4>2
      <4> QED BY <1>7, <4>1, <4>3
    <3>3. CASE ~(o.order <= l.last)
      <4>1. o \in Published!Ahead(l)
        BY <1>2, <3>1, <3>3 DEF Published!Ahead, AnEntry, ALoop
      <4>2. o = e
        <5>1. o.order = e.order
          BY <1>3, <1>4, <1>5, <2>6, <3>1, <4>1 DEF AnEntry
        <5> QED BY <1>4, <3>1, <5>1 DEF PublisherInv, EntriesNumbered
      <4>3. \A j \in DOMAIN calls : calls[j][1] = l.id => calls[j][2] # e
        BY <1>2, <1>4, <2>2, <2>3 DEF AnEntry, ALoop
      <4>4. \A j \in DOMAIN calls' : calls'[j][1] = loop.id /\ calls'[j][2] = o <=> m = j
        BY <1>5, <1>7, <2>4, <4>2, <4>3
      <4> QED BY <1>7, <4>4
    <3> QED BY <3>2, <3>3
  <2> QED BY <2>1, <2>5, <2>6 DEF LoopTold
<1>9. LoopsTold'
  <2>1. loop.id = Published!Last(loops).id /\ (\E f \in AnEntry : calls' = Append(calls, <<loop.id, f>>))
    BY <1>1, <1>3, <1>4, <1>5
  <2> QED BY <1>2, <1>3, <1>5, <1>6, <1>8, <2>1, WorkingLoop DEF PublisherInv
<1>10. FirstsOnce'
  <2>1. CASE e.who \in Firsts
    <3>1. entries' = entries \ (entries \ Published!WithOthers(e, entries))
      BY <1>3, <2>1 DEF Published!RemoveAll
    <3>2. \A o \in entries' : o.who # e.who
      BY <3>1 DEF Published!WithOthers
    <3>3. resolved[e.who] = 0 /\ resolved' = [resolved EXCEPT ![e.who] = 1]
      BY <1>3, <1>4, <2>1 DEF PublisherInv, FirstsOnce
    <3> QED BY <1>6, <2>1, <3>2, <3>3 DEF PublisherInv, FirstsOnce
  <2>2. CASE e.who \notin Firsts
    BY <1>3, <2>2 DEF PublisherInv, FirstsOnce
  <2> QED BY <2>1, <2>2
<1> QED BY <1>6, <1>9, <1>10 DEF PublisherInv

LEMMA PublisherInitInv == ASSUME PublisherConstants, Published!Init PROVE PublisherInv
<1>1. loops = << >> /\ calls = << >> /\ entries = {} /\ steps = 0
      /\ current = [e \in Events |-> 1] /\ resolved = [f \in Firsts |-> 0]
  BY DEF Published!Init
<1>2. EntriesNumbered
  BY <1>1 DEF EntriesNumbered
<1>3. LoopsTold
  BY <1>1 DEF LoopsTold
<1>4. FirstsOnce
  BY <1>1 DEF FirstsOnce
<1> QED BY <1>2, <1>3, <1>4 DEF PublisherInv

LEMMA PublisherNextInv ==
  ASSUME PublisherConstants, PublisherInv, [Published!Next]_Published!vars
  PROVE  PublisherInv'
<1>1. CASE UNCHANGED Published!vars
  BY <1>1 DEF Published!vars, PublisherInv, EntriesNumbered, LoopsTold, LoopTold, FirstsOnce
<1>2. CASE Published!Next
  BY <1>2, SubscribeInv, UnsubscribeInv, SubscribeFirstInv, PublishInv, CallNextInv, GoesOnInv,
     DoneInv DEF Published!Next
<1> QED BY <1>1, <1>2

\* The two are one operator.
LEMMA SameCardinality == ASSUME NEW S PROVE Published!Cardinality(S) = Cardinality(S)
BY DEF Published!Cardinality, Cardinality

\* What the invariant says to a listener.
LEMMA PublisherInvKeeps ==
  ASSUME PublisherInv
  PROVE  Published!EveryListenerOnce /\ Published!FirstIsOnce
<1>1. ASSUME loops # << >>, NEW loop, loop = Published!Last(loops), Published!Idle(loop),
             Published!Ahead(loop) = {},
             NEW e \in loop.there \cap entries, e.event = loop.event
      PROVE  Published!Cardinality({i \in Published!CallsOf(loop.id) : calls[i][2] = e}) = 1
  <2>1. loop \in ALoop /\ LoopTold(loop)
    <3>1. Len(loops) \in DOMAIN loops
      BY <1>1, EmptySeq DEF PublisherInv, LoopsTold
    <3> QED BY <1>1, <3>1, Loops DEF Published!Last, PublisherInv
  <2>2. e.order <= loop.last
    BY <1>1, <2>1 DEF Published!Ahead, LoopTold, ALoop, AnEntry, PublisherInv, EntriesNumbered
  <2>3. PICK i \in DOMAIN calls : \A j \in DOMAIN calls :
          calls[j][1] = loop.id /\ calls[j][2] = e <=> i = j
    BY <1>1, <2>1, <2>2 DEF LoopTold
  <2>4. {j \in Published!CallsOf(loop.id) : calls[j][2] = e} = {i}
    BY <2>3 DEF Published!CallsOf
  <2> QED BY <2>4, FS_Singleton, SameCardinality
<1>2. Published!FirstIsOnce
  BY DEF PublisherInv, FirstsOnce, Published!FirstIsOnce
<1>3. Published!EveryListenerOnce
  BY <1>1 DEF Published!EveryListenerOnce
<1> QED BY <1>2, <1>3

-----------------------------------------------------------------------------
(* The decimals: the radix.                                                *)

LEMMA RadixIs == Radix \in Nat /\ Radix >= 4 /\ Radix % 2 = 0 /\ TargetScale \in Nat
BY PartsAssumption

\* A multiple of a number that is less than the number is none.
LEMMA NoMultiple ==
  ASSUME NEW b \in Nat \ {0}, NEW k \in Int, b * k < b, -b < b * k
  PROVE  k = 0
<1>1. CASE k >= 1
  <2>1. b * k >= b
    BY <1>1
  <2> QED BY <2>1
<1>2. CASE k <= -1
  <2>1. b * k <= -b
    BY <1>2
  <2> QED BY <2>1
<1> QED BY <1>1, <1>2

LEMMA Divides ==
  ASSUME NEW a \in Nat, NEW b \in Nat \ {0}
  PROVE  \E q \in Nat, r \in Nat :
           a \div b = q /\ a % b = r /\ r < b /\ b * q \in Nat /\ a = b * q + r
<1>1. a \div b \in Int /\ a \div b >= 0
  OBVIOUS
<1>2. a % b \in Nat /\ a % b < b
  OBVIOUS
<1>3. a % b = a - b * (a \div b)
  OBVIOUS
<1> DEFINE q == a \div b
           r == a % b
           p == b * q
<1>4. q \in Nat /\ r \in Nat /\ r < b /\ r = a - p
  BY <1>1, <1>2, <1>3
<1> HIDE DEF q, r
<1>5. p \in Nat
  BY <1>4
<1> HIDE DEF p
<1>6. a = p + r
  BY <1>4, <1>5
<1>7. p = b * q /\ a \div b = q /\ a % b = r
  BY DEF p, q, r
<1> QED BY <1>4, <1>5, <1>6, <1>7

LEMMA QuotOfNat ==
  ASSUME NEW a \in Nat, NEW b \in Nat \ {0}
  PROVE  Numbers!Quot(a, b) = a \div b
<1>1. ~(a < 0) /\ ~(b < 0)
  OBVIOUS
<1>2. Numbers!Abs(a) = a /\ Numbers!Abs(b) = b
  BY <1>1 DEF Numbers!Abs
<1> QED BY <1>1, <1>2 DEF Numbers!Quot

LEMMA QuotOfNegative ==
  ASSUME NEW a \in Nat \ {0}, NEW b \in Nat \ {0}
  PROVE  Numbers!Quot(-a, b) = -(a \div b)
<1>1. -a < 0 /\ ~(b < 0)
  OBVIOUS
<1>2. Numbers!Abs(-a) = a /\ Numbers!Abs(b) = b
  BY <1>1 DEF Numbers!Abs
<1>3. (-a < 0) # (b < 0)
  BY <1>1
<1> QED BY <1>2, <1>3 DEF Numbers!Quot

\* The whole part and the rest make the number up, and have its sign.
LEMMA QuotAndRem ==
  ASSUME NEW a \in Int, NEW b \in Nat \ {0}
  PROVE  /\ Numbers!Quot(a, b) \in Int /\ Numbers!Rem(a, b) \in Int
         /\ b * Numbers!Quot(a, b) \in Int
         /\ a = b * Numbers!Quot(a, b) + Numbers!Rem(a, b)
         /\ a >= 0 => Numbers!Quot(a, b) >= 0 /\ 0 <= Numbers!Rem(a, b) /\ Numbers!Rem(a, b) < b
         /\ a <= 0 => Numbers!Quot(a, b) <= 0 /\ -b < Numbers!Rem(a, b) /\ Numbers!Rem(a, b) <= 0
<1>2. CASE a >= 0
  <2>0. PICK q \in Nat, r \in Nat :
          a \div b = q /\ r < b /\ b * q \in Nat /\ a = b * q + r
    BY <1>2, Divides
  <2> DEFINE p == b * q
  <2>1. q \in Nat /\ p \in Nat /\ r \in Nat /\ r < b /\ a = p + r
    BY <2>0
  <2>2. Numbers!Quot(a, b) = q
    BY <1>2, <2>0, QuotOfNat
  <2>3. Numbers!Rem(a, b) = a - p
    BY <2>2 DEF Numbers!Rem
  <2>4. b * Numbers!Quot(a, b) = p
    BY <2>2
  <2>5. a = 0 => q = 0
    <3>1. ASSUME a = 0, q >= 1 PROVE FALSE
      <4>1. b * q >= b
        BY <2>1, <3>1
      <4> HIDE DEF p
      <4>2. p >= b
        BY <4>1 DEF p
      <4> QED BY <2>1, <3>1, <4>2
    <3> QED BY <2>1, <3>1
  <2> HIDE DEF p
  <2>6. Numbers!Rem(a, b) = r
    BY <2>1, <2>3
  <2>7. a <= 0 => q <= 0 /\ -b < r /\ r <= 0
    BY <1>2, <2>1, <2>5
  <2> QED BY <1>2, <2>1, <2>2, <2>4, <2>6, <2>7
<1>3. CASE a < 0
  <2> DEFINE m == -a
  <2>1. m \in Nat \ {0} /\ a = -m
    BY <1>3
  <2> HIDE DEF m
  <2>0. PICK q \in Nat, r \in Nat :
          m \div b = q /\ r < b /\ b * q \in Nat /\ m = b * q + r
    BY <2>1, Divides
  <2> DEFINE p == b * q
  <2>2. q \in Nat /\ p \in Nat /\ r \in Nat /\ r < b /\ m = p + r
    BY <2>0
  <2>3. Numbers!Quot(a, b) = -q
    BY <2>0, <2>1, QuotOfNegative
  <2>4. b * Numbers!Quot(a, b) = -p
    BY <2>2, <2>3
  <2>5. Numbers!Rem(a, b) = a - (-p)
    BY <2>4 DEF Numbers!Rem
  <2> HIDE DEF p
  <2>6. Numbers!Rem(a, b) = -r
    BY <2>1, <2>2, <2>5
  <2> QED BY <1>3, <2>1, <2>2, <2>3, <2>4, <2>6
<1> QED BY <1>2, <1>3
-----------------------------------------------------------------------------
(* Induction on numbers, from the least element of a set of them.          *)

LEMMA LessIsWellFounded == IsWellFoundedOn({p \in Nat \X Nat : p[1] < p[2]}, Nat)
  BY NatLessThanWellFounded DEF OpToRel

LEMMA Least ==
  ASSUME NEW T \in SUBSET Nat, T # {}
  PROVE  \E n \in T : \A m \in T : n <= m
<1> DEFINE R == {p \in Nat \X Nat : p[1] < p[2]}
<1>1. IsWellFoundedOn(R, Nat)
  BY LessIsWellFounded
<1>2. \A m, n \in Nat : m < n => <<m, n>> \in R
  OBVIOUS
<1> HIDE DEF R
<1>3. \E n \in T : \A m \in T : ~(<<m, n>> \in R)
  BY <1>1, WFMin
<1>4. \A m, n \in T : m \in Nat /\ n \in Nat
  OBVIOUS
<1>5. ASSUME NEW n \in T, NEW m \in T, ~(<<m, n>> \in R) PROVE n <= m
  BY <1>2, <1>4, <1>5
<1> QED BY <1>3, <1>5

LEMMA SetInduction ==
  ASSUME NEW T, 0 \in T, \A n \in Nat : n \in T => n + 1 \in T
  PROVE  Nat \subseteq T
<1> DEFINE Out == {n \in Nat : n \notin T}
<1> SUFFICES ASSUME Out # {} PROVE FALSE
  OBVIOUS
<1>1. PICK n \in Out : \A m \in Out : n <= m
  BY Least
<1>2. n \in Nat /\ n # 0
  OBVIOUS
<1>3. n - 1 \in Nat /\ n - 1 \notin Out
  BY <1>1, <1>2
<1>4. (n - 1) + 1 = n
  BY <1>2
<1> QED BY <1>1, <1>3, <1>4

\* What a recursive function computes: a start and a step for every number.
Computes(f, n, a, h) == f[0] = a /\ \A i \in 1..n : f[i] = h[i][f[i - 1]]

LEMMA Recursion ==
  ASSUME NEW S, NEW n \in Nat, NEW a \in S, NEW h \in [1..n -> [S -> S]]
  PROVE  \E f \in [0..n -> S] : Computes(f, n, a, h)
<1> DEFINE T == {m \in Nat : m <= n => \E f \in [0..m -> S] : Computes(f, m, a, h)}
<1>1. 0 \in T
  <2>1. [i \in 0..0 |-> a] \in [0..0 -> S] /\ Computes([i \in 0..0 |-> a], 0, a, h)
    BY DEF Computes
  <2> QED BY <2>1
<1>2. ASSUME NEW m \in Nat, m \in T PROVE m + 1 \in T
  <2> SUFFICES ASSUME m + 1 <= n PROVE \E f \in [0..(m + 1) -> S] : Computes(f, m + 1, a, h)
    OBVIOUS
  <2>1. PICK f \in [0..m -> S] : Computes(f, m, a, h)
    BY <1>2
  <2> DEFINE g == [i \in 0..(m + 1) |-> IF i = m + 1 THEN h[m + 1][f[m]] ELSE f[i]]
  <2>2. m + 1 \in 1..n /\ f[m] \in S /\ h[m + 1] \in [S -> S]
    OBVIOUS
  <2>3. g \in [0..(m + 1) -> S]
    BY <2>2
  <2>4. g[0] = a
    BY <2>1 DEF Computes
  <2>5. ASSUME NEW i \in 1..(m + 1) PROVE g[i] = h[i][g[i - 1]]
    <3>1. CASE i = m + 1
      BY <3>1
    <3>2. CASE i # m + 1
      <4>1. i \in 1..m /\ i - 1 \in 0..m /\ g[i] = f[i] /\ g[i - 1] = f[i - 1]
        BY <3>2
      <4> QED BY <2>1, <4>1 DEF Computes
    <3> QED BY <3>1, <3>2
  <2> HIDE DEF g
  <2> QED BY <2>3, <2>4, <2>5 DEF Computes
<1> HIDE DEF T
<1>3. Nat \subseteq T
  BY <1>1, <1>2, SetInduction
<1> QED BY <1>3 DEF T

GoAlike(f, g, n) == f[0] = g[0] /\ \A i \in 1..n : f[i - 1] = g[i - 1] => f[i] = g[i]

LEMMA SameSoFar ==
  ASSUME NEW n \in Nat, NEW f, NEW g, GoAlike(f, g, n)
  PROVE  \A i \in 0..n : f[i] = g[i]
<1> DEFINE T == {m \in Nat : m <= n => f[m] = g[m]}
<1>1. 0 \in T
  BY DEF GoAlike
<1>2. ASSUME NEW m \in Nat, m \in T PROVE m + 1 \in T
  <2> SUFFICES ASSUME m + 1 <= n PROVE f[m + 1] = g[m + 1]
    OBVIOUS
  <2>1. m + 1 \in 1..n /\ (m + 1) - 1 = m /\ f[m] = g[m]
    BY <1>2
  <2> QED BY <2>1 DEF GoAlike
<1> HIDE DEF T
<1>3. Nat \subseteq T
  BY <1>1, <1>2, SetInduction
<1> QED BY <1>3 DEF T

-----------------------------------------------------------------------------
(* Powers of the radix.                                                    *)

LEMMA TimesNat == \A x, y \in Nat : x * y \in Nat
OBVIOUS

LEMMA TimesPositive == \A x, y \in Nat \ {0} : x * y \in Nat \ {0}
OBVIOUS

\* The powers of the radix, one from another.
LEMMA PowIs ==
  ASSUME NEW n \in Nat
  PROVE  \E c \in [0..n -> Nat \ {0}] :
           /\ Numbers!Pow(n) = c[n] /\ c[0] = 1
           /\ \A i \in 1..n : c[i] = Radix * c[i - 1]
<1> DEFINE S == Nat \ {0}
           h == [i \in 1..n |-> [t \in S |-> Radix * t]]
           K(f) == [i \in 0..n |-> IF i = 0 THEN 1 ELSE Radix * f[i - 1]]
           Goes(f) == f[0] = 1 /\ \A i \in 1..n : f[i] = Radix * f[i - 1]
           c == CHOOSE f : f = K(f)
<1>2. 1 \in S /\ h \in [1..n -> [S -> S]]
  <2>1. Radix \in S
    BY RadixIs
  <2>2. \A t \in S : Radix * t \in S
    BY <2>1, TimesPositive
  <2> HIDE DEF S
  <2> QED BY <2>2 DEF S
<1>3. PICK f \in [0..n -> S] : Computes(f, n, 1, h)
  <2> HIDE DEF h, S
  <2> QED BY <1>2, Recursion
<1>4. \A i \in 1..n : i \in 0..n /\ i # 0 /\ i - 1 \in 0..n
  OBVIOUS
<1>5. Goes(f)
  <2> HIDE DEF S
  <2>1. \A i \in 1..n : f[i - 1] \in S
    BY <1>4
  <2> QED BY <1>3, <2>1 DEF Computes
<1>6. f = K(f)
  <2> HIDE DEF S
  <2>1. \A i \in 0..n : i # 0 => i \in 1..n
    OBVIOUS
  <2>2. \A i \in 0..n : f[i] = K(f)[i]
    BY <1>5, <2>1
  <2>3. f = [i \in 0..n |-> f[i]]
    OBVIOUS
  <2> QED BY <2>2, <2>3
<1>7. c = K(c)
  BY <1>6
<1>8. ASSUME NEW g, g = K(g) PROVE g = f
  <2> HIDE DEF S
  <2>1. g[0] = 1
    BY <1>8
  <2>2. Goes(g) /\ g = [i \in 0..n |-> g[i]]
    BY <1>4, <1>8, <2>1
  <2>3. GoAlike(f, g, n)
    BY <1>5, <2>2 DEF GoAlike
  <2>5. \A i \in 0..n : f[i] = g[i]
    BY <2>3, SameSoFar
  <2> QED BY <2>2, <2>5
<1>9. c = f
  <2> HIDE DEF c, K
  <2> QED BY <1>7, <1>8
<1>10. Numbers!Pow(n) = c[n]
  BY DEF Numbers!Pow
<1> QED
  <2> HIDE DEF c
  <2> QED BY <1>5, <1>9, <1>10

LEMMA PowOfNone == Numbers!Pow(0) = 1
<1>1. PICK c \in [0..0 -> Nat \ {0}] : Numbers!Pow(0) = c[0] /\ c[0] = 1
  BY PowIs
<1> QED BY <1>1

LEMMA PowOfMore ==
  ASSUME NEW n \in Nat
  PROVE  /\ Numbers!Pow(n) \in Nat \ {0} /\ Numbers!Pow(n + 1) \in Nat \ {0}
         /\ Numbers!Pow(n + 1) = Radix * Numbers!Pow(n)
<1>1. PICK c \in [0..n -> Nat \ {0}] :
        /\ Numbers!Pow(n) = c[n] /\ c[0] = 1
        /\ \A i \in 1..n : c[i] = Radix * c[i - 1]
  BY PowIs
<1>2. PICK d \in [0..(n + 1) -> Nat \ {0}] :
        /\ Numbers!Pow(n + 1) = d[n + 1] /\ d[0] = 1
        /\ \A i \in 1..(n + 1) : d[i] = Radix * d[i - 1]
  <2>1. n + 1 \in Nat
    OBVIOUS
  <2> QED BY <2>1, PowIs
<1>3. GoAlike(c, d, n)
  BY <1>1, <1>2 DEF GoAlike
<1>4. c[n] = d[n]
  BY <1>3, SameSoFar
<1>5. n + 1 \in 1..(n + 1) /\ (n + 1) - 1 = n
  OBVIOUS
<1>6. d[n + 1] = Radix * d[n]
  BY <1>2, <1>5
<1>7. d[n + 1] \in Nat \ {0} /\ c[n] \in Nat \ {0}
  OBVIOUS
<1> QED BY <1>1, <1>2, <1>4, <1>6, <1>7

LEMMA PowType == \A n \in Nat : Numbers!Pow(n) \in Nat \ {0}
BY PowOfMore

\* A number of digits after another.
LEMMA PowOfSum ==
  \A m, n \in Nat : Numbers!Pow(m + n) = Numbers!Pow(m) * Numbers!Pow(n)
<1> SUFFICES ASSUME NEW m \in Nat
             PROVE  \A n \in Nat : Numbers!Pow(m + n) = Numbers!Pow(m) * Numbers!Pow(n)
  OBVIOUS
<1> DEFINE T == {n \in Nat : Numbers!Pow(m + n) = Numbers!Pow(m) * Numbers!Pow(n)}
<1>1. 0 \in T
  <2>1. Numbers!Pow(m) * 1 = Numbers!Pow(m) /\ m + 0 = m
    BY PowType
  <2> QED BY <2>1, PowOfNone
<1>2. ASSUME NEW n \in Nat, n \in T PROVE n + 1 \in T
  <2> DEFINE p == Numbers!Pow(m)  q == Numbers!Pow(n)  r == Numbers!Pow(m + n)
  <2>1. m + n \in Nat /\ m + (n + 1) = (m + n) + 1
    OBVIOUS
  <2>2. Numbers!Pow(m + (n + 1)) = Radix * r
    BY <2>1, PowOfMore
  <2>3. Numbers!Pow(n + 1) = Radix * q
    BY PowOfMore
  <2>4. p \in Int /\ q \in Int /\ Radix \in Int /\ r = p * q
    BY <1>2, PowType, RadixIs
  <2> HIDE DEF p, q, r
  <2>5. Radix * (p * q) = p * (Radix * q)
    BY <2>4
  <2> QED BY <2>2, <2>3, <2>4, <2>5 DEF p, q, r
<1> HIDE DEF T
<1>3. Nat \subseteq T
  BY <1>1, <1>2, SetInduction
<1> QED BY <1>3 DEF T

\* The radix is even.
LEMMA PowIsEven ==
  ASSUME NEW n \in Nat \ {0}
  PROVE  /\ Numbers!Pow(n) \div 2 \in Nat /\ Numbers!Pow(n) >= 4
         /\ Numbers!Pow(n) = 2 * (Numbers!Pow(n) \div 2)
<1> DEFINE q == Numbers!Pow(n - 1)
           p == Numbers!Pow(n)
           h == Radix \div 2
           k == h * q
<1>1. n - 1 \in Nat /\ (n - 1) + 1 = n
  OBVIOUS
<1>2. p = Radix * q /\ q \in Nat \ {0} /\ p \in Nat
  BY <1>1, PowOfMore
<1>3. h \in Nat /\ Radix = 2 * h /\ h >= 2
  BY RadixIs
<1> HIDE DEF q, p, h
<1>4. k \in Nat /\ p = 2 * k
  BY <1>2, <1>3
<1>5. k >= 2
  <2>1. h * q >= h
    BY <1>2, <1>3
  <2> HIDE DEF k
  <2>2. k >= h
    BY <2>1 DEF k
  <2> QED BY <1>3, <1>4, <2>2
<1> HIDE DEF k
<1>6. p \div 2 = k /\ p >= 4
  BY <1>4, <1>5
<1> QED BY <1>4, <1>6 DEF p

-----------------------------------------------------------------------------
(* Quotients.                                                              *)

LEMMA DivScales ==
  ASSUME NEW a \in Nat, NEW b \in Nat \ {0}, NEW c \in Nat \ {0}
  PROVE  (c * a) \div (c * b) = a \div b /\ a \div b \in Nat
<1> DEFINE x == c * a
           y == c * b
<1>1. x \in Nat /\ y \in Nat \ {0}
  BY TimesPositive
<1>2. PICK q \in Nat, r \in Nat : a \div b = q /\ a % b = r /\ r < b /\ b * q \in Nat /\ a = b * q + r
  BY Divides
<1>3. PICK k \in Nat, s \in Nat : x \div y = k /\ x % y = s /\ s < y /\ y * k \in Nat /\ x = y * k + s
  <2> HIDE DEF x, y
  <2> QED BY <1>1, Divides
<1> DEFINE t == c * r
           m == b * q
           z == y * (k - q)
<1>4. t \in Nat /\ t < y
  <2>1. r \in Nat /\ b \in Nat /\ c \in Nat /\ c > 0 /\ r + 1 <= b
    BY <1>2
  <2>2. c * (r + 1) <= c * b
    BY <2>1
  <2>3. c * (r + 1) = t + c
    BY <2>1
  <2>4. t \in Nat
    BY <2>1
  <2> HIDE DEF t, y
  <2> QED BY <1>1, <2>1, <2>2, <2>3, <2>4 DEF y
<1>5. x = y * q + t
  <2>1. c * (m + r) = c * m + c * r
    BY <1>2
  <2>2. c * m = y * q
    BY <1>2
  <2> HIDE DEF y, t
  <2> QED BY <1>2, <2>1, <2>2 DEF t
<1>6. z = t - s
  <2>1. z = y * k - y * q /\ y * k \in Int /\ y * q \in Int
    <3> HIDE DEF y
    <3> QED BY <1>1, <1>2, <1>3
  <2> DEFINE u == y * k  v == y * q
  <2>2. z = u - v /\ u \in Int /\ v \in Int /\ x = v + t /\ x = u + s
    BY <1>3, <1>5, <2>1
  <2> HIDE DEF u, v, t, x, y, z
  <2> QED BY <1>3, <1>4, <2>2
<1>7. -y < z /\ z < y
  <2> HIDE DEF t, y, z
  <2> QED BY <1>1, <1>3, <1>4, <1>6
<1>8. k - q = 0
  <2>1. y \in Nat \ {0} /\ k - q \in Int
    BY <1>1, <1>2, <1>3
  <2>2. y * (k - q) < y /\ -y < y * (k - q)
    BY <1>7
  <2> HIDE DEF y
  <2> QED BY <2>1, <2>2, NoMultiple
<1>9. k = q
  BY <1>2, <1>3, <1>8
<1> QED BY <1>2, <1>3, <1>9

LEMMA AbsScales ==
  ASSUME NEW a \in Int, NEW c \in Nat \ {0}
  PROVE  /\ Numbers!Abs(c * a) = c * Numbers!Abs(a) /\ Numbers!Abs(a) \in Nat
         /\ (c * a < 0) = (a < 0) /\ c * a \in Int /\ (a # 0 => c * a # 0)
<1>1. CASE a < 0
  <2>1. c * a < 0 /\ -(c * a) = c * (-a)
    BY <1>1
  <2> QED BY <1>1, <2>1 DEF Numbers!Abs
<1>2. CASE a >= 0
  <2>1. c * a >= 0 /\ (a # 0 => c * a # 0)
    BY <1>2
  <2> QED BY <1>2, <2>1 DEF Numbers!Abs
<1> QED BY <1>1, <1>2

\* The quotient is that of the numbers, on whatever scale.
LEMMA QuotScales ==
  ASSUME NEW a \in Int, NEW b \in Int \ {0}, NEW c \in Nat \ {0}
  PROVE  /\ Numbers!Quot(c * a, c * b) = Numbers!Quot(a, b)
         /\ Numbers!Quot(a, b) \in Int /\ Numbers!Rem(a, b) \in Int
         /\ Numbers!Rem(c * a, c * b) = c * Numbers!Rem(a, b)
<1> DEFINE A == Numbers!Abs(a)  B == Numbers!Abs(b)  q == Numbers!Quot(a, b)
<1>1. /\ Numbers!Abs(c * a) = c * A /\ A \in Nat
      /\ Numbers!Abs(c * b) = c * B /\ B \in Nat \ {0}
      /\ (c * a < 0) = (a < 0) /\ (c * b < 0) = (b < 0)
  <2>1. B # 0
    BY DEF Numbers!Abs
  <2> HIDE DEF A, B
  <2> QED BY <2>1, AbsScales DEF A, B
<1>2. (c * A) \div (c * B) = A \div B /\ A \div B \in Nat
  <2> HIDE DEF A, B
  <2> QED BY <1>1, DivScales
<1>3. Numbers!Quot(c * a, c * b) = Numbers!Quot(a, b)
  <2>1. Numbers!Quot(c * a, c * b)
          = IF (a < 0) = (b < 0) THEN (c * A) \div (c * B) ELSE -((c * A) \div (c * B))
    <3> HIDE DEF A, B
    <3> QED BY <1>1 DEF Numbers!Quot
  <2>2. Numbers!Quot(a, b) = IF (a < 0) = (b < 0) THEN A \div B ELSE -(A \div B)
    BY DEF Numbers!Quot
  <2> HIDE DEF A, B
  <2> QED BY <1>2, <2>1, <2>2
<1>4. q \in Int
  <2>1. q = IF (a < 0) = (b < 0) THEN A \div B ELSE -(A \div B)
    BY DEF Numbers!Quot
  <2> HIDE DEF A, B, q
  <2> QED BY <1>2, <2>1
<1>5. Numbers!Rem(a, b) = a - b * q /\ Numbers!Rem(c * a, c * b) = c * a - (c * b) * q
  <2> HIDE DEF q
  <2> QED BY <1>3 DEF Numbers!Rem, q
<1> HIDE DEF q
<1>6. c * (a - b * q) = c * a - (c * b) * q /\ a - b * q \in Int
  BY <1>4
<1> QED BY <1>3, <1>4, <1>5, <1>6 DEF q

-----------------------------------------------------------------------------
(* Decimals in their one form.                                             *)

Numbered(d) ==
  /\ d = Numbers!Decimal(d.int, d.frac, d.scale)
  /\ d.int \in Int /\ d.frac \in Int /\ d.scale \in Nat

Form(d) ==
  /\ d = Numbers!Decimal(d.int, d.frac, d.scale)
  /\ d.int \in Int /\ d.frac \in Int /\ d.scale \in Nat
  /\ Numbers!Abs(d.frac) < Numbers!Pow(d.scale)
  /\ (d.int >= 0 /\ d.frac >= 0) \/ (d.int <= 0 /\ d.frac <= 0)

LEMMA FormIs == \A d : Form(d) <=> Numbered(d) /\ Numbers!InForm(d)
BY DEF Form, Numbered, Numbers!InForm, Numbers!OfOneSign

LEMMA SplitIs ==
  ASSUME NEW v \in Int, NEW s \in Nat
  PROVE  LET d == Numbers!Split(v, s) IN
         /\ Form(d) /\ d.scale = s /\ Numbers!ValueOf(d) = v
         /\ d.int = Numbers!Quot(v, Numbers!Pow(s)) /\ d.frac = Numbers!Rem(v, Numbers!Pow(s))
<1> DEFINE p == Numbers!Pow(s)  i == Numbers!Quot(v, p)  f == Numbers!Rem(v, p)
           m == p * i  d == Numbers!Split(v, s)
<1>1. p \in Nat \ {0}
  BY PowType
<1>2. /\ i \in Int /\ f \in Int /\ m \in Int /\ v = m + f
      /\ v >= 0 => i >= 0 /\ 0 <= f /\ f < p
      /\ v <= 0 => i <= 0 /\ -p < f /\ f <= 0
  <2> HIDE DEF p
  <2> QED BY <1>1, QuotAndRem
<1>3. ~(f >= p)
  <2> HIDE DEF p, f, i
  <2> QED BY <1>1, <1>2
<1>4. d = Numbers!Decimal(i, f, s)
  <2>1. d = Numbers!OfTuple(i, f, s)
    BY DEF Numbers!Split
  <2> HIDE DEF d, i, f
  <2> QED BY <1>3, <2>1 DEF Numbers!OfTuple
<1>5. d.int = i /\ d.frac = f /\ d.scale = s
  <2> HIDE DEF d, i, f
  <2> QED BY <1>4 DEF Numbers!Decimal
<1>6. Numbers!Abs(f) < p
  <2> HIDE DEF f, p, i
  <2> QED BY <1>1, <1>2 DEF Numbers!Abs
<1>7. i * p = m
  <2> HIDE DEF i, p
  <2> QED BY <1>1, <1>2
<1>8. Numbers!ValueOf(d) = v
  <2>1. Numbers!ValueOf(d) = i * p + f
    <3> HIDE DEF d, i, f
    <3> QED BY <1>5 DEF Numbers!ValueOf
  <2> HIDE DEF i, f, m, d, p
  <2> QED BY <1>2, <1>7, <2>1
<1>9. (i >= 0 /\ f >= 0) \/ (i <= 0 /\ f <= 0)
  <2> HIDE DEF i, f
  <2> QED BY <1>2
<1> HIDE DEF d, i, f, p
<1> QED BY <1>1, <1>2, <1>4, <1>5, <1>6, <1>8, <1>9 DEF Form, d, p, i, f

\* What the parts say of the number.
LEMMA FormHas ==
  ASSUME NEW d, Form(d)
  PROVE  LET v == Numbers!ValueOf(d) IN
         /\ v \in Int /\ d.int * d.frac >= 0
         /\ (v = 0) = (d.int = 0 /\ d.frac = 0)
         /\ (v < 0) = (d.int < 0 \/ d.frac < 0)
         /\ (v < 0) = (d.int < 0 \/ (d.int = 0 /\ d.frac < 0))
<1> DEFINE p == Numbers!Pow(d.scale)  i == d.int  f == d.frac  m == i * p  v == Numbers!ValueOf(d)
<1>1. p \in Nat \ {0} /\ i \in Int /\ f \in Int /\ Numbers!Abs(f) < p
  BY PowType DEF Form
<1>2. (i >= 0 /\ f >= 0) \/ (i <= 0 /\ f <= 0)
  BY DEF Form
<1>3. -p < f /\ f < p
  <2> HIDE DEF p, f
  <2> QED BY <1>1 DEF Numbers!Abs
<1>4. v = m + f
  BY DEF Numbers!ValueOf
<1> HIDE DEF p, i, f, v
<1>5. m \in Int /\ (i = 0 => m = 0) /\ (i >= 1 => m >= p) /\ (i <= -1 => m <= -p)
  <2>1. i >= 1 => i * p >= p
    BY <1>1
  <2>2. i <= -1 => i * p <= -p
    BY <1>1
  <2> QED BY <1>1, <2>1, <2>2
<1>6. i * f >= 0
  BY <1>1, <1>2
<1> HIDE DEF m
<1>7. /\ v \in Int /\ (v = 0) = (i = 0 /\ f = 0) /\ (v < 0) = (i < 0 \/ f < 0)
      /\ (v < 0) = (i < 0 \/ (i = 0 /\ f < 0))
  BY <1>1, <1>2, <1>3, <1>4, <1>5
<1> QED BY <1>6, <1>7 DEF i, f, v

-----------------------------------------------------------------------------
(* The arithmetic.                                                         *)

\* A decimal stands for a number, written with no more digits than it has.
StandsFor(d, n, scale) ==
  /\ Form(d) /\ n \in Int /\ scale \in Nat /\ scale <= d.scale
  /\ Numbers!ValueOf(d) = n * Numbers!Pow(d.scale - scale)

LEMMA ValueType == \A d : Form(d) => Numbers!ValueOf(d) \in Int /\ d.scale \in Nat
BY FormHas DEF Form

LEMMA StandsForItself ==
  ASSUME NEW d, Form(d)
  PROVE  StandsFor(d, Numbers!ValueOf(d), d.scale)
<1>1. Numbers!ValueOf(d) \in Int /\ d.scale \in Nat /\ d.scale - d.scale = 0
  BY ValueType
<1>2. Numbers!ValueOf(d) * 1 = Numbers!ValueOf(d)
  BY <1>1
<1> QED BY <1>1, <1>2, PowOfNone DEF StandsFor

\* The same, whatever form the parts have.
Means(d, n, scale) ==
  /\ Numbered(d) /\ n \in Int /\ scale \in Nat /\ scale <= d.scale
  /\ Numbers!ValueOf(d) = n * Numbers!Pow(d.scale - scale)

LEMMA StandsForIs == \A d, n, o : StandsFor(d, n, o) <=> Form(d) /\ Means(d, n, o)
BY FormIs DEF StandsFor, Means

LEMMA MeansItself ==
  \A d : Numbered(d) => Numbers!ValueOf(d) \in Int /\ Means(d, Numbers!ValueOf(d), d.scale)
<1> SUFFICES ASSUME NEW d, Numbered(d)
             PROVE  Numbers!ValueOf(d) \in Int /\ Means(d, Numbers!ValueOf(d), d.scale)
  OBVIOUS
<1> DEFINE p == Numbers!Pow(d.scale)  v == Numbers!ValueOf(d)  i == d.int  f == d.frac
<1>1. p \in Nat /\ i \in Int /\ f \in Int /\ d.scale \in Nat
  BY PowType DEF Numbered
<1>2. v = i * p + f
  BY DEF Numbers!ValueOf
<1> HIDE DEF p, v, i, f
<1>3. v \in Int
  BY <1>1, <1>2
<1>4. v * 1 = v /\ d.scale - d.scale = 0 /\ d.scale <= d.scale
  BY <1>1, <1>3
<1> QED BY <1>1, <1>3, <1>4, PowOfNone DEF Means, v

\* A number is scaled in one step or in two.
TwoSteps(n, a, b, c) ==
  /\ (n * Numbers!Pow(b - a)) * Numbers!Pow(c - b) = n * Numbers!Pow(c - a)
  /\ n * Numbers!Pow(b - a) \in Int /\ n * Numbers!Pow(c - a) \in Int

LEMMA PowOfParts ==
  \A n \in Int : \A a, b, c \in Nat : a <= b /\ b <= c => TwoSteps(n, a, b, c)
<1> SUFFICES ASSUME NEW a \in Nat, NEW b \in Nat, NEW c \in Nat, a <= b, b <= c, NEW n \in Int
             PROVE  TwoSteps(n, a, b, c)
  OBVIOUS
<1> DEFINE p == Numbers!Pow(b - a)  q == Numbers!Pow(c - b)  r == Numbers!Pow(c - a)
<1>1. b - a \in Nat /\ c - b \in Nat /\ (b - a) + (c - b) = c - a /\ c - a \in Nat
  OBVIOUS
<1>2. r = p * q /\ p \in Int /\ q \in Int /\ r \in Int
  BY <1>1, PowOfSum, PowType
<1> HIDE DEF p, q, r
<1>3. (n * p) * q = n * r /\ n * p \in Int /\ n * r \in Int
  BY <1>2
<1> QED BY <1>3 DEF p, q, r, TwoSteps

LEMMA AlignedIs ==
  ASSUME NEW d, NEW n, NEW scale, Means(d, n, scale), NEW s \in Nat, d.scale <= s
  PROVE  Numbers!Aligned(d, s) = n * Numbers!Pow(s - scale) /\ n * Numbers!Pow(s - scale) \in Int
<1>1. /\ n \in Int /\ scale \in Nat /\ d.scale \in Nat /\ scale <= d.scale
      /\ Numbers!ValueOf(d) = n * Numbers!Pow(d.scale - scale)
  BY DEF Means, Numbered
<1>2. Numbers!Aligned(d, s) = (n * Numbers!Pow(d.scale - scale)) * Numbers!Pow(s - d.scale)
  BY <1>1 DEF Numbers!Aligned
<1>3. TwoSteps(n, scale, d.scale, s)
  BY <1>1, PowOfParts
<1> QED BY <1>2, <1>3 DEF TwoSteps

LEMMA LargerIs ==
  \A a, b \in Nat : /\ Numbers!Larger(a, b) \in {a, b} /\ Numbers!Larger(a, b) \in Nat
                    /\ Numbers!Larger(a, b) >= a /\ Numbers!Larger(a, b) >= b
BY DEF Numbers!Larger

\* Two decimals on one scale are a multiple of the numbers on theirs.
LEMMA OnOneScale ==
  ASSUME NEW d, NEW n, NEW o, Means(d, n, o), NEW b, Form(b)
  PROVE  LET S == Numbers!Larger(d.scale, b.scale)
             s == Numbers!Larger(o, b.scale)
             v == n * Numbers!Pow(s - o)
             w == Numbers!ValueOf(b) * Numbers!Pow(s - b.scale)
             c == Numbers!Pow(S - s)
         IN /\ S \in Nat /\ s \in Nat /\ s <= S /\ c \in Nat \ {0} /\ v \in Int /\ w \in Int
            /\ Numbers!Aligned(d, S) = v * c /\ Numbers!Aligned(b, S) = w * c
            /\ Numbers!ValueOf(b) # 0 => w # 0
<1> DEFINE S == Numbers!Larger(d.scale, b.scale)
           s == Numbers!Larger(o, b.scale)
           x == Numbers!ValueOf(b)
           v == n * Numbers!Pow(s - o)
           w == x * Numbers!Pow(s - b.scale)
           c == Numbers!Pow(S - s)
<1>1. /\ n \in Int /\ o \in Nat /\ o <= d.scale /\ d.scale \in Nat /\ b.scale \in Nat
      /\ x \in Int
  BY ValueType DEF Means, Numbered, Form
<1>2. /\ S \in Nat /\ s \in Nat /\ s <= S /\ d.scale <= S /\ b.scale <= S /\ o <= s /\ b.scale <= s
  <2>1. S \in {d.scale, b.scale} /\ S \in Nat /\ S >= d.scale /\ S >= b.scale
    BY <1>1, LargerIs
  <2>2. s \in {o, b.scale} /\ s \in Nat /\ s >= o /\ s >= b.scale
    BY <1>1, LargerIs
  <2> HIDE DEF S, s
  <2> QED BY <1>1, <2>1, <2>2
<1>3. Numbers!Aligned(d, S) = n * Numbers!Pow(S - o)
  <2> HIDE DEF S
  <2> QED BY <1>2, AlignedIs
<1>4. Numbers!Aligned(b, S) = x * Numbers!Pow(S - b.scale)
  <2>1. Means(b, x, b.scale)
    BY FormIs, MeansItself
  <2> HIDE DEF S, x
  <2> QED BY <1>2, <2>1, AlignedIs
<1> HIDE DEF S, s, x
<1>5. v * c = n * Numbers!Pow(S - o) /\ v \in Int
  <2>1. TwoSteps(n, o, s, S)
    BY <1>1, <1>2, PowOfParts
  <2> QED BY <2>1 DEF TwoSteps
<1>6. w * c = x * Numbers!Pow(S - b.scale) /\ w \in Int
  <2>1. TwoSteps(x, b.scale, s, S)
    BY <1>1, <1>2, PowOfParts
  <2> QED BY <2>1 DEF TwoSteps
<1>7. c \in Nat \ {0} /\ Numbers!Pow(s - b.scale) \in Nat \ {0}
  <2>1. S - s \in Nat /\ s - b.scale \in Nat
    BY <1>1, <1>2
  <2> QED BY <2>1, PowType
<1>8. x # 0 => w # 0
  <2> DEFINE p == Numbers!Pow(s - b.scale)
  <2>1. p \in Nat \ {0} /\ x \in Int
    BY <1>1, <1>7
  <2> HIDE DEF p
  <2>2. x # 0 => x * p # 0
    BY <2>1
  <2> QED BY <2>2 DEF p
<1> HIDE DEF v, w, c
<1> QED BY <1>2, <1>3, <1>4, <1>5, <1>6, <1>7, <1>8 DEF S, s, x, v, w, c

Scaled(v, s, n, o) ==
  /\ v \in Int /\ s \in Nat /\ n \in Int /\ o \in Nat /\ o <= s
  /\ v = n * Numbers!Pow(s - o)

LEMMA SplitStands ==
  ASSUME NEW v, NEW s, NEW n, NEW o, Scaled(v, s, n, o)
  PROVE  StandsFor(Numbers!Split(v, s), n, o)
<1> DEFINE d == Numbers!Split(v, s)
<1>1. Form(d) /\ d.scale = s /\ Numbers!ValueOf(d) = v
  BY SplitIs DEF Scaled
<1> HIDE DEF d
<1>2. StandsFor(d, n, o)
  BY <1>1 DEF StandsFor, Scaled
<1> QED BY <1>2 DEF d

LEMMA SumStands ==
  ASSUME NEW d, NEW n, NEW o, Means(d, n, o), NEW b, Form(b), Numbers!ValueOf(b) # 0
  PROVE  LET s == Numbers!Larger(o, b.scale)
             v == n * Numbers!Pow(s - o)
             w == Numbers!ValueOf(b) * Numbers!Pow(s - b.scale)
         IN /\ StandsFor(Numbers!Add(d, b), v + w, s)
            /\ StandsFor(Numbers!Sub(d, b), v - w, s)
            /\ StandsFor(Numbers!Mod(d, b), Numbers!Rem(v, w), s)
<1> DEFINE S == Numbers!Larger(d.scale, b.scale)
           s == Numbers!Larger(o, b.scale)
           v == n * Numbers!Pow(s - o)
           w == Numbers!ValueOf(b) * Numbers!Pow(s - b.scale)
           c == Numbers!Pow(S - s)
           x == Numbers!Aligned(d, S)
           y == Numbers!Aligned(b, S)
<1>1. /\ S \in Nat /\ s \in Nat /\ s <= S /\ c \in Nat \ {0} /\ v \in Int /\ w \in Int
      /\ x = v * c /\ y = w * c /\ w # 0
  BY OnOneScale
<1>2. /\ Numbers!Add(d, b) = Numbers!Split(x + y, S)
      /\ Numbers!Sub(d, b) = Numbers!Split(x - y, S)
      /\ Numbers!Mod(d, b) = Numbers!Split(Numbers!Rem(x, y), S)
  BY DEF Numbers!Add, Numbers!Sub, Numbers!Mod
<1> HIDE DEF S, s, v, w, x, y
<1>3. /\ x \in Int /\ y \in Int /\ x + y = (v + w) * c /\ x - y = (v - w) * c
      /\ x + y \in Int /\ x - y \in Int /\ v + w \in Int /\ v - w \in Int
  <2> HIDE DEF c
  <2> QED BY <1>1
<1>4. Numbers!Rem(x, y) = Numbers!Rem(v, w) * c /\ Numbers!Rem(v, w) \in Int
      /\ Numbers!Rem(x, y) \in Int
  <2> HIDE DEF c
  <2>1. x = c * v /\ y = c * w
    BY <1>1
  <2>2. Numbers!Rem(c * v, c * w) = c * Numbers!Rem(v, w) /\ Numbers!Rem(v, w) \in Int
    BY <1>1, QuotScales
  <2> DEFINE r == Numbers!Rem(v, w)
  <2>3. Numbers!Rem(x, y) = c * r /\ r \in Int
    BY <2>1, <2>2
  <2> HIDE DEF r
  <2>4. c * r = r * c /\ c * r \in Int
    BY <1>1, <2>3
  <2> QED BY <2>3, <2>4 DEF r
<1>5. StandsFor(Numbers!Split(x + y, S), v + w, s)
  <2>1. Scaled(x + y, S, v + w, s)
    BY <1>1, <1>3 DEF Scaled, c
  <2> QED BY <2>1, SplitStands
<1>6. StandsFor(Numbers!Split(x - y, S), v - w, s)
  <2>1. Scaled(x - y, S, v - w, s)
    BY <1>1, <1>3 DEF Scaled, c
  <2> QED BY <2>1, SplitStands
<1>7. StandsFor(Numbers!Split(Numbers!Rem(x, y), S), Numbers!Rem(v, w), s)
  <2>1. Scaled(Numbers!Rem(x, y), S, Numbers!Rem(v, w), s)
    BY <1>1, <1>4 DEF Scaled, c
  <2> QED BY <2>1, SplitStands
<1> QED BY <1>2, <1>5, <1>6, <1>7 DEF s, v, w

LEMMA ProductStands ==
  ASSUME NEW d, NEW n, NEW o, Means(d, n, o), NEW b, Form(b)
  PROVE  StandsFor(Numbers!Mul(d, b), n * Numbers!ValueOf(b), o + b.scale)
<1> DEFINE x == Numbers!ValueOf(d)  y == Numbers!ValueOf(b)  c == Numbers!Pow(d.scale - o)
           S == d.scale + b.scale
<1>1. /\ n \in Int /\ o \in Nat /\ o <= d.scale /\ d.scale \in Nat /\ b.scale \in Nat
      /\ y \in Int /\ x = n * c /\ d.scale - o \in Nat
  BY ValueType DEF Means, Numbered, Form
<1>2. c \in Nat \ {0}
  BY <1>1, PowType
<1>3. S \in Nat /\ o + b.scale \in Nat /\ o + b.scale <= S /\ S - (o + b.scale) = d.scale - o
  BY <1>1
<1>4. Numbers!Mul(d, b) = Numbers!Split(x * y, S)
  BY DEF Numbers!Mul
<1>5. x * y = (n * y) * Numbers!Pow(S - (o + b.scale)) /\ x * y \in Int /\ n * y \in Int
  <2>1. Numbers!Pow(S - (o + b.scale)) = c
    BY <1>3
  <2> HIDE DEF x, y, c, S
  <2>2. (n * c) * y = (n * y) * c /\ (n * c) * y \in Int /\ n * y \in Int
    BY <1>1, <1>2
  <2> QED BY <1>1, <2>1, <2>2
<1> HIDE DEF x, y, S
<1>6. StandsFor(Numbers!Split(x * y, S), n * y, o + b.scale)
  <2>1. Scaled(x * y, S, n * y, o + b.scale)
    BY <1>3, <1>5 DEF Scaled
  <2> QED BY <2>1, SplitStands
<1> QED BY <1>4, <1>6 DEF y

LEMMA QuotientStands ==
  ASSUME NEW d, NEW n, NEW o, Means(d, n, o), NEW b, Form(b), Numbers!CanDivide(d, b)
  PROVE  LET s == Numbers!Larger(o, b.scale)
             v == n * Numbers!Pow(s - o)
             w == Numbers!ValueOf(b) * Numbers!Pow(s - b.scale)
         IN StandsFor(Numbers!Div(d, b),
                      Numbers!Quot(v * Numbers!Pow(TargetScale), w), TargetScale)
<1> DEFINE s == Numbers!Larger(o, b.scale)
           y == Numbers!ValueOf(b)
           T == TargetScale
           v == n * Numbers!Pow(s - o)
           w == y * Numbers!Pow(s - b.scale)
           x == Numbers!ValueOf(d) * Numbers!Pow(T + b.scale - d.scale)
           z == v * Numbers!Pow(T)
           q == Numbers!Quot(x, y)
<1>1. /\ n \in Int /\ o \in Nat /\ o <= d.scale /\ d.scale \in Nat /\ b.scale \in Nat
      /\ y \in Int \ {0} /\ Numbers!ValueOf(d) = n * Numbers!Pow(d.scale - o)
      /\ T \in Nat /\ d.scale <= T + b.scale
  BY ValueType, RadixIs DEF Means, Numbered, Form, Numbers!CanDivide
<1>2. x = n * Numbers!Pow((T + b.scale) - o) /\ x \in Int
  <2>1. /\ T + b.scale \in Nat
        /\ x = (n * Numbers!Pow(d.scale - o)) * Numbers!Pow((T + b.scale) - d.scale)
    <3>1. T + b.scale - d.scale = (T + b.scale) - d.scale
      BY <1>1
    <3> QED BY <1>1, <3>1
  <2> HIDE DEF x, T
  <2>2. TwoSteps(n, o, d.scale, T + b.scale)
    BY <1>1, <2>1, PowOfParts
  <2> QED BY <2>1, <2>2 DEF TwoSteps
<1>3. s \in {o, b.scale} /\ s \in Nat /\ s >= o /\ s >= b.scale
  BY <1>1, LargerIs
<1>4. Numbers!Quot(z, w) = q /\ q \in Int
  <2>1. CASE o <= b.scale
    <3>1. s = b.scale /\ s - b.scale = 0 /\ (T + b.scale) - b.scale = T
      <4> HIDE DEF s, T
      <4> QED BY <1>1, <1>3, <2>1
    <3>2. w = y
      <4>1. Numbers!Pow(s - b.scale) = 1
        BY <3>1, PowOfNone
      <4>2. y * 1 = y
        BY <1>1
      <4> HIDE DEF y, s
      <4> QED BY <4>1, <4>2
    <3>3. z = x
      <4>1. T + b.scale \in Nat /\ b.scale <= T + b.scale
        BY <1>1
      <4>2. z = (n * Numbers!Pow(b.scale - o)) * Numbers!Pow((T + b.scale) - b.scale)
        BY <3>1
      <4> HIDE DEF z, x, T
      <4>3. TwoSteps(n, o, b.scale, T + b.scale)
        BY <1>1, <2>1, <4>1, PowOfParts
      <4> QED BY <1>2, <4>2, <4>3 DEF TwoSteps
    <3>4. Numbers!Quot(x, y) \in Int
      <4> HIDE DEF x, y
      <4> QED BY <1>1, <1>2, QuotScales
    <3> HIDE DEF z, w, x, y, q
    <3> QED BY <3>2, <3>3, <3>4 DEF q
  <2>2. CASE o > b.scale
    <3> DEFINE c == Numbers!Pow(o - b.scale)
    <3>1. s = o /\ s - o = 0 /\ o - b.scale \in Nat /\ o <= T + b.scale
      <4> HIDE DEF s, T
      <4> QED BY <1>1, <1>3, <2>2
    <3>2. w = c * y /\ c \in Nat \ {0}
      <4>1. c \in Nat \ {0} /\ w = y * c
        BY <3>1, PowType
      <4> HIDE DEF y, c, w
      <4> QED BY <1>1, <4>1
    <3>3. z = c * x
      <4> DEFINE p == Numbers!Pow((T + b.scale) - o)
      <4>1. z = n * Numbers!Pow(T)
        <5>1. n * 1 = n
          BY <1>1
        <5>2. Numbers!Pow(s - o) = 1
          BY <3>1, PowOfNone
        <5> HIDE DEF s
        <5> QED BY <5>1, <5>2
      <4>2. ((T + b.scale) - o) + (o - b.scale) = T /\ (T + b.scale) - o \in Nat
        BY <1>1, <3>1
      <4>3. Numbers!Pow(T) = p * c /\ p \in Nat
        BY <3>1, <4>2, PowOfSum, PowType
      <4> HIDE DEF c, p, z, x, T
      <4>4. n * (p * c) = c * (n * p)
        BY <1>1, <3>2, <4>3
      <4> QED BY <1>2, <4>1, <4>3, <4>4 DEF p
    <3> HIDE DEF z, w, x, y, c
    <3> QED BY <1>1, <1>2, <3>2, <3>3, QuotScales
  <2> QED BY <1>1, <2>1, <2>2
<1>5. Numbers!Div(d, b) = Numbers!Split(q, T)
  BY DEF Numbers!Div
<1>6. q * Numbers!Pow(T - T) = q
  <2>1. T - T = 0
    BY <1>1
  <2>2. q * 1 = q
    <3> HIDE DEF q
    <3> QED BY <1>4
  <2> HIDE DEF q, T
  <2> QED BY <2>1, <2>2, PowOfNone
<1> HIDE DEF q, z, w
<1>7. StandsFor(Numbers!Split(q, T), q, T)
  <2>1. Scaled(q, T, q, T)
    BY <1>1, <1>4, <1>6 DEF Scaled
  <2> QED BY <2>1, SplitStands
<1> QED BY <1>4, <1>5, <1>7 DEF z, w, v, y, s

\* The sign of the number and of its numerator.
LEMMA SignOf ==
  ASSUME NEW d, NEW n, NEW o, StandsFor(d, n, o)
  PROVE  LET v == Numbers!ValueOf(d) IN v \in Int /\ (v < 0) = (n < 0) /\ (v = 0) = (n = 0)
<1> DEFINE v == Numbers!ValueOf(d)  c == Numbers!Pow(d.scale - o)
<1>1. n \in Int /\ d.scale - o \in Nat /\ v = n * c
  BY DEF StandsFor, Form
<1>2. c \in Nat \ {0}
  BY <1>1, PowType
<1> HIDE DEF v, c
<1>3. /\ n * c \in Int /\ (n < 0 => n * c < 0) /\ (n > 0 => n * c > 0) /\ (n = 0 => n * c = 0)
  BY <1>1, <1>2
<1> DEFINE m == n * c
<1>4. m \in Int /\ (n < 0 => m < 0) /\ (n > 0 => m > 0) /\ (n = 0 => m = 0) /\ v = m
  BY <1>1, <1>3
<1> HIDE DEF m
<1>5. v \in Int /\ (v < 0) = (n < 0) /\ (v = 0) = (n = 0)
  BY <1>1, <1>4
<1> QED BY <1>5 DEF v

\* A decimal with its parts negated.
LEMMA OppositeStands ==
  ASSUME NEW d, NEW n, NEW o, StandsFor(d, n, o)
  PROVE  StandsFor(Numbers!OfTuple(-d.int, -d.frac, d.scale), -n, o)
<1> DEFINE p == Numbers!Pow(d.scale)  c == Numbers!Pow(d.scale - o)
           i == d.int  f == d.frac  e == Numbers!OfTuple(-i, -f, d.scale)
<1>1. /\ i \in Int /\ f \in Int /\ d.scale \in Nat /\ n \in Int /\ o \in Nat /\ o <= d.scale
      /\ Numbers!Abs(f) < p
      /\ (i >= 0 /\ f >= 0) \/ (i <= 0 /\ f <= 0)
      /\ i * p + f = n * c
  BY DEF StandsFor, Form, Numbers!ValueOf
<1>2. p \in Nat \ {0} /\ c \in Nat \ {0}
  <2>1. d.scale - o \in Nat
    BY <1>1
  <2> HIDE DEF i, f
  <2> QED BY <1>1, <2>1, PowType
<1>3. e = Numbers!Decimal(-i, -f, d.scale)
  <2>1. ~(-f >= p)
    <3>1. f \in Int /\ Numbers!Abs(f) < p /\ p \in Nat
      BY <1>1, <1>2
    <3> HIDE DEF p, i, f, c
    <3> QED BY <3>1 DEF Numbers!Abs
  <2> HIDE DEF i, f
  <2> QED BY <2>1 DEF Numbers!OfTuple
<1> HIDE DEF i, f, c
<1>4. e.int = -i /\ e.frac = -f /\ e.scale = d.scale /\ e = Numbers!Decimal(e.int, e.frac, e.scale)
  BY <1>3 DEF Numbers!Decimal
<1>5. Numbers!Abs(-f) = Numbers!Abs(f)
  BY <1>1 DEF Numbers!Abs
<1>6. (-i) * p + (-f) = (-n) * c
  <2> HIDE DEF p
  <2>1. (-i) * p = -(i * p) /\ (-n) * c = -(n * c) /\ i * p \in Int /\ n * c \in Int
    BY <1>1, <1>2
  <2> DEFINE x == i * p  y == n * c
  <2>2. x \in Int /\ y \in Int /\ x + f = y /\ (-i) * p = -x /\ (-n) * c = -y
    BY <1>1, <2>1
  <2> HIDE DEF x, y
  <2>3. -x + (-f) = -y
    BY <1>1, <2>2
  <2> QED BY <2>2, <2>3
<1>7. Numbers!ValueOf(e) = (-n) * c
  <2> HIDE DEF e
  <2> QED BY <1>4, <1>6 DEF Numbers!ValueOf
<1>8. /\ -i \in Int /\ -f \in Int /\ -n \in Int
      /\ (-i >= 0 /\ -f >= 0) \/ (-i <= 0 /\ -f <= 0)
  <2> HIDE DEF p
  <2> QED BY <1>1
<1> HIDE DEF e
<1>9. Form(e)
  <2>1. Numbers!Abs(e.frac) < Numbers!Pow(e.scale) /\ e.scale \in Nat
    BY <1>1, <1>4, <1>5
  <2>2. (e.int >= 0 /\ e.frac >= 0) \/ (e.int <= 0 /\ e.frac <= 0)
    BY <1>4, <1>8
  <2>3. e.int \in Int /\ e.frac \in Int
    BY <1>4, <1>8
  <2> HIDE DEF p
  <2> QED BY <1>4, <2>1, <2>2, <2>3 DEF Form
<1>10. StandsFor(e, -n, o)
  BY <1>1, <1>4, <1>7, <1>8, <1>9 DEF StandsFor, c
<1> QED BY <1>10 DEF e, i, f

LEMMA ChangesStand ==
  ASSUME NEW d, NEW n, NEW o, StandsFor(d, n, o)
  PROVE  /\ StandsFor(Numbers!Negated(d), -n, o)
         /\ StandsFor(Numbers!AbsOf(d), Numbers!Abs(n), o)
<1>1. StandsFor(Numbers!OfTuple(-d.int, -d.frac, d.scale), -n, o)
  BY OppositeStands
<1>2. Form(d) /\ d.int \in Int /\ d.frac \in Int /\ n \in Int
  BY DEF StandsFor, Form
<1>3. (n < 0) = (d.int < 0 \/ d.frac < 0)
  BY <1>2, SignOf, FormHas
<1>4. CASE n < 0
  <2>1. d.int <= 0 /\ d.frac <= 0
    BY <1>2, <1>3, <1>4 DEF Form
  <2>2. Numbers!Abs(d.int) = -d.int /\ Numbers!Abs(d.frac) = -d.frac /\ Numbers!Abs(n) = -n
    BY <1>2, <1>4, <2>1 DEF Numbers!Abs
  <2> QED BY <1>1, <1>3, <1>4, <2>2 DEF Numbers!Negated, Numbers!AbsOf
<1>5. CASE ~(n < 0)
  <2>1. Numbers!AbsOf(d) = d /\ Numbers!Abs(n) = n
    BY <1>3, <1>5 DEF Numbers!AbsOf, Numbers!Abs
  <2> QED BY <1>1, <2>1 DEF Numbers!Negated
<1> QED BY <1>4, <1>5

\* Numbers with a common positive factor compare as without it.
LEMMA OrderScales ==
  ASSUME NEW x \in Int, NEW y \in Int, NEW c \in Nat \ {0}
  PROVE  /\ x * c \in Int /\ y * c \in Int
         /\ (x * c < y * c) = (x < y) /\ (x * c > y * c) = (x > y) /\ (x * c = y * c) = (x = y)
<1> DEFINE z == x - y  w == z * c
<1>1. x * c \in Int /\ y * c \in Int /\ w = x * c - y * c
  BY DEF z
<1>2. z \in Int /\ (z > 0 => w > 0) /\ (z < 0 => w < 0) /\ (z = 0 => w = 0) /\ w \in Int
  <2>1. z \in Int
    OBVIOUS
  <2> HIDE DEF z
  <2> QED BY <2>1
<1> DEFINE p == x * c  q == y * c
<1>3. p \in Int /\ q \in Int /\ w = p - q /\ z = x - y
  BY <1>1
<1> HIDE DEF z, w, p, q
<1>4. (p < q) = (x < y) /\ (p > q) = (x > y) /\ (p = q) = (x = y)
  BY <1>2, <1>3
<1> QED BY <1>3, <1>4 DEF p, q

\* Comparing means the numbers.
LEMMA ComparesNumbers ==
  ASSUME NEW d, NEW n, NEW o, Means(d, n, o), NEW b, Form(b)
  PROVE  LET x == n * Numbers!Pow(b.scale) - Numbers!ValueOf(b) * Numbers!Pow(o)
         IN Numbers!Compare(d, b) = IF x < 0 THEN -1 ELSE IF x > 0 THEN 1 ELSE 0
<1> DEFINE S == Numbers!Larger(d.scale, b.scale)
           s == Numbers!Larger(o, b.scale)
           y == Numbers!ValueOf(b)
           v == n * Numbers!Pow(s - o)
           w == y * Numbers!Pow(s - b.scale)
           c == Numbers!Pow(S - s)
           k == n * Numbers!Pow(b.scale)
           l == y * Numbers!Pow(o)
<1>1. /\ n \in Int /\ o \in Nat /\ b.scale \in Nat /\ y \in Int
  BY ValueType DEF Means, Numbered, Form
<1>2. /\ s \in Nat /\ c \in Nat \ {0} /\ v \in Int /\ w \in Int
      /\ Numbers!Aligned(d, S) = v * c /\ Numbers!Aligned(b, S) = w * c
  BY OnOneScale
<1>3. /\ v * c \in Int /\ w * c \in Int
      /\ (v * c < w * c) = (v < w) /\ (v * c > w * c) = (v > w)
  <2> HIDE DEF v, w, c, s, S
  <2> QED BY <1>2, OrderScales
<1>4. Numbers!Compare(d, b) = IF v < w THEN -1 ELSE IF v > w THEN 1 ELSE 0
  <2>1. Numbers!Compare(d, b)
          = IF v * c < w * c THEN -1 ELSE IF v * c > w * c THEN 1 ELSE 0
    <3> HIDE DEF v, w, c
    <3> QED BY <1>2 DEF Numbers!Compare
  <2> HIDE DEF v, w, c
  <2> QED BY <1>3, <2>1
<1>5. k \in Int /\ l \in Int /\ (k < l) = (v < w) /\ (k > l) = (v > w)
  <2>0. s \in {o, b.scale} /\ s >= o /\ s >= b.scale
    BY <1>1, LargerIs
  <2>1. CASE o <= b.scale
    <3> DEFINE a == Numbers!Pow(o)
    <3>1. s = b.scale /\ s - b.scale = 0 /\ b.scale - o \in Nat /\ o + (b.scale - o) = b.scale
      <4> HIDE DEF s
      <4> QED BY <1>1, <2>0, <2>1
    <3>2. Numbers!Pow(b.scale) = a * Numbers!Pow(b.scale - o) /\ a \in Nat \ {0}
          /\ Numbers!Pow(b.scale - o) \in Nat
      BY <1>1, <3>1, PowOfSum, PowType
    <3>3. k = v * a
      <4> DEFINE r == Numbers!Pow(b.scale - o)
      <4>1. v = n * r /\ k = n * (a * r) /\ r \in Nat /\ a \in Nat
        BY <3>1, <3>2
      <4> HIDE DEF r, a, v, k
      <4> QED BY <1>1, <4>1
    <3>4. l = w * a
      <4>1. w = y * 1
        <5> HIDE DEF y, s
        <5> QED BY <3>1, PowOfNone
      <4>2. w = y
        <5> HIDE DEF w, y
        <5> QED BY <1>1, <4>1
      <4> HIDE DEF w
      <4> QED BY <4>2
    <3> HIDE DEF k, l, v, w, a
    <3> QED BY <1>2, <3>2, <3>3, <3>4, OrderScales
  <2>2. CASE o > b.scale
    <3> DEFINE a == Numbers!Pow(b.scale)
    <3>1. s = o /\ s - o = 0 /\ o - b.scale \in Nat /\ b.scale + (o - b.scale) = o
      <4> HIDE DEF s
      <4> QED BY <1>1, <2>0, <2>2
    <3>2. Numbers!Pow(o) = a * Numbers!Pow(o - b.scale) /\ a \in Nat \ {0}
          /\ Numbers!Pow(o - b.scale) \in Nat
      BY <1>1, <3>1, PowOfSum, PowType
    <3>3. l = w * a
      <4> DEFINE r == Numbers!Pow(o - b.scale)
      <4>1. w = y * r /\ l = y * (a * r) /\ r \in Nat /\ a \in Nat
        BY <3>1, <3>2
      <4> HIDE DEF r, a, w, l, y
      <4> QED BY <1>1, <4>1
    <3>4. k = v * a
      <4>1. v = n * 1
        <5> HIDE DEF s
        <5> QED BY <3>1, PowOfNone
      <4>2. v = n
        <5> HIDE DEF v
        <5> QED BY <1>1, <4>1
      <4> HIDE DEF v
      <4> QED BY <4>2
    <3> HIDE DEF k, l, v, w, a
    <3> QED BY <1>2, <3>2, <3>3, <3>4, OrderScales
  <2> QED BY <1>1, <2>1, <2>2
<1> HIDE DEF k, l, v, w
<1>6. Numbers!Compare(d, b) = IF k - l < 0 THEN -1 ELSE IF k - l > 0 THEN 1 ELSE 0
  BY <1>4, <1>5
<1> QED BY <1>6 DEF k, l, y

\* A number and its nearest multiple.
LEMMA NearestMultiple ==
  ASSUME NEW v \in Int, NEW F \in Nat \ {0}, NEW h \in Nat, F = 2 * h
  PROVE  LET q == Numbers!Quot(v + (IF v >= 0 THEN h ELSE -h), F) IN
         /\ q \in Int /\ q * F \in Int
         /\ -F <= 2 * (q * F - v) /\ 2 * (q * F - v) <= F
<1> DEFINE u == v + (IF v >= 0 THEN h ELSE -h)
           q == Numbers!Quot(u, F)
           r == Numbers!Rem(u, F)
           m == F * q
<1>1. u \in Int /\ (v >= 0 => u = v + h /\ u >= 0) /\ (v < 0 => u = v - h /\ u <= 0)
  OBVIOUS
<1> HIDE DEF u
<1>2. /\ q \in Int /\ r \in Int /\ m \in Int /\ u = m + r
      /\ (u >= 0 => 0 <= r /\ r < F)
      /\ (u <= 0 => -F < r /\ r <= 0)
  BY <1>1, QuotAndRem
<1> HIDE DEF q, r
<1>3. q * F = m
  BY <1>2
<1> HIDE DEF m
<1>4. -F <= 2 * (m - v) /\ 2 * (m - v) <= F
  BY <1>1, <1>2
<1> QED BY <1>2, <1>3, <1>4 DEF q, u

\* Rounding is off by a half at most.
RoundedWell(d, n, o, p) ==
  /\ Form(Numbers!Round(d, p)) /\ Numbers!Round(d, p).scale = p
  /\ 2 * Numbers!Abs(Numbers!ValueOf(Numbers!Round(d, p)) * Numbers!Pow(o) - n * Numbers!Pow(p))
       <= Numbers!Pow(o)

LEMMA RoundIs ==
  ASSUME NEW d, NEW n, NEW o, Means(d, n, o), NEW p \in Nat
  PROVE  RoundedWell(d, n, o, p)
<1> DEFINE V == Numbers!ValueOf(d)  O == Numbers!Pow(o)  P == Numbers!Pow(p)
           R == Numbers!Round(d, p)  W == Numbers!ValueOf(R)
<1>1. /\ n \in Int /\ o \in Nat /\ o <= d.scale /\ d.scale \in Nat /\ d.scale - o \in Nat
      /\ V \in Int /\ V = n * Numbers!Pow(d.scale - o)
  BY MeansItself DEF Means, Numbered
<1>2. O \in Nat \ {0} /\ P \in Nat \ {0}
  BY <1>1, PowType
<1>3. ASSUME -O <= 2 * (W * O - n * P), 2 * (W * O - n * P) <= O, W \in Int
      PROVE  2 * Numbers!Abs(W * O - n * P) <= O
  <2> DEFINE x == W * O - n * P
  <2>1. x \in Int /\ -O <= 2 * x /\ 2 * x <= O
    <3>1. W * O \in Int /\ n * P \in Int
      <4> HIDE DEF W, O, P
      <4> QED BY <1>1, <1>2, <1>3
    <3> DEFINE a == W * O  b == n * P
    <3>2. a \in Int /\ b \in Int /\ x = a - b
      BY <3>1
    <3> HIDE DEF a, b
    <3>3. x \in Int
      BY <3>2
    <3> QED BY <1>3, <3>3
  <2> HIDE DEF x, O
  <2>2. 2 * Numbers!Abs(x) <= O
    BY <1>2, <2>1 DEF Numbers!Abs
  <2> QED BY <2>2 DEF x
<1>4. CASE d.scale <= p
  <2> DEFINE v == V * Numbers!Pow(p - d.scale)
  <2>1. TwoSteps(n, o, d.scale, p)
    BY <1>1, <1>4, PowOfParts
  <2>2. v = n * Numbers!Pow(p - o) /\ v \in Int
    BY <1>1, <2>1 DEF TwoSteps
  <2>3. R = Numbers!Split(v, p)
    BY <1>4 DEF Numbers!Round
  <2>4. Form(R) /\ R.scale = p /\ W = v
    <3>1. \A x \in Int : /\ Form(Numbers!Split(x, p)) /\ Numbers!Split(x, p).scale = p
                         /\ Numbers!ValueOf(Numbers!Split(x, p)) = x
      BY SplitIs
    <3> HIDE DEF v, R
    <3> QED BY <2>2, <2>3, <3>1
  <2>5. v * O = n * P
    <3> DEFINE r == Numbers!Pow(p - o)
    <3>1. p - o \in Nat /\ (p - o) + o = p
      BY <1>1, <1>4
    <3>2. P = r * O /\ r \in Nat
      BY <1>1, <3>1, PowOfSum, PowType
    <3>3. v = n * r
      BY <2>2
    <3> HIDE DEF r, O, P, v
    <3> QED BY <1>1, <1>2, <3>2, <3>3
  <2>6. 2 * Numbers!Abs(W * O - n * P) <= O
    <3> DEFINE a == n * P
    <3>1. a \in Int /\ W * O = a
      <4>1. a \in Int
        <5> HIDE DEF P
        <5> QED BY <1>1, <1>2
      <4> HIDE DEF v, O, W, a
      <4> QED BY <2>4, <2>5, <4>1 DEF a
    <3> HIDE DEF a, W, O
    <3>2. W * O - a = 0
      BY <3>1
    <3>3. Numbers!Abs(0) = 0
      BY DEF Numbers!Abs
    <3>4. 2 * Numbers!Abs(W * O - a) <= O
      BY <1>2, <3>2, <3>3
    <3> QED BY <3>4 DEF a
  <2> HIDE DEF R
  <2> QED BY <2>4, <2>6 DEF RoundedWell, R
<1>5. CASE ~(d.scale <= p)
  <2> DEFINE F == Numbers!Pow(d.scale - p)
             h == F \div 2
             c == Numbers!Pow(d.scale - o)
             q == Numbers!Quot(V + (IF V >= 0 THEN h ELSE -h), F)
  <2>1. d.scale - p \in Nat \ {0} /\ (d.scale - p) + p = d.scale /\ o + (d.scale - o) = d.scale
    BY <1>1, <1>5
  <2>2. F \in Nat \ {0} /\ h \in Nat /\ F = 2 * h /\ c \in Nat \ {0}
    BY <1>1, <2>1, PowIsEven, PowType
  <2>3. F * P = O * c
    <3>1. Numbers!Pow((d.scale - p) + p) = F * P
      BY <2>1, PowOfSum
    <3>2. Numbers!Pow(o + (d.scale - o)) = O * c
      BY <1>1, PowOfSum
    <3> HIDE DEF F, P, O, c
    <3> QED BY <2>1, <3>1, <3>2
  <2>4. /\ q \in Int /\ q * F \in Int
        /\ -F <= 2 * (q * F - V) /\ 2 * (q * F - V) <= F
    <3> HIDE DEF F, h, V
    <3> QED BY <1>1, <2>2, NearestMultiple
  <2>5. R = Numbers!Split(q, p)
    <3> HIDE DEF F, V
    <3> QED BY <1>5 DEF Numbers!Round, F, V
  <2>6. Form(R) /\ R.scale = p /\ W = q
    <3>1. \A x \in Int : /\ Form(Numbers!Split(x, p)) /\ Numbers!Split(x, p).scale = p
                         /\ Numbers!ValueOf(Numbers!Split(x, p)) = x
      BY SplitIs
    <3> HIDE DEF q, R
    <3> QED BY <2>4, <2>5, <3>1
  <2> DEFINE E == q * F - V  D == q * O - n * P
  <2>7. V = n * c
    BY <1>1
  <2> HIDE DEF F, h, V, O, P, c, q
  <2>8. D * c = E * P /\ D \in Int /\ E \in Int
    <3>1. /\ D * c = (q * O) * c - (n * P) * c /\ E * P = (q * F) * P - V * P
          /\ D \in Int /\ E \in Int
      BY <1>1, <1>2, <2>2, <2>4
    <3>2. (q * O) * c = q * (O * c) /\ (q * F) * P = q * (F * P)
      BY <1>2, <2>2, <2>4
    <3>3. (n * P) * c = V * P
      <4>1. (n * P) * c = (n * c) * P
        BY <1>1, <1>2, <2>2
      <4> QED BY <2>7, <4>1
    <3> QED BY <2>3, <3>1, <3>2, <3>3
  <2> HIDE DEF E, D
  <2>9. /\ (2 * D) * c = (2 * E) * P /\ (-O) * c = (-F) * P
        /\ 2 * D \in Int /\ 2 * E \in Int /\ -O \in Int /\ -F \in Int
    <3>1. (2 * D) * c = 2 * (D * c) /\ (2 * E) * P = 2 * (E * P)
      BY <1>2, <2>2, <2>8
    <3>2. (-O) * c = -(O * c) /\ (-F) * P = -(F * P)
      BY <1>2, <2>2
    <3> QED BY <1>2, <2>2, <2>3, <2>8, <3>1, <3>2
  <2>10. -F <= 2 * E /\ 2 * E <= F
    BY <2>4 DEF E
  <2> DEFINE a == 2 * D  b == 2 * E  k == -O  l == -F
  <2>11. a <= O
    <3>1. /\ a \in Int /\ b \in Int /\ O \in Int /\ F \in Int /\ a * c = b * P /\ O * c = F * P
          /\ b <= F
      BY <1>2, <2>2, <2>3, <2>9, <2>10
    <3> HIDE DEF a, b
    <3>2. (a * c > O * c) = (a > O) /\ (b * P > F * P) = (b > F)
      BY <1>2, <2>2, <3>1, OrderScales
    <3> QED BY <3>1, <3>2
  <2>12. k <= a
    <3>1. /\ a \in Int /\ b \in Int /\ k \in Int /\ l \in Int /\ a * c = b * P /\ k * c = l * P
          /\ l <= b
      BY <1>2, <2>2, <2>3, <2>9, <2>10
    <3> HIDE DEF a, b, k, l
    <3>2. (k * c > a * c) = (k > a) /\ (l * P > b * P) = (l > b)
      BY <1>2, <2>2, <3>1, OrderScales
    <3> QED BY <3>1, <3>2
  <2>13. 2 * Numbers!Abs(W * O - n * P) <= O
    <3>1. W * O - n * P = D
      <4> HIDE DEF W
      <4> QED BY <2>6 DEF D
    <3>2. -O <= 2 * (W * O - n * P) /\ 2 * (W * O - n * P) <= O
      BY <2>11, <2>12, <3>1
    <3> HIDE DEF W
    <3> QED BY <1>3, <2>4, <2>6, <3>2
  <2> HIDE DEF R
  <2> QED BY <2>6, <2>13 DEF RoundedWell, R, O, P
<1> QED BY <1>1, <1>4, <1>5

-----------------------------------------------------------------------------
(* Digits.                                                                 *)

\* The number of a sequence of digits, one digit after another.
LEMMA NumberIs ==
  ASSUME NEW ds \in Seq(Nat)
  PROVE  \E c \in [0..Len(ds) -> Nat] :
           /\ Numbers!NumberOf(ds) = c[Len(ds)] /\ c[0] = 0
           /\ \A i \in 1..Len(ds) : c[i] = c[i - 1] * Radix + ds[i]
<1> DEFINE n == Len(ds)
           S == Nat
           P(i, t) == t * Radix + ds[i]
           h == [i \in 1..n |-> [t \in S |-> P(i, t)]]
           K(f) == [i \in 0..n |-> IF i = 0 THEN 0 ELSE P(i, f[i - 1])]
           Goes(f) == f[0] = 0 /\ \A i \in 1..n : f[i] = P(i, f[i - 1])
           c == CHOOSE f : f = K(f)
<1>1. n \in Nat /\ \A i \in 1..n : ds[i] \in Nat
  OBVIOUS
<1>2. 0 \in S /\ h \in [1..n -> [S -> S]]
  <2>1. Radix \in Nat
    BY RadixIs
  <2>2. \A t \in Nat : t * Radix \in Nat
    BY <2>1, TimesNat
  <2> HIDE DEF n
  <2>3. ASSUME NEW i \in 1..n, NEW t \in Nat PROVE P(i, t) \in Nat
    <3> DEFINE u == t * Radix
    <3>1. u \in Nat /\ ds[i] \in Nat
      BY <1>1, <2>2
    <3> HIDE DEF u
    <3>2. u + ds[i] \in Nat
      BY <3>1
    <3> QED BY <3>2 DEF u
  <2> HIDE DEF P
  <2> QED BY <2>3
<1> HIDE DEF n
<1>3. PICK f \in [0..n -> S] : Computes(f, n, 0, h)
  <2> HIDE DEF h, S
  <2> QED BY <1>1, <1>2, Recursion
<1>4. \A i \in 1..n : i \in 0..n /\ i # 0 /\ i - 1 \in 0..n
  BY <1>1
<1>5. Goes(f)
  <2> HIDE DEF S, P
  <2>1. \A i \in 1..n : f[i - 1] \in S
    BY <1>4
  <2> QED BY <1>3, <2>1 DEF Computes
<1>6. f = K(f)
  <2> HIDE DEF S, P
  <2>1. \A i \in 0..n : i # 0 => i \in 1..n
    BY <1>1
  <2>2. \A i \in 0..n : f[i] = K(f)[i]
    BY <1>5, <2>1
  <2>3. f = [i \in 0..n |-> f[i]]
    OBVIOUS
  <2> QED BY <2>2, <2>3
<1>7. c = K(c)
  BY <1>6
<1>8. ASSUME NEW g, g = K(g) PROVE g = f
  <2> HIDE DEF S, P
  <2>1. g[0] = 0
    BY <1>1, <1>8
  <2>2. Goes(g) /\ g = [i \in 0..n |-> g[i]]
    BY <1>4, <1>8, <2>1
  <2>3. GoAlike(f, g, n)
    BY <1>5, <2>2 DEF GoAlike
  <2>5. \A i \in 0..n : f[i] = g[i]
    BY <1>1, <2>3, SameSoFar
  <2> QED BY <2>2, <2>5
<1>9. c = f
  <2> HIDE DEF c, K
  <2> QED BY <1>7, <1>8
<1>10. Numbers!NumberOf(ds) = c[n]
  BY DEF Numbers!NumberOf, n
<1> QED
  <2> HIDE DEF c
  <2> QED BY <1>5, <1>9, <1>10 DEF n

LEMMA NumberType == \A ds \in Seq(Nat) : Numbers!NumberOf(ds) \in Nat
<1> SUFFICES ASSUME NEW ds \in Seq(Nat) PROVE Numbers!NumberOf(ds) \in Nat
  OBVIOUS
<1>1. PICK c \in [0..Len(ds) -> Nat] : Numbers!NumberOf(ds) = c[Len(ds)]
  BY NumberIs
<1>2. Len(ds) \in 0..Len(ds)
  OBVIOUS
<1> QED BY <1>1, <1>2

\* The number of the digits before and after a point.
LEMMA NumberOfBoth ==
  ASSUME NEW a \in Seq(Nat), NEW b \in Seq(Nat)
  PROVE  /\ Numbers!NumberOf(a \o b)
              = Numbers!NumberOf(a) * Numbers!Pow(Len(b)) + Numbers!NumberOf(b)
         /\ a \o b \in Seq(Nat) /\ Len(a \o b) = Len(a) + Len(b)
<1> DEFINE s == a \o b  l == Len(a)  m == Len(b)  p == Numbers!NumberOf(a)
<1>1. /\ s \in Seq(Nat) /\ Len(s) = l + m /\ l \in Nat /\ m \in Nat
      /\ \A i \in 1..l : i \in 1..(l + m) /\ s[i] = a[i]
      /\ \A i \in 1..m : l + i \in 1..(l + m) /\ s[l + i] = b[i] /\ b[i] \in Nat
  OBVIOUS
<1>2. PICK x \in [0..Len(s) -> Nat] :
        /\ Numbers!NumberOf(s) = x[Len(s)] /\ x[0] = 0
        /\ \A i \in 1..Len(s) : x[i] = x[i - 1] * Radix + s[i]
  <2> HIDE DEF s
  <2> QED BY <1>1, NumberIs
<1>3. PICK y \in [0..l -> Nat] :
        /\ p = y[l] /\ y[0] = 0
        /\ \A i \in 1..l : y[i] = y[i - 1] * Radix + a[i]
  BY NumberIs
<1>4. PICK z \in [0..m -> Nat] :
        /\ Numbers!NumberOf(b) = z[m] /\ z[0] = 0
        /\ \A i \in 1..m : z[i] = z[i - 1] * Radix + b[i]
  BY NumberIs
<1> HIDE DEF s, l, m, p
<1>5. x[l] = p /\ p \in Nat
  <2>1. GoAlike(x, y, l)
    <3>1. x[0] = y[0]
      BY <1>2, <1>3
    <3>2. ASSUME NEW i \in 1..l, x[i - 1] = y[i - 1] PROVE x[i] = y[i]
      <4>1. i \in 1..Len(s) /\ s[i] = a[i]
        BY <1>1
      <4>2. x[i] = x[i - 1] * Radix + a[i]
        BY <1>2, <4>1
      <4>3. y[i] = y[i - 1] * Radix + a[i]
        BY <1>3
      <4> QED BY <3>2, <4>2, <4>3
    <3> QED BY <3>1, <3>2 DEF GoAlike
  <2>2. l \in 0..l
    BY <1>1
  <2>3. \A i \in 0..l : x[i] = y[i]
    <3>1. l \in Nat
      BY <1>1
    <3> QED BY <2>1, <3>1, SameSoFar
  <2>4. x[l] = y[l] /\ y[l] \in Nat
    BY <2>2, <2>3
  <2> QED BY <1>3, <2>4
<1> DEFINE f == [j \in 0..m |-> x[l + j]]
           g == [j \in 0..m |-> p * Numbers!Pow(j) + z[j]]
<1>6. \A j \in 1..m : j \in 0..m /\ j - 1 \in 0..m /\ l + (j - 1) = (l + j) - 1
                     /\ l + j \in 1..Len(s) /\ j - 1 \in Nat /\ (j - 1) + 1 = j
                     /\ z[j - 1] \in Nat /\ b[j] \in Nat
  <2>1. m \in Nat /\ l \in Nat /\ Len(s) = l + m
    BY <1>1
  <2>2. \A j \in 1..m : b[j] \in Nat
    BY <1>1
  <2>3. \A j \in 1..m : j \in 0..m /\ j - 1 \in 0..m /\ j - 1 \in Nat /\ j \in Nat
    BY <2>1
  <2>4. \A j \in 1..m : z[j - 1] \in Nat
    BY <2>3
  <2>5. \A j \in Nat : l + (j - 1) = (l + j) - 1 /\ (j - 1) + 1 = j
    BY <2>1
  <2>6. \A j \in 1..m : l + j \in 1..Len(s)
    BY <2>1
  <2> QED BY <2>2, <2>3, <2>4, <2>5, <2>6
<1>7. GoAlike(f, g, m)
  <2>1. f[0] = g[0]
    <3>1. 0 \in 0..m /\ l + 0 = l /\ p * 1 + 0 = p
      BY <1>1, <1>5
    <3>2. f[0] = x[l]
      BY <3>1
    <3>3. g[0] = p * 1 + 0
      BY <1>4, <3>1, PowOfNone
    <3> QED BY <1>5, <3>1, <3>2, <3>3
  <2>2. ASSUME NEW j \in 1..m, f[j - 1] = g[j - 1] PROVE f[j] = g[j]
    <3> DEFINE q == Numbers!Pow(j - 1)  t == z[j - 1]  d == b[j]
    <3>1. f[j - 1] = x[(l + j) - 1] /\ f[j] = x[l + j]
      BY <1>6
    <3>2. x[l + j] = x[(l + j) - 1] * Radix + d
      <4>1. s[l + j] = d
        BY <1>1
      <4> QED BY <1>2, <1>6, <4>1
    <3>3. g[j - 1] = p * q + t /\ g[j] = p * Numbers!Pow(j) + z[j]
      BY <1>6
    <3>4. z[j] = t * Radix + d
      BY <1>4
    <3>5. Numbers!Pow(j) = Radix * q /\ q \in Nat
      <4>1. j - 1 \in Nat /\ (j - 1) + 1 = j
        BY <1>6
      <4> QED BY <4>1, PowOfMore
    <3>6. t \in Nat /\ d \in Nat /\ Radix \in Nat
      BY <1>6, RadixIs
    <3> HIDE DEF q, t, d, f, g
    <3>7. (p * q + t) * Radix + d = p * (Radix * q) + (t * Radix + d)
      BY <1>5, <3>5, <3>6
    <3> QED BY <2>2, <3>1, <3>2, <3>3, <3>4, <3>5, <3>7
  <2> QED BY <2>1, <2>2 DEF GoAlike
<1>8. f[m] = g[m]
  <2> HIDE DEF f, g
  <2>1. m \in 0..m
    BY <1>1
  <2> QED BY <1>1, <1>7, <2>1, SameSoFar
<1>9. x[Len(s)] = p * Numbers!Pow(m) + z[m]
  <2>1. m \in 0..m /\ Len(s) = l + m
    BY <1>1
  <2>2. f[m] = x[l + m] /\ g[m] = p * Numbers!Pow(m) + z[m]
    BY <2>1
  <2> QED BY <1>8, <2>1, <2>2
<1>10. Numbers!NumberOf(s) = p * Numbers!Pow(m) + Numbers!NumberOf(b)
  BY <1>2, <1>4, <1>9
<1> QED BY <1>1, <1>10 DEF s, l, m, p

LEMMA NumberOfZeros ==
  ASSUME NEW ds \in Seq(Nat), \A i \in 1..Len(ds) : ds[i] = 0
  PROVE  Numbers!NumberOf(ds) = 0
<1> DEFINE n == Len(ds)
<1>1. PICK c \in [0..n -> Nat] :
        /\ Numbers!NumberOf(ds) = c[n] /\ c[0] = 0
        /\ \A i \in 1..n : c[i] = c[i - 1] * Radix + ds[i]
  BY NumberIs
<1> DEFINE g == [i \in 0..n |-> 0]
<1>2. n \in Nat
  OBVIOUS
<1>3. GoAlike(c, g, n)
  <2>1. c[0] = g[0]
    BY <1>1, <1>2
  <2>2. ASSUME NEW i \in 1..n, c[i - 1] = g[i - 1] PROVE c[i] = g[i]
    <3>1. i - 1 \in 0..n /\ i \in 0..n
      BY <1>2
    <3>2. c[i - 1] = 0 /\ g[i] = 0
      BY <2>2, <3>1
    <3>3. c[i] = 0 * Radix + 0
      BY <1>1, <3>2
    <3> QED BY <3>2, <3>3, RadixIs
  <2> QED BY <2>1, <2>2 DEF GoAlike
<1>4. n \in 0..n
  BY <1>2
<1> HIDE DEF n
<1>5. c[n] = g[n]
  <2> HIDE DEF g
  <2> QED BY <1>2, <1>3, <1>4, SameSoFar
<1> QED BY <1>1, <1>4, <1>5 DEF n

Few == 0..(Radix - 1)

LEMMA FewIs == /\ \A s \in Seq(Few) : s \in Seq(Nat)
               /\ Few \subseteq Nat /\ Numbers!Few = Few /\ {0, 1, 2, 3} \subseteq Few
<1>1. Few \subseteq Nat /\ Numbers!Few = Few /\ {0, 1, 2, 3} \subseteq Few
  BY RadixIs DEF Few, Numbers!Few
<1>2. ASSUME NEW s \in Seq(Few) PROVE s \in Seq(Nat)
  <2>1. Len(s) \in Nat /\ s \in [1..Len(s) -> Few]
    OBVIOUS
  <2>2. s \in [1..Len(s) -> Nat]
    BY <1>1, <2>1
  <2> QED BY <2>1, <2>2
<1> QED BY <1>1, <1>2

LEMMA NumberOfOne ==
  ASSUME NEW d \in Nat
  PROVE  Numbers!NumberOf(<<d>>) = d
<1>1. PICK c \in [0..Len(<<d>>) -> Nat] :
        /\ Numbers!NumberOf(<<d>>) = c[Len(<<d>>)] /\ c[0] = 0
        /\ \A i \in 1..Len(<<d>>) : c[i] = c[i - 1] * Radix + <<d>>[i]
  <2>1. <<d>> \in Seq(Nat)
    OBVIOUS
  <2> QED BY <2>1, NumberIs
<1>2. Len(<<d>>) = 1 /\ 1 \in 1..1 /\ 1 - 1 = 0 /\ <<d>>[1] = d
  OBVIOUS
<1>3. c[1] = 0 * Radix + d
  BY <1>1, <1>2
<1> QED BY <1>1, <1>2, <1>3, RadixIs

\* So many digits make up a number below the power.
LEMMA NumberIsBelow ==
  ASSUME NEW ds \in Seq(Few)
  PROVE  Numbers!NumberOf(ds) < Numbers!Pow(Len(ds))
<1> DEFINE n == Len(ds)
<1>0. ds \in Seq(Nat)
  BY FewIs
<1>1. PICK c \in [0..n -> Nat] :
        /\ Numbers!NumberOf(ds) = c[n] /\ c[0] = 0
        /\ \A i \in 1..n : c[i] = c[i - 1] * Radix + ds[i]
  BY <1>0, NumberIs
<1> DEFINE T == {k \in Nat : k <= n => c[k] < Numbers!Pow(k)}
<1>2. n \in Nat /\ \A i \in 1..n : ds[i] \in Few
  OBVIOUS
<1> HIDE DEF n
<1>3. 0 \in T
  BY <1>1, PowOfNone
<1>4. ASSUME NEW k \in Nat, k \in T PROVE k + 1 \in T
  <2> SUFFICES ASSUME k + 1 <= n PROVE c[k + 1] < Numbers!Pow(k + 1)
    OBVIOUS
  <2> DEFINE x == c[k]  p == Numbers!Pow(k)  d == ds[k + 1]
  <2>1. k + 1 \in 1..n /\ (k + 1) - 1 = k /\ k \in 0..n /\ k <= n
    BY <1>2
  <2>2. x < p /\ x \in Nat /\ p \in Nat
    BY <1>4, <2>1, PowType
  <2>3. c[k + 1] = x * Radix + d
    BY <1>1, <2>1
  <2>4. Numbers!Pow(k + 1) = Radix * p
    BY PowOfMore
  <2>5. d \in Nat /\ d < Radix /\ Radix \in Nat
    BY <1>2, <2>1, RadixIs DEF Few
  <2> HIDE DEF x, p, d
  <2>6. (x + 1) * Radix <= p * Radix
    BY <2>2, <2>5
  <2>7. (x + 1) * Radix = x * Radix + Radix /\ p * Radix = Radix * p /\ x * Radix \in Nat
    BY <2>2, <2>5
  <2> DEFINE u == x * Radix  w == Radix * p
  <2>8. u \in Nat /\ u + Radix <= w /\ w \in Nat
    BY <2>2, <2>5, <2>6, <2>7
  <2> HIDE DEF u, w
  <2>9. u + d < w
    BY <2>5, <2>8
  <2> QED BY <2>3, <2>4, <2>9 DEF u, w
<1> HIDE DEF T
<1>5. Nat \subseteq T
  BY <1>3, <1>4, SetInduction
<1>6. n \in T
  BY <1>2, <1>5
<1> QED BY <1>1, <1>6 DEF T, n

-----------------------------------------------------------------------------
(* Strings.                                                                *)

LEMMA NumberOfNone == <<>> \in Seq(Few) /\ Len(<<>>) = 0 /\ Numbers!NumberOf(<<>>) = 0
<1>1. <<>> \in Seq(Nat) /\ <<>> \in Seq(Few) /\ Len(<<>>) = 0 /\ 1..Len(<<>>) = {}
  OBVIOUS
<1>2. \A i \in 1..Len(<<>>) : <<>>[i] = 0
  BY <1>1
<1> QED BY <1>1, <1>2, NumberOfZeros

\* The sign of a string.
SignIs(neg) == IF neg THEN -1 ELSE 1

LEMMA OfStringStands ==
  ASSUME NEW neg \in BOOLEAN, NEW a \in Seq(Few), NEW b \in Seq(Few)
  PROVE  LET d == Numbers!OfString(Numbers!Text(neg, a, b)) IN
         /\ StandsFor(d, SignIs(neg) * Numbers!NumberOf(a \o b), Len(b))
         /\ d.scale = Numbers!Larger(Len(b), 1)
<1> DEFINE x == Numbers!NumberOf(a)  y == Numbers!NumberOf(b)  L == Len(b)
           S == Numbers!Larger(L, 1)  sg == SignIs(neg)  p == Numbers!Pow(S)
           z == Numbers!NumberOf(a \o b)
           d == Numbers!OfString(Numbers!Text(neg, a, b))
<1>1. d = Numbers!Decimal(sg * x, sg * y, S)
  BY DEF Numbers!OfString, Numbers!Text, SignIs
<1>2. x \in Nat /\ y \in Nat /\ L \in Nat /\ sg \in {1, -1} /\ a \in Seq(Nat) /\ b \in Seq(Nat)
  BY FewIs, NumberType DEF SignIs
<1>3. y < Numbers!Pow(L) /\ z = x * Numbers!Pow(L) + y
  BY <1>2, NumberIsBelow, NumberOfBoth
<1>4. S \in Nat /\ L <= S /\ p \in Nat \ {0} /\ (L = 0 => S = 1) /\ (L # 0 => S = L)
  <2>1. S \in Nat /\ L <= S /\ (L = 0 => S = 1) /\ (L # 0 => S = L)
    BY <1>2 DEF Numbers!Larger
  <2> HIDE DEF S
  <2> QED BY <2>1, PowType
<1>5. d.int = sg * x /\ d.frac = sg * y /\ d.scale = S
  <2> HIDE DEF d, S, sg, x, y
  <2> QED BY <1>1 DEF Numbers!Decimal
<1>6. y < p
  <2>1. CASE L = 0
    <3>1. y = 0
      BY <1>2, <1>3, <2>1, PowOfNone
    <3> HIDE DEF y, p
    <3> QED BY <1>4, <3>1
  <2>2. CASE L # 0
    BY <1>3, <1>4, <2>2
  <2> QED BY <2>1, <2>2
<1> DEFINE i == sg * x  f == sg * y
<1> HIDE DEF sg, x, y, z, S, p, L, d
<1>7. /\ i \in Int /\ f \in Int
      /\ (i >= 0 /\ f >= 0) \/ (i <= 0 /\ f <= 0)
      /\ Numbers!Abs(f) < p
  <2>1. CASE sg = 1
    BY <1>2, <1>4, <1>6, <2>1 DEF Numbers!Abs
  <2>2. CASE sg = -1
    BY <1>2, <1>4, <1>6, <2>2 DEF Numbers!Abs
  <2> QED BY <1>2, <2>1, <2>2
<1>8. Form(d)
  <2>1. d = Numbers!Decimal(i, f, S) /\ d.int = i /\ d.frac = f
    BY <1>1, <1>5
  <2> HIDE DEF i, f
  <2>2. d = Numbers!Decimal(d.int, d.frac, d.scale)
    BY <1>5, <2>1
  <2>3. Numbers!Abs(d.frac) < Numbers!Pow(d.scale)
    BY <1>5, <1>7, <2>1 DEF p
  <2> QED BY <1>4, <1>5, <1>7, <2>1, <2>2, <2>3 DEF Form
<1>9. Numbers!ValueOf(d) = i * p + f
  <2> HIDE DEF i, f
  <2> QED BY <1>5 DEF Numbers!ValueOf, i, f, p
<1>10. z \in Nat /\ sg * z \in Int
  <2>1. Numbers!Pow(L) \in Nat
    BY <1>2, PowType
  <2> QED BY <1>2, <1>3, <2>1
<1>11. Numbers!ValueOf(d) = (sg * z) * Numbers!Pow(S - L)
  <2>1. CASE L = 0
    <3>1. y = 0 /\ z = x /\ S - L = S
      <4>1. y = 0
        BY <1>2, <1>3, <2>1, PowOfNone
      <4>2. z = x * 1 + y
        BY <1>3, <2>1, PowOfNone
      <4> QED BY <1>2, <1>4, <2>1, <4>1, <4>2
    <3>2. i * p + f = (sg * z) * p
      BY <1>2, <1>4, <3>1
    <3> QED BY <1>9, <3>1, <3>2 DEF p
  <2>2. CASE L # 0
    <3>1. S = L /\ S - L = 0
      BY <1>2, <1>4, <2>2
    <3>2. z = x * p + y
      BY <1>3, <3>1 DEF p
    <3>3. i * p + f = (sg * z) * 1
      <4>1. CASE sg = 1
        BY <1>2, <1>4, <3>2, <4>1
      <4>2. CASE sg = -1
        BY <1>2, <1>4, <3>2, <4>2
      <4> QED BY <1>2, <4>1, <4>2
    <3> QED BY <1>9, <3>1, <3>3, PowOfNone
  <2> QED BY <2>1, <2>2
<1> QED BY <1>2, <1>4, <1>5, <1>8, <1>10, <1>11 DEF StandsFor, d, L, S, sg, z

LEMMA CutIs ==
  ASSUME NEW ds \in Seq(Few), NEW k \in 0..Len(ds)
  PROVE  LET u == SubSeq(ds, 1, k)
             v == SubSeq(ds, k + 1, Len(ds))
         IN /\ u \in Seq(Few) /\ v \in Seq(Few) /\ ds = u \o v
            /\ Len(u) = k /\ Len(v) = Len(ds) - k
            /\ \A i \in 1..k : u[i] = ds[i]
            /\ \A i \in 1..Len(v) : v[i] = ds[k + i]
<1>0. Len(ds) \in Nat /\ \A i \in 1..Len(ds) : ds[i] \in Few
  OBVIOUS
<1>1. k \in Int /\ 0 <= k /\ k <= Len(ds) /\ k + 1 \in Int /\ Len(ds) \in Int
  BY <1>0
<1>2. /\ SubSeq(ds, 1, k) \in Seq(Few) /\ Len(SubSeq(ds, 1, k)) = k
      /\ \A i \in 1..k : SubSeq(ds, 1, k)[i] = ds[i]
  <2>1. \A i \in 1..k : ds[i] \in Few
    BY <1>0, <1>1
  <2>2. /\ SubSeq(ds, 1, k) \in Seq(Few)
        /\ Len(SubSeq(ds, 1, k)) = IF 1 <= k THEN k - 1 + 1 ELSE 0
        /\ \A i \in 1..(k - 1 + 1) : SubSeq(ds, 1, k)[i] = ds[1 + i - 1]
    BY <1>1, <2>1, SubSeqProperties
  <2>3. k - 1 + 1 = k /\ \A i \in 1..k : 1 + i - 1 = i
    BY <1>1
  <2> QED BY <1>1, <2>2, <2>3
<1>3. /\ SubSeq(ds, k + 1, Len(ds)) \in Seq(Few)
      /\ Len(SubSeq(ds, k + 1, Len(ds))) = Len(ds) - k
      /\ \A i \in 1..(Len(ds) - k) : SubSeq(ds, k + 1, Len(ds))[i] = ds[k + i]
  <2> DEFINE n == Len(ds)
  <2>1. \A i \in (k + 1)..n : ds[i] \in Few
    BY <1>0, <1>1
  <2> HIDE DEF n
  <2>2. n \in Int /\ k + 1 \in Int /\ n >= k
    BY <1>1 DEF n
  <2>3. /\ SubSeq(ds, k + 1, n) \in Seq(Few)
        /\ Len(SubSeq(ds, k + 1, n)) = IF k + 1 <= n THEN n - (k + 1) + 1 ELSE 0
        /\ \A i \in 1..(n - (k + 1) + 1) : SubSeq(ds, k + 1, n)[i] = ds[(k + 1) + i - 1]
    BY <2>1, <2>2, SubSeqProperties
  <2>4. n - (k + 1) + 1 = n - k /\ \A i \in 1..(n - k) : (k + 1) + i - 1 = k + i
    BY <1>1, <2>2
  <2>5. Len(SubSeq(ds, k + 1, n)) = n - k
    BY <1>1, <2>2, <2>3, <2>4
  <2> QED BY <2>3, <2>4, <2>5 DEF n
<1>4. ds = SubSeq(ds, 1, k) \o SubSeq(ds, k + 1, Len(ds))
  <2>1. 1 \in 1..(Len(ds) + 1) /\ k \in (1 - 1)..Len(ds) /\ Len(ds) \in k..Len(ds)
    BY <1>1
  <2> HIDE <1>0
  <2> QED BY <2>1, ConcatAdjacentSubSeq, SubSeqFull
<1> QED BY <1>2, <1>3, <1>4

\* Zeros in front of a number.
LEMMA ZerosAre ==
  ASSUME NEW n \in Nat
  PROVE  /\ Numbers!Zeros(n) \in Seq(Few) /\ Len(Numbers!Zeros(n)) = n
         /\ Numbers!NumberOf(Numbers!Zeros(n)) = 0
<1> DEFINE z == Numbers!Zeros(n)
<1>1. z = [i \in 1..n |-> 0]
  BY DEF Numbers!Zeros
<1>2. 0 \in Few
  BY FewIs
<1> HIDE DEF z
<1>3. z \in [1..n -> Few]
  BY <1>1, <1>2
<1>4. z \in Seq(Few)
  BY <1>3
<1>5. Len(z) = n
  BY <1>1, <1>4
<1>6. \A i \in 1..Len(z) : z[i] = 0
  BY <1>1, <1>5
<1>7. Numbers!NumberOf(z) = 0
  BY <1>4, <1>6, FewIs, NumberOfZeros
<1> QED BY <1>4, <1>5, <1>7 DEF z

LEMMA ZerosInFront ==
  ASSUME NEW n \in Nat, NEW ds \in Seq(Few)
  PROVE  LET e == Numbers!Zeros(n) \o ds IN
         /\ e \in Seq(Few) /\ Len(e) = n + Len(ds) /\ Numbers!NumberOf(e) = Numbers!NumberOf(ds)
<1> DEFINE z == Numbers!Zeros(n)  p == Numbers!Pow(Len(ds))  x == Numbers!NumberOf(ds)
<1>1. z \in Seq(Few) /\ Len(z) = n /\ Numbers!NumberOf(z) = 0
  BY ZerosAre
<1>2. p \in Nat /\ x \in Nat /\ ds \in Seq(Nat) /\ z \in Seq(Nat) /\ Len(ds) \in Nat
  <2>1. Len(ds) \in Nat
    OBVIOUS
  <2> QED BY <1>1, <2>1, FewIs, PowType, NumberType
<1> HIDE DEF z
<1>3. z \o ds \in Seq(Few) /\ Len(z \o ds) = n + Len(ds)
  BY <1>1, ConcatProperties
<1>4. Numbers!NumberOf(z \o ds) = 0 * p + x
  BY <1>1, <1>2, NumberOfBoth
<1> HIDE DEF p, x
<1>5. 0 * p + x = x
  BY <1>2
<1> QED BY <1>3, <1>4, <1>5 DEF z, x

LEMMA ZerosBehind ==
  ASSUME NEW n \in Nat, NEW ds \in Seq(Few)
  PROVE  LET e == ds \o Numbers!Zeros(n) IN
         /\ e \in Seq(Few) /\ Len(e) = Len(ds) + n
         /\ Numbers!NumberOf(e) = Numbers!NumberOf(ds) * Numbers!Pow(n)
<1> DEFINE z == Numbers!Zeros(n)  p == Numbers!Pow(n)  x == Numbers!NumberOf(ds)
<1>1. z \in Seq(Few) /\ Len(z) = n /\ Numbers!NumberOf(z) = 0
  BY ZerosAre
<1>2. p \in Nat /\ x \in Nat /\ ds \in Seq(Nat) /\ z \in Seq(Nat)
  BY <1>1, FewIs, PowType, NumberType
<1> HIDE DEF z
<1>3. ds \o z \in Seq(Few) /\ Len(ds \o z) = Len(ds) + n
  BY <1>1, ConcatProperties
<1>4. Numbers!NumberOf(ds \o z) = x * p + 0
  BY <1>1, <1>2, NumberOfBoth
<1> HIDE DEF p, x
<1>5. x * p + 0 = x * p
  BY <1>2
<1> QED BY <1>3, <1>4, <1>5 DEF z, x, p

\* Digits that start with another than zero are kept.
LEMMA NothingToTrim ==
  ASSUME NEW ds \in Seq(Few), Len(ds) # 0, ds[1] # 0
  PROVE  Numbers!TrimStart(ds) = ds
<1> DEFINE n == Len(ds)
           Q(k) == (\A i \in 1..(k - 1) : ds[i] = 0) /\ (k <= n => ds[k] # 0)
           k == CHOOSE j \in 1..(n + 1) : Q(j)
<1>1. n \in Nat \ {0}
  OBVIOUS
<1>2. 1 \in 1..(n + 1) /\ Q(1)
  BY <1>1
<1>3. k \in 1..(n + 1) /\ Q(k)
  <2> HIDE DEF n, Q
  <2> QED BY <1>2
<1>4. Numbers!TrimStart(ds) = SubSeq(ds, k, n)
  BY DEF Numbers!TrimStart
<1> HIDE DEF k
<1>5. k = 1
  <2> SUFFICES ASSUME k # 1 PROVE FALSE
    OBVIOUS
  <2>1. 1 \in 1..(k - 1)
    BY <1>1, <1>3
  <2> QED BY <1>3, <2>1
<1> QED BY <1>4, <1>5, SubSeqFull

-----------------------------------------------------------------------------
(* Scientific notation.                                                    *)

LEMMA FromScientificStands ==
  ASSUME NEW neg \in BOOLEAN, NEW first \in Few \ {0}, NEW frac \in Seq(Few), NEW exp \in Int
  PROVE  LET n == Numbers!NumberOf(<<first>> \o frac)
             l == Len(frac) - exp
             s == Numbers!Larger(l, 0)
         IN /\ StandsFor(Numbers!FromScientificNotation(
                           Numbers!Scientific(neg, <<first>>, frac, exp)),
                         SignIs(neg) * (n * Numbers!Pow(s - l)), s)
            /\ n \in Nat /\ s \in Nat /\ s - l \in Nat
<1> DEFINE ds == <<first>> \o frac
           x == Numbers!Scientific(neg, <<first>>, frac, exp)
           point == 1 + exp  m == Len(ds)
           n == Numbers!NumberOf(ds)  l == Len(frac) - exp  s == Numbers!Larger(l, 0)
           sg == SignIs(neg)
           D == Numbers!FromScientificNotation(x)
<1>1. /\ ds \in Seq(Few) /\ Len(ds) = 1 + Len(frac) /\ ds[1] = first /\ Len(<<first>>) = 1
      /\ Len(frac) \in Nat
  <2>1. <<first>> \in Seq(Few) /\ Len(<<first>>) = 1 /\ <<first>>[1] = first /\ Len(frac) \in Nat
    OBVIOUS
  <2>2. 1 \in 1..(Len(<<first>>) + Len(frac))
    BY <2>1
  <2> QED BY <2>1, <2>2, ConcatProperties
<1>2. Numbers!TrimStart(ds) = ds /\ ds # <<>> /\ m \in Nat \ {0}
  <2>1. Len(ds) # 0 /\ ds # <<>> /\ m \in Nat \ {0}
    BY <1>1
  <2> HIDE DEF ds
  <2> QED BY <1>1, <2>1, NothingToTrim
<1>3. D = Numbers!OfString(
            IF point <= 0 THEN Numbers!Text(neg, <<0>>, Numbers!Zeros(-point) \o ds)
            ELSE IF point >= m THEN Numbers!Text(neg, ds \o Numbers!Zeros(point - m), <<>>)
            ELSE Numbers!Text(neg, SubSeq(ds, 1, point), SubSeq(ds, point + 1, m)))
  <2>1. /\ x.int = <<first>> /\ x.frac = frac /\ x.exp = exp /\ x.neg = neg
        /\ x.int \o x.frac = ds /\ Len(x.int) = 1
    BY <1>1 DEF Numbers!Scientific
  <2> HIDE DEF x, ds
  <2> QED BY <1>2, <2>1 DEF Numbers!FromScientificNotation
<1>4. /\ n \in Nat /\ s \in Nat /\ s - l \in Nat /\ l \in Int /\ l = m - point
      /\ (l >= 0 => s = l) /\ (l <= 0 => s = 0)
  <2>1. ds \in Seq(Nat)
    BY <1>1, FewIs
  <2>2. n \in Nat
    <3> HIDE DEF ds
    <3> QED BY <2>1, NumberType
  <2> HIDE DEF n, ds
  <2>3. l \in Int /\ l = m - point
    BY <1>1
  <2> HIDE DEF l
  <2> QED BY <2>2, <2>3 DEF Numbers!Larger
<1> HIDE DEF D, x, ds
<1>5. sg \in Int /\ \A k \in Int : k * 1 = k
  BY DEF SignIs
<1> HIDE DEF n, sg
<1> SUFFICES StandsFor(D, sg * (n * Numbers!Pow(s - l)), s)
  BY <1>4 DEF D, n, l, s, sg, x, ds
<1>6. CASE point <= 0
  <2> DEFINE e == Numbers!Zeros(-point) \o ds
  <2>1. e \in Seq(Few) /\ Len(e) = l /\ Numbers!NumberOf(e) = n /\ l >= 0
    <3>1. -point \in Nat
      BY <1>6
    <3>2. e \in Seq(Few) /\ Len(e) = -point + m /\ Numbers!NumberOf(e) = n
      BY <1>1, <3>1, ZerosInFront DEF n
    <3>3. -point + m = l /\ l >= 0
      BY <1>2, <1>4, <1>6
    <3> HIDE DEF e, l
    <3> QED BY <3>2, <3>3
  <2>2. <<0>> \in Seq(Few) /\ <<0>> \in Seq(Nat) /\ Numbers!NumberOf(<<0>>) = 0
    <3>1. <<0>> \in Seq(Few) /\ <<0>> \in Seq(Nat)
      BY FewIs
    <3> QED BY <3>1, NumberOfOne
  <2> HIDE DEF e
  <2>3. Numbers!NumberOf(<<0>> \o e) = n
    <3> DEFINE p == Numbers!Pow(Len(e))
    <3>1. Numbers!NumberOf(<<0>> \o e) = 0 * p + n
      BY <2>1, <2>2, FewIs, NumberOfBoth
    <3>2. p \in Nat
      <4>1. Len(e) \in Nat
        BY <2>1
      <4> QED BY <4>1, PowType
    <3> HIDE DEF p
    <3> QED BY <1>4, <3>1, <3>2
  <2>4. D = Numbers!OfString(Numbers!Text(neg, <<0>>, e))
    BY <1>3, <1>6 DEF e
  <2>5. StandsFor(D, sg * n, l)
    <3>1. StandsFor(D, sg * Numbers!NumberOf(<<0>> \o e), Len(e))
      BY <2>1, <2>2, <2>4, OfStringStands DEF sg
    <3> HIDE DEF l
    <3> QED BY <2>1, <2>3, <3>1
  <2>6. s = l /\ s - l = 0 /\ n * Numbers!Pow(s - l) = n
    <3> HIDE DEF s, l
    <3>1. s = l /\ s - l = 0
      BY <1>4, <2>1
    <3> QED BY <1>4, <1>5, <3>1, PowOfNone
  <2> HIDE DEF s, l
  <2> QED BY <2>5, <2>6
<1>7. CASE ~(point <= 0) /\ point >= m
  <2> DEFINE e == ds \o Numbers!Zeros(point - m)
  <2>1. /\ e \in Seq(Few) /\ Numbers!NumberOf(e) = n * Numbers!Pow(point - m)
        /\ e \o <<>> = e
    <3>1. point - m \in Nat
      BY <1>2, <1>7
    <3>2. e \in Seq(Few) /\ Numbers!NumberOf(e) = n * Numbers!Pow(point - m)
      BY <1>1, <3>1, ZerosBehind DEF n
    <3> HIDE DEF e
    <3> QED BY <3>2, ConcatEmptySeq
  <2>2. s = 0 /\ s - l = point - m
    <3> HIDE DEF s, l, m
    <3> QED BY <1>2, <1>4, <1>7
  <2> HIDE DEF e
  <2>3. D = Numbers!OfString(Numbers!Text(neg, e, <<>>))
    BY <1>3, <1>7 DEF e
  <2>4. StandsFor(D, sg * Numbers!NumberOf(e), 0)
    BY <2>1, <2>3, OfStringStands, NumberOfNone DEF sg
  <2> HIDE DEF s, l
  <2> QED BY <2>1, <2>2, <2>4
<1>8. CASE ~(point <= 0) /\ ~(point >= m)
  <2> DEFINE u == SubSeq(ds, 1, point)  v == SubSeq(ds, point + 1, m)
  <2>1. u \in Seq(Few) /\ v \in Seq(Few) /\ u \o v = ds /\ Len(v) = l /\ l >= 0
    <3>1. point \in 0..Len(ds)
      BY <1>2, <1>8
    <3>2. u \in Seq(Few) /\ v \in Seq(Few) /\ ds = u \o v /\ Len(v) = m - point
      BY <1>1, <3>1, CutIs
    <3>3. m - point = l /\ l >= 0
      <4> HIDE DEF l, m
      <4> QED BY <1>2, <1>4, <1>8
    <3> HIDE DEF u, v, l, m
    <3> QED BY <3>2, <3>3
  <2> HIDE DEF u, v
  <2>2. D = Numbers!OfString(Numbers!Text(neg, u, v))
    BY <1>3, <1>8 DEF u, v
  <2>3. StandsFor(D, sg * n, l)
    <3>1. StandsFor(D, sg * Numbers!NumberOf(u \o v), Len(v))
      BY <2>1, <2>2, OfStringStands DEF sg
    <3> HIDE DEF l
    <3> QED BY <2>1, <3>1 DEF n
  <2>4. s = l /\ s - l = 0 /\ n * Numbers!Pow(s - l) = n
    <3> HIDE DEF s, l
    <3>1. s = l /\ s - l = 0
      BY <1>4, <2>1
    <3> QED BY <1>4, <1>5, <3>1, PowOfNone
  <2> HIDE DEF s, l
  <2> QED BY <2>3, <2>4
<1> QED BY <1>6, <1>7, <1>8

-----------------------------------------------------------------------------
(* The decimals a program makes.                                           *)

LEMMA OfBigIntStands == \A n \in Int : StandsFor(Numbers!OfBigInt(n), n, 0)
<1> SUFFICES ASSUME NEW n \in Int PROVE StandsFor(Numbers!OfBigInt(n), n, 0)
  OBVIOUS
<1> DEFINE d == Numbers!OfBigInt(n)
<1>1. d.int = n /\ d.frac = 0 /\ d.scale = 0 /\ d = Numbers!Decimal(n, 0, 0)
  BY DEF Numbers!OfBigInt, Numbers!Decimal
<1> HIDE DEF d
<1>2. Form(d)
  <2>1. Numbers!Abs(0) < 1
    BY DEF Numbers!Abs
  <2> QED BY <1>1, <2>1, PowOfNone DEF Form
<1>3. Numbers!ValueOf(d) = n * Numbers!Pow(d.scale - 0)
  <2>1. n * 1 + 0 = n * 1 /\ 0 - 0 = 0
    OBVIOUS
  <2> QED BY <1>1, <2>1, PowOfNone DEF Numbers!ValueOf
<1> QED BY <1>1, <1>2, <1>3 DEF StandsFor, d

\* A tuple whose fraction is less than two.
LEMMA OfTupleStands ==
  ASSUME NEW int \in Nat, NEW frac \in Nat, NEW s \in Nat
  PROVE  StandsFor(Numbers!OfTuple(int, frac, s), int * Numbers!Pow(s) + frac, s)
<1> DEFINE p == Numbers!Pow(s)  d == Numbers!OfTuple(int, frac, s)  v == int * p + frac
           q == frac \div p  r == frac % p
<1>1. p \in Nat \ {0}
  BY PowType
<1>2. q \in Nat /\ r \in Nat /\ r < p /\ frac = p * q + r
  <2> HIDE DEF p
  <2> QED BY <1>1, Divides
<1> HIDE DEF q, r
<1>3. \E i \in Nat, f \in Nat : d = Numbers!Decimal(i, f, s) /\ f < p /\ i * p + f = v
  <2>1. CASE frac >= p
    <3>1. d = Numbers!Decimal(int + q, r, s)
      BY <2>1 DEF Numbers!OfTuple, q, r
    <3> HIDE DEF p, d
    <3>2. (int + q) * p + r = v /\ int + q \in Nat
      BY <1>1, <1>2
    <3> HIDE DEF v
    <3> QED BY <1>2, <3>1, <3>2
  <2>2. CASE ~(frac >= p)
    <3>1. d = Numbers!Decimal(int, frac, s)
      BY <2>2 DEF Numbers!OfTuple
    <3> HIDE DEF p, d
    <3> QED BY <1>1, <2>2, <3>1
  <2> QED BY <2>1, <2>2
<1>4. PICK i \in Nat, f \in Nat : d = Numbers!Decimal(i, f, s) /\ f < p /\ i * p + f = v
  BY <1>3
<1>5. v \in Int /\ v * 1 = v
  <2> HIDE DEF p
  <2> QED BY <1>1
<1> HIDE DEF d, p, v
<1>6. d.int = i /\ d.frac = f /\ d.scale = s
  BY <1>4 DEF Numbers!Decimal
<1>7. Form(d)
  <2>1. Numbers!Abs(f) < p
    BY <1>4 DEF Numbers!Abs
  <2> QED BY <1>4, <1>6, <2>1 DEF Form, p
<1>8. Numbers!ValueOf(d) = v /\ s - s = 0
  BY <1>4, <1>6 DEF Numbers!ValueOf, p
<1>9. StandsFor(d, v, s)
  BY <1>5, <1>6, <1>7, <1>8, PowOfNone DEF StandsFor
<1> QED BY <1>9 DEF d, v, p

\* A tuple is its number, whatever its parts are.
LEMMA OfTupleMeans ==
  ASSUME NEW int \in Int, NEW frac \in Int, NEW s \in Nat
  PROVE  Means(Numbers!OfTuple(int, frac, s), int * Numbers!Pow(s) + frac, s)
<1> DEFINE p == Numbers!Pow(s)  d == Numbers!OfTuple(int, frac, s)  v == int * p + frac
           q == frac \div p  r == frac % p
<1>1. p \in Nat \ {0}
  BY PowType
<1>2. frac >= p => q \in Nat /\ r \in Nat /\ frac = p * q + r
  <2> HIDE DEF p
  <2> QED BY <1>1, Divides
<1> HIDE DEF q, r
<1>3. \E i \in Int, f \in Int : d = Numbers!Decimal(i, f, s) /\ i * p + f = v
  <2>1. CASE frac >= p
    <3>1. d = Numbers!Decimal(int + q, r, s)
      BY <2>1 DEF Numbers!OfTuple, q, r
    <3> HIDE DEF p, d
    <3>2. (int + q) * p + r = v /\ int + q \in Int
      BY <1>1, <1>2, <2>1
    <3> HIDE DEF v
    <3> QED BY <1>2, <2>1, <3>1, <3>2
  <2>2. CASE ~(frac >= p)
    <3>1. d = Numbers!Decimal(int, frac, s)
      BY <2>2 DEF Numbers!OfTuple
    <3> HIDE DEF p, d
    <3> QED BY <1>1, <2>2, <3>1
  <2> QED BY <2>1, <2>2
<1>4. PICK i \in Int, f \in Int : d = Numbers!Decimal(i, f, s) /\ i * p + f = v
  BY <1>3
<1>5. v \in Int /\ v * 1 = v
  <2> HIDE DEF p
  <2> QED BY <1>1
<1> HIDE DEF d, p, v
<1>6. d.int = i /\ d.frac = f /\ d.scale = s
  BY <1>4 DEF Numbers!Decimal
<1>7. Numbered(d)
  BY <1>4, <1>6 DEF Numbered
<1>8. Numbers!ValueOf(d) = v /\ s - s = 0
  BY <1>4, <1>6 DEF Numbers!ValueOf, p
<1>9. Means(d, v, s)
  BY <1>5, <1>6, <1>7, <1>8, PowOfNone DEF Means
<1> QED BY <1>9 DEF d, v, p

\* The sign of the number is that of the value.
LEMMA SignMeant ==
  ASSUME NEW d, NEW n, NEW o, Means(d, n, o)
  PROVE  LET v == Numbers!ValueOf(d) IN v \in Int /\ (v < 0) = (n < 0) /\ (v = 0) = (n = 0)
<1> DEFINE v == Numbers!ValueOf(d)  c == Numbers!Pow(d.scale - o)
<1>1. n \in Int /\ d.scale - o \in Nat /\ v = n * c
  BY DEF Means, Numbered
<1>2. c \in Nat \ {0}
  BY <1>1, PowType
<1> HIDE DEF v, c
<1>3. 0 * c = 0 /\ (n * c < 0 * c) = (n < 0) /\ (n * c = 0 * c) = (n = 0) /\ n * c \in Int
  BY <1>1, <1>2, OrderScales
<1> DEFINE m == n * c  z == 0 * c
<1>4. m \in Int /\ z = 0 /\ (m < z) = (n < 0) /\ (m = z) = (n = 0) /\ v = m
  BY <1>1, <1>3
<1> HIDE DEF m, z
<1>5. v \in Int /\ (v < 0) = (n < 0) /\ (v = 0) = (n = 0)
  BY <1>4
<1> QED BY <1>5 DEF v

LEMMA NegatedMeans ==
  ASSUME NEW d, NEW n, NEW o, Means(d, n, o)
  PROVE  Means(Numbers!OfTuple(-d.int, -d.frac, d.scale), -n, o)
<1> DEFINE p == Numbers!Pow(d.scale)  c == Numbers!Pow(d.scale - o)
           i == d.int  f == d.frac  e == Numbers!OfTuple(-i, -f, d.scale)
<1>1. /\ i \in Int /\ f \in Int /\ d.scale \in Nat /\ n \in Int /\ o \in Nat /\ o <= d.scale
      /\ i * p + f = n * c
  BY DEF Means, Numbered, Numbers!ValueOf
<1>2. p \in Nat \ {0} /\ c \in Nat \ {0} /\ d.scale - o \in Nat
  <2>1. d.scale - o \in Nat
    BY <1>1
  <2> HIDE DEF i, f
  <2> QED BY <1>1, <2>1, PowType
<1> HIDE DEF i, f, c
<1>3. (-i) * p + (-f) = (-n) * c
  <2> HIDE DEF p
  <2>1. (-i) * p = -(i * p) /\ (-n) * c = -(n * c) /\ i * p \in Int /\ n * c \in Int
    BY <1>1, <1>2
  <2> DEFINE x == i * p  y == n * c
  <2>2. x \in Int /\ y \in Int /\ x + f = y /\ (-i) * p = -x /\ (-n) * c = -y
    BY <1>1, <2>1
  <2> HIDE DEF x, y
  <2>3. -x + (-f) = -y
    BY <1>1, <2>2
  <2> QED BY <2>2, <2>3
<1>4. Means(e, (-i) * p + (-f), d.scale)
  <2>1. -i \in Int /\ -f \in Int
    BY <1>1
  <2> QED BY <1>1, <2>1, OfTupleMeans
<1>5. e.scale = d.scale
  BY DEF Numbers!OfTuple, Numbers!Decimal
<1> HIDE DEF e
<1>6. Numbered(e) /\ Numbers!ValueOf(e) = ((-i) * p + (-f)) * Numbers!Pow(0)
  <2>1. e.scale - d.scale = 0
    BY <1>1, <1>5
  <2> HIDE DEF p
  <2> QED BY <1>4, <2>1 DEF Means
<1>7. Numbers!ValueOf(e) = (-n) * c
  <2> DEFINE y == (-n) * c
  <2>1. y \in Int
    BY <1>1, <1>2
  <2>2. Numbers!ValueOf(e) = y * 1
    <3> HIDE DEF y, p
    <3> QED BY <1>3, <1>6, PowOfNone DEF y
  <2> HIDE DEF y
  <2>3. Numbers!ValueOf(e) = y
    BY <2>1, <2>2
  <2> QED BY <2>3 DEF y
<1>8. -n \in Int
  BY <1>1
<1> QED BY <1>1, <1>5, <1>6, <1>7, <1>8 DEF Means, c, e, i, f

\* abs() of parts of one sign.
LEMMA AbsMeans ==
  ASSUME NEW d, NEW n, NEW o, Means(d, n, o), Numbers!OfOneSign(d)
  PROVE  Means(Numbers!AbsOf(d), Numbers!Abs(n), o)
<1> DEFINE p == Numbers!Pow(d.scale)  v == Numbers!ValueOf(d)
<1>1. /\ d.int \in Int /\ d.frac \in Int /\ d.scale \in Nat /\ n \in Int
      /\ v = d.int * p + d.frac
  BY DEF Means, Numbered, Numbers!ValueOf
<1>2. p \in Nat \ {0}
  BY <1>1, PowType
<1>3. v \in Int /\ (v < 0) = (n < 0) /\ (v = 0) = (n = 0)
  BY SignMeant
<1>4. CASE d.int < 0 \/ d.frac < 0
  <2>1. d.int <= 0 /\ d.frac <= 0
    BY <1>1, <1>4 DEF Numbers!OfOneSign
  <2>2. Numbers!Abs(d.int) = -d.int /\ Numbers!Abs(d.frac) = -d.frac
    BY <1>1, <2>1 DEF Numbers!Abs
  <2>3. v <= 0
    <3>1. d.int * p <= 0 /\ d.int * p \in Int
      <4> HIDE DEF p
      <4> QED BY <1>1, <1>2, <2>1
    <3> QED BY <1>1, <2>1, <3>1
  <2> HIDE DEF v
  <2>4. Numbers!Abs(n) = -n
    BY <1>1, <1>3, <2>3 DEF Numbers!Abs
  <2>5. Numbers!AbsOf(d) = Numbers!OfTuple(-d.int, -d.frac, d.scale)
    BY <1>4, <2>2 DEF Numbers!AbsOf
  <2> QED BY <2>4, <2>5, NegatedMeans
<1>5. CASE ~(d.int < 0 \/ d.frac < 0)
  <2>1. d.int >= 0 /\ d.frac >= 0
    BY <1>1, <1>5
  <2>2. v >= 0
    <3>1. d.int * p >= 0 /\ d.int * p \in Int
      <4> HIDE DEF p
      <4> QED BY <1>1, <1>2, <2>1
    <3> QED BY <1>1, <2>1, <3>1
  <2> HIDE DEF v
  <2>3. Numbers!Abs(n) = n
    BY <1>1, <1>3, <2>2 DEF Numbers!Abs
  <2>4. Numbers!AbsOf(d) = d
    BY <1>5 DEF Numbers!AbsOf
  <2> QED BY <2>3, <2>4
<1> QED BY <1>4, <1>5

\* abs() of parts that differ in sign has the form, of another number.
LEMMA AbsHasForm ==
  ASSUME NEW d, Numbered(d), ~Numbers!OfOneSign(d)
  PROVE  Form(Numbers!AbsOf(d))
<1> DEFINE i == Numbers!Abs(d.int)  f == Numbers!Abs(d.frac)
<1>1. d.int \in Int /\ d.frac \in Int /\ d.scale \in Nat
  BY DEF Numbered
<1>2. i \in Nat /\ f \in Nat
  BY <1>1 DEF Numbers!Abs
<1>3. d.int < 0 \/ d.frac < 0
  BY <1>1 DEF Numbers!OfOneSign
<1>4. Numbers!AbsOf(d) = Numbers!OfTuple(i, f, d.scale)
  BY <1>3 DEF Numbers!AbsOf
<1> HIDE DEF i, f
<1>5. StandsFor(Numbers!OfTuple(i, f, d.scale), i * Numbers!Pow(d.scale) + f, d.scale)
  BY <1>1, <1>2, OfTupleStands
<1> QED BY <1>4, <1>5 DEF StandsFor

LEMMA AbsIsNumbered ==
  ASSUME NEW d, Numbered(d)
  PROVE  Numbered(Numbers!AbsOf(d))
<1> DEFINE i == Numbers!Abs(d.int)  f == Numbers!Abs(d.frac)
<1>1. i \in Int /\ f \in Int /\ d.scale \in Nat
  BY DEF Numbered, Numbers!Abs
<1> HIDE DEF i, f
<1>2. Means(Numbers!OfTuple(i, f, d.scale), i * Numbers!Pow(d.scale) + f, d.scale)
  BY <1>1, OfTupleMeans
<1>3. Numbers!AbsOf(d) \in {d, Numbers!OfTuple(i, f, d.scale)}
  BY DEF Numbers!AbsOf, i, f
<1> QED BY <1>2, <1>3 DEF Means

-----------------------------------------------------------------------------
(* The decimals a program comes to.                                        *)

\* What is known of a decimal: its parts are numbers; it is its number, unless
\* that is in doubt; and it has its form, unless the parts are.
Known(d, n, o, q) ==
  /\ Numbered(d)
  /\ q # "value" => Means(d, n, o)
  /\ q # "parts" => Form(d)

DecInv == Known(dec, num, over, doubt)

LEMMA KnownIfStands == \A d, n, o, q : StandsFor(d, n, o) => Known(d, n, o, q)
BY StandsForIs, FormIs DEF Known

LEMMA OneDigit ==
  \A a \in Few : /\ a \in Nat /\ <<a>> \in Seq(Few) /\ Len(<<a>>) = 1
                 /\ Numbers!NumberOf(<<a>>) = a
<1> SUFFICES ASSUME NEW a \in Few
             PROVE  /\ a \in Nat /\ <<a>> \in Seq(Few) /\ Len(<<a>>) = 1
                    /\ Numbers!NumberOf(<<a>>) = a
  OBVIOUS
<1>1. a \in Nat
  BY FewIs
<1>2. <<a>> \in Seq(Few) /\ Len(<<a>>) = 1
  OBVIOUS
<1>3. Numbers!NumberOf(<<a>>) = a
  BY <1>1, NumberOfOne
<1> QED BY <1>1, <1>2, <1>3

LEMMA TwoDigits ==
  ASSUME NEW a \in Few, NEW b \in Few
  PROVE  /\ <<a>> \o <<b>> \in Seq(Few) /\ Len(<<a>> \o <<b>>) = 2
         /\ <<a, b>> = <<a>> \o <<b>>
         /\ Numbers!NumberOf(<<a>> \o <<b>>) = a * Numbers!Pow(1) + b
<1> DEFINE x == <<a>>  y == <<b>>  u == x \o y  t == <<a, b>>
<1>1. x \in Seq(Few) /\ Len(x) = 1 /\ x[1] = a /\ Numbers!NumberOf(x) = a
  BY OneDigit
<1>2. y \in Seq(Few) /\ Len(y) = 1 /\ y[1] = b /\ Numbers!NumberOf(y) = b
  BY OneDigit
<1>3. t \in Seq(Few) /\ Len(t) = 2 /\ t[1] = a /\ t[2] = b
  OBVIOUS
<1> HIDE DEF x, y, t
<1>4. /\ u \in Seq(Few) /\ Len(u) = 1 + 1
      /\ \A i \in 1..(1 + 1) : u[i] = IF i <= 1 THEN x[i] ELSE y[i - 1]
  BY <1>1, <1>2, ConcatProperties
<1>5. Numbers!NumberOf(u) = a * Numbers!Pow(1) + b
  <2>1. x \in Seq(Nat) /\ y \in Seq(Nat)
    BY <1>1, <1>2, FewIs
  <2> QED BY <1>1, <1>2, <2>1, NumberOfBoth
<1> HIDE DEF u
<1>6. u[1] = a /\ u[2] = b /\ Len(u) = 2
  BY <1>1, <1>2, <1>4
<1>7. t = u
  <2>1. \A i \in 1..Len(t) : t[i] = u[i]
    BY <1>3, <1>6
  <2> QED BY <1>3, <1>4, <1>6, <2>1, SeqEqual
<1> QED BY <1>4, <1>5, <1>6, <1>7 DEF u, x, y, t

LEMMA OtherDecimals ==
  \A b \in Numbers!Others : Form(b) /\ Numbers!ValueOf(b) # 0
<1>1. \A d, n, o : StandsFor(d, n, o) /\ n # 0 => Form(d) /\ Numbers!ValueOf(d) # 0
  BY SignOf DEF StandsFor
<1>2. 0 \in Few /\ 1 \in Few /\ 2 \in Few /\ 3 \in Few
  BY FewIs
<1>3. Numbers!Pow(1) \in Nat \ {0}
  BY PowType
<1>4. Form(Numbers!OfBigInt(3)) /\ Numbers!ValueOf(Numbers!OfBigInt(3)) # 0
  BY <1>1, OfBigIntStands
<1>5. ASSUME NEW d, d = Numbers!OfString(Numbers!Text(TRUE, << 1 >>, << 2 >>))
      PROVE  Form(d) /\ Numbers!ValueOf(d) # 0
  <2> DEFINE n == Numbers!NumberOf(<<1>> \o <<2>>)
  <2>1. n = 1 * Numbers!Pow(1) + 2
    BY <1>2, TwoDigits
  <2>2. StandsFor(d, SignIs(TRUE) * n, 1)
    <3>1. <<1>> \in Seq(Few) /\ <<2>> \in Seq(Few) /\ Len(<<2>>) = 1 /\ TRUE \in BOOLEAN
      BY <1>2, OneDigit
    <3> QED BY <1>5, <3>1, OfStringStands
  <2> HIDE DEF n
  <2>3. SignIs(TRUE) * n # 0
    BY <1>3, <2>1 DEF SignIs
  <2> QED BY <1>1, <2>2, <2>3
<1>6. ASSUME NEW d, d = Numbers!OfString(Numbers!Text(FALSE, << 0 >>, << 0, 3 >>))
      PROVE  Form(d) /\ Numbers!ValueOf(d) # 0
  <2> DEFINE t == <<0, 3>>  n == Numbers!NumberOf(<<0>> \o t)  m == Numbers!NumberOf(t)
  <2>1. t \in Seq(Few) /\ Len(t) = 2
    BY <1>2
  <2>2. m = 0 * Numbers!Pow(1) + 3
    BY <1>2, TwoDigits
  <2>3. <<0>> \in Seq(Few) /\ Numbers!NumberOf(<<0>>) = 0 /\ FALSE \in BOOLEAN
    BY <1>2, OneDigit
  <2> HIDE DEF t
  <2>4. n = 0 * Numbers!Pow(2) + m
    <3>1. <<0>> \in Seq(Nat) /\ t \in Seq(Nat)
      BY <2>1, <2>3, FewIs
    <3> QED BY <2>1, <2>3, <3>1, NumberOfBoth
  <2>5. StandsFor(d, SignIs(FALSE) * n, 2)
    <3>1. d = Numbers!OfString(Numbers!Text(FALSE, <<0>>, t))
      BY <1>6 DEF t
    <3> QED BY <2>1, <2>3, <3>1, OfStringStands
  <2> HIDE DEF n, m
  <2>6. Numbers!Pow(2) \in Nat
    BY PowType
  <2>7. SignIs(FALSE) * n # 0
    BY <1>3, <2>2, <2>4, <2>6 DEF SignIs
  <2> QED BY <1>1, <2>5, <2>7
<1> QED BY <1>4, <1>5, <1>6 DEF Numbers!Others

LEMMA StringsAre == \A s \in Numbers!Strings : s \in Seq(Few)
<1> SUFFICES ASSUME NEW n \in 1..2, NEW s \in [1..n -> Few] PROVE s \in Seq(Few)
  BY FewIs DEF Numbers!Strings
<1>1. n \in Nat
  OBVIOUS
<1> QED BY <1>1

LEMMA NewIsKnown ==
  \A d, n, s, q : Numbers!New(d, n, s, q) /\ Known(d, n, s, q) => DecInv'
<1> SUFFICES ASSUME NEW d, NEW n, NEW s, NEW q, Numbers!New(d, n, s, q), Known(d, n, s, q)
             PROVE  DecInv'
  OBVIOUS
<1>1. dec' = d /\ doubt' = q /\ (q # "value" => num' = n /\ over' = s)
  BY DEF Numbers!New
<1>2. Numbered(d) => Numbered(dec)'
  BY <1>1 DEF Numbered, Numbers!Decimal
<1>3. Means(d, n, s) /\ q # "value" => Means(dec, num, over)'
  BY <1>1, <1>2 DEF Means, Numbers!ValueOf, Numbers!Pow
<1>4. Form(d) => Form(dec)'
  BY <1>1 DEF Form, Numbers!Decimal, Numbers!Abs, Numbers!Pow
<1> QED BY <1>1, <1>2, <1>3, <1>4 DEF DecInv, Known

LEMMA DecimalsInit == ASSUME Numbers!Init PROVE DecInv
BY OfBigIntStands, KnownIfStands DEF Numbers!Init, DecInv

LEMMA MakeStep == ASSUME Numbers!Make PROVE DecInv'
<1>1. ASSUME NEW n \in -2..2, Numbers!New(Numbers!OfBigInt(n), n, 0, "none") PROVE DecInv'
  <2>1. n \in Int
    OBVIOUS
  <2> QED BY <1>1, <2>1, OfBigIntStands, KnownIfStands, NewIsKnown
<1>2. ASSUME NEW int \in -2..2, NEW frac \in -(Radix + 1)..(Radix + 1),
             Numbers!New(Numbers!OfTuple(int, frac, 1), int * Radix + frac, 1,
                         IF Numbers!InForm(Numbers!OfTuple(int, frac, 1))
                         THEN "none" ELSE "parts")
      PROVE  DecInv'
  <2> DEFINE d == Numbers!OfTuple(int, frac, 1)  n == int * Radix + frac
             q == IF Numbers!InForm(d) THEN "none" ELSE "parts"
  <2>1. int \in Int /\ frac \in Int
    BY RadixIs
  <2>2. Numbers!Pow(1) = Radix
    <3>1. Numbers!Pow(0 + 1) = Radix * Numbers!Pow(0)
      BY PowOfMore
    <3> QED BY <3>1, PowOfNone, RadixIs
  <2>3. Means(d, n, 1)
    BY <2>1, <2>2, OfTupleMeans
  <2> HIDE DEF d, n
  <2>4. Known(d, n, 1, q)
    BY <2>3, FormIs DEF Known, Means
  <2>5. Numbers!New(d, n, 1, q)
    BY <1>2 DEF d, n
  <2> HIDE DEF q
  <2> QED BY <2>4, <2>5, NewIsKnown
<1>3. ASSUME NEW neg \in BOOLEAN, NEW int \in Numbers!Strings, NEW frac \in Numbers!Strings,
             Numbers!New(Numbers!OfString(Numbers!Text(neg, int, frac)),
                         (IF neg THEN -1 ELSE 1) * Numbers!NumberOf(int \o frac), Len(frac),
                         "none")
      PROVE  DecInv'
  <2>1. StandsFor(Numbers!OfString(Numbers!Text(neg, int, frac)),
                  (IF neg THEN -1 ELSE 1) * Numbers!NumberOf(int \o frac), Len(frac))
    BY StringsAre, OfStringStands DEF SignIs
  <2> QED BY <1>3, <2>1, KnownIfStands, NewIsKnown
<1> QED BY <1>1, <1>2, <1>3 DEF Numbers!Make

LEMMA MakeScientificStep == ASSUME Numbers!MakeScientific PROVE DecInv'
<1>1. PICK first \in Numbers!Few \ {0}, frac \in Numbers!Strings, exp \in -1..2 :
        Numbers!New(Numbers!FromScientificNotation(
                      Numbers!Scientific(FALSE, <<first>>, frac, exp)),
                    Numbers!NumeratorOf(first, frac, exp), Numbers!ScaleOf(frac, exp), "none")
  BY DEF Numbers!MakeScientific
<1> DEFINE n == Numbers!NumberOf(<<first>> \o frac)  l == Len(frac) - exp
           s == Numbers!Larger(l, 0)  w == n * Numbers!Pow(s - l)
           d == Numbers!FromScientificNotation(Numbers!Scientific(FALSE, <<first>>, frac, exp))
<1>2. first \in Few \ {0} /\ frac \in Seq(Few) /\ exp \in Int /\ FALSE \in BOOLEAN
  BY FewIs, StringsAre
<1>3. StandsFor(d, SignIs(FALSE) * w, s) /\ n \in Nat /\ s - l \in Nat
  BY <1>2, FromScientificStands
<1>4. w \in Int
  <2>1. Numbers!Pow(s - l) \in Nat
    BY <1>3, PowType
  <2> HIDE DEF n, s, l
  <2> QED BY <1>3, <2>1
<1>5. Numbers!NumeratorOf(first, frac, exp) = w /\ Numbers!ScaleOf(frac, exp) = s
  BY DEF Numbers!NumeratorOf, Numbers!ScaleOf
<1> HIDE DEF w, d, s
<1>6. SignIs(FALSE) * w = w
  BY <1>4 DEF SignIs
<1>7. Numbers!New(d, w, s, "none")
  BY <1>1, <1>5 DEF d
<1> QED BY <1>3, <1>6, <1>7, KnownIfStands, NewIsKnown

LEMMA MakeOfNumberStep == ASSUME Numbers!MakeOfNumber PROVE DecInv'
<1>1. PICK frac \in {<< >>, << 2 >>}, exp \in {-2, 2} :
        Numbers!New(Numbers!OfNumber(Numbers!Scientific(FALSE, << 1 >>, frac, exp)),
                    Numbers!NumeratorOf(1, frac, exp), Numbers!ScaleOf(frac, exp), "value")
  BY DEF Numbers!MakeOfNumber
<1> DEFINE n == Numbers!NumberOf(<< 1 >>)
           i == IF frac = << >> THEN 0 ELSE (IF FALSE THEN -1 ELSE 1) * n
           d == Numbers!OfNumber(Numbers!Scientific(FALSE, << 1 >>, frac, exp))
<1>2. d = Numbers!Decimal(i, 0, 1)
  BY DEF Numbers!OfNumber, Numbers!Scientific
<1>3. n \in Nat
  BY FewIs, OneDigit
<1> HIDE DEF n, d
<1>4. i \in Int
  BY <1>3
<1> HIDE DEF i
<1>5. d.int = i /\ d.frac = 0 /\ d.scale = 1 /\ d = Numbers!Decimal(d.int, d.frac, d.scale)
  BY <1>2 DEF Numbers!Decimal
<1>6. Numbers!Abs(0) < Numbers!Pow(1)
  <2>1. Numbers!Pow(1) \in Nat \ {0}
    BY PowType
  <2> QED BY <2>1 DEF Numbers!Abs
<1>7. Form(d)
  BY <1>4, <1>5, <1>6 DEF Form
<1>8. \A m, o : Known(d, m, o, "value")
  BY <1>7, FormIs DEF Known
<1>9. Numbers!New(d, Numbers!NumeratorOf(1, frac, exp), Numbers!ScaleOf(frac, exp), "value")
  BY <1>1 DEF d
<1> QED BY <1>8, <1>9, NewIsKnown

LEMMA CombineStep == ASSUME DecInv, Numbers!Combine PROVE DecInv'
<1> DEFINE q == IF doubt = "value" THEN "value" ELSE "none"
<1>1. PICK b \in Numbers!Others :
        LET s == Numbers!Larger(over, b.scale)
            m == num * Numbers!Pow(s - over)
            n == Numbers!ValueOf(b) * Numbers!Pow(s - b.scale)
        IN \/ Numbers!New(Numbers!Add(dec, b), m + n, s, q)
           \/ Numbers!New(Numbers!Sub(dec, b), m - n, s, q)
           \/ Numbers!New(Numbers!Mul(dec, b), num * Numbers!ValueOf(b), over + b.scale, q)
           \/ Numbers!New(Numbers!Mod(dec, b), Numbers!Rem(m, n), s, q)
           \/ /\ Numbers!CanDivide(dec, b)
              /\ Numbers!New(Numbers!Div(dec, b), Numbers!Quot(m * Numbers!Pow(TargetScale), n),
                             TargetScale, q)
  BY DEF Numbers!Combine
<1> DEFINE s == Numbers!Larger(over, b.scale)
           m == num * Numbers!Pow(s - over)
           n == Numbers!ValueOf(b) * Numbers!Pow(s - b.scale)
<1>2. /\ Form(b) /\ Numbers!ValueOf(b) # 0
      /\ doubt # "value" => Means(dec, num, over)
      /\ Means(dec, Numbers!ValueOf(dec), dec.scale)
  BY OtherDecimals, MeansItself DEF DecInv, Known
<1>3. doubt # "value"
        => /\ StandsFor(Numbers!Add(dec, b), m + n, s)
           /\ StandsFor(Numbers!Sub(dec, b), m - n, s)
           /\ StandsFor(Numbers!Mod(dec, b), Numbers!Rem(m, n), s)
           /\ StandsFor(Numbers!Mul(dec, b), num * Numbers!ValueOf(b), over + b.scale)
           /\ Numbers!CanDivide(dec, b)
                => StandsFor(Numbers!Div(dec, b),
                             Numbers!Quot(m * Numbers!Pow(TargetScale), n), TargetScale)
  BY <1>2, SumStands, ProductStands, QuotientStands
<1>4. /\ Form(Numbers!Add(dec, b)) /\ Form(Numbers!Sub(dec, b)) /\ Form(Numbers!Mod(dec, b))
      /\ Form(Numbers!Mul(dec, b))
      /\ Numbers!CanDivide(dec, b) => Form(Numbers!Div(dec, b))
  BY <1>2, SumStands, ProductStands, QuotientStands DEF StandsFor
<1>5. \A d, x, o : Form(d) /\ (doubt # "value" => StandsFor(d, x, o))
                     /\ Numbers!New(d, x, o, q) => DecInv'
  <2>1. \A d, x, o : Form(d) /\ (doubt # "value" => StandsFor(d, x, o)) => Known(d, x, o, q)
    BY StandsForIs, FormIs DEF Known
  <2> HIDE DEF q
  <2> QED BY <2>1, NewIsKnown
<1>6. \/ Numbers!New(Numbers!Add(dec, b), m + n, s, q)
      \/ Numbers!New(Numbers!Sub(dec, b), m - n, s, q)
      \/ Numbers!New(Numbers!Mul(dec, b), num * Numbers!ValueOf(b), over + b.scale, q)
      \/ Numbers!New(Numbers!Mod(dec, b), Numbers!Rem(m, n), s, q)
      \/ /\ Numbers!CanDivide(dec, b)
         /\ Numbers!New(Numbers!Div(dec, b), Numbers!Quot(m * Numbers!Pow(TargetScale), n),
                        TargetScale, q)
  BY <1>1
<1> HIDE DEF s, m, n, q
<1> QED BY <1>3, <1>4, <1>5, <1>6

LEMMA ChangeStep == ASSUME DecInv, Numbers!Change PROVE DecInv'
<1> DEFINE v == Numbers!ValueOf(dec)  q == IF Numbers!OfOneSign(dec) THEN doubt ELSE "value"
           N == Numbers!Negated(dec)  A == Numbers!AbsOf(dec)
<1>1. /\ Numbered(dec) /\ Means(dec, v, dec.scale)
      /\ doubt # "value" => Means(dec, num, over)
      /\ doubt # "parts" => Form(dec)
  BY MeansItself DEF DecInv, Known
<1>2. Form(dec) => Form(N) /\ Form(A)
  BY StandsForItself, ChangesStand DEF StandsFor
<1>3. Known(N, -num, over, doubt)
  <2>1. \A x, o : Means(dec, x, o) => Means(N, -x, o)
    BY NegatedMeans DEF Numbers!Negated
  <2>2. Numbered(N)
    <3> HIDE DEF N, v
    <3> QED BY <1>1, <2>1 DEF Means
  <2> HIDE DEF N
  <2> QED BY <1>1, <1>2, <2>1, <2>2 DEF Known
<1>4. Known(A, Numbers!Abs(num), over, q)
  <2>1. Numbered(A)
    BY <1>1, AbsIsNumbered
  <2>2. q # "value" => Means(A, Numbers!Abs(num), over)
    BY <1>1, AbsMeans
  <2>3. q # "parts" => Form(A)
    BY <1>1, <1>2, AbsHasForm
  <2> HIDE DEF A, q
  <2> QED BY <2>1, <2>2, <2>3 DEF Known
<1>5. Numbers!New(N, -num, over, doubt) \/ Numbers!New(A, Numbers!Abs(num), over, q)
  BY DEF Numbers!Change
<1> HIDE DEF N, A, q
<1> QED BY <1>3, <1>4, <1>5, NewIsKnown

LEMMA DecimalsStep == ASSUME DecInv, Numbers!Next PROVE DecInv'
BY MakeStep, MakeScientificStep, MakeOfNumberStep, CombineStep, ChangeStep DEF Numbers!Next

LEMMA DecimalsRest == ASSUME DecInv, UNCHANGED Numbers!vars PROVE DecInv'
BY DEF DecInv, Known, Numbers!vars

\* toBigInt() is off by less than one.
LEMMA ToBigIntIsNear ==
  ASSUME NEW d, Form(d)
  PROVE  Numbers!Abs(Numbers!ToBigInt(d) * Numbers!Pow(d.scale) - Numbers!ValueOf(d))
           < Numbers!Pow(d.scale)
<1> DEFINE p == Numbers!Pow(d.scale)  i == d.int  f == d.frac  m == i * p
           t == Numbers!ToBigInt(d)
<1>1. /\ p \in Nat \ {0} /\ i \in Int /\ f \in Int /\ Numbers!Abs(f) < p
      /\ (i >= 0 /\ f >= 0) \/ (i <= 0 /\ f <= 0)
  BY PowType DEF Form
<1>2. Numbers!ValueOf(d) = m + f
  BY DEF Numbers!ValueOf
<1>3. t = IF i < 0 /\ f # 0 THEN i - 1 ELSE i
  BY DEF Numbers!ToBigInt
<1> HIDE DEF p, i, f, t
<1>4. m \in Int /\ (i - 1) * p = m - p
  BY <1>1
<1>5. t * p = IF i < 0 /\ f # 0 THEN m - p ELSE m
  <2> HIDE DEF m
  <2>1. CASE i < 0 /\ f # 0
    BY <1>3, <1>4, <2>1
  <2>2. CASE ~(i < 0 /\ f # 0)
    BY <1>3, <1>4, <2>2 DEF m
  <2> QED BY <2>1, <2>2
<1> DEFINE x == t * p
<1> HIDE DEF m, x
<1>6. Numbers!Abs(x - (m + f)) < p
  <2>1. x = IF i < 0 /\ f # 0 THEN m - p ELSE m
    BY <1>5 DEF x
  <2>2. -p < f /\ f < p
    BY <1>1 DEF Numbers!Abs
  <2> QED BY <1>1, <1>4, <2>1, <2>2 DEF Numbers!Abs
<1> QED BY <1>2, <1>6 DEF x, p, t

LEMMA DecimalsExact == ASSUME DecInv PROVE Numbers!DecimalsAreExact
<1>1. ASSUME doubt # "value"
      PROVE  Means(dec, num, over)
  BY <1>1 DEF DecInv, Known
<1>2. ASSUME doubt # "value"
      PROVE  Numbers!Same(dec, num, over)
  <2> DEFINE V == Numbers!ValueOf(dec)  O == Numbers!Pow(over)  P == Numbers!Pow(dec.scale)
             c == Numbers!Pow(dec.scale - over)
  <2>1. /\ num \in Int /\ over \in Nat /\ V = num * c /\ dec.scale - over \in Nat
        /\ over + (dec.scale - over) = dec.scale
    BY <1>1, <1>2 DEF Means, Numbered
  <2>2. P = O * c /\ O \in Nat /\ c \in Nat
    BY <2>1, PowOfSum, PowType
  <2> HIDE DEF V, O, P, c
  <2>3. (num * c) * O = num * (O * c)
    BY <2>1, <2>2
  <2> QED BY <2>1, <2>2, <2>3 DEF Numbers!Same, V, O, P
<1>3. ASSUME doubt # "value", NEW b \in Numbers!Others
      PROVE  LET d == num * Numbers!Pow(b.scale) - Numbers!ValueOf(b) * Numbers!Pow(over) IN
             Numbers!Compare(dec, b) = IF d < 0 THEN -1 ELSE IF d > 0 THEN 1 ELSE 0
  BY <1>1, <1>3, OtherDecimals, ComparesNumbers
<1>4. ASSUME doubt # "value", NEW p \in 0..2
      PROVE  2 * Numbers!Abs(Numbers!ValueOf(Numbers!Round(dec, p)) * Numbers!Pow(over)
                               - num * Numbers!Pow(p)) <= Numbers!Pow(over)
  <2>1. p \in Nat
    OBVIOUS
  <2>2. RoundedWell(dec, num, over, p)
    BY <1>1, <1>4, <2>1, RoundIs
  <2> QED BY <2>2 DEF RoundedWell
<1>5. ASSUME doubt = "none"
      PROVE  /\ Numbers!InForm(dec)
             /\ Numbers!IsZero(dec) = (num = 0) /\ Numbers!IsNegative(dec) = (num < 0)
             /\ Numbers!Abs(Numbers!ToBigInt(dec) * Numbers!Pow(dec.scale)
                              - Numbers!ValueOf(dec)) < Numbers!Pow(dec.scale)
  <2> DEFINE V == Numbers!ValueOf(dec)
  <2>1. Form(dec) /\ Means(dec, num, over)
    BY <1>5 DEF DecInv, Known
  <2>2. (V < 0) = (num < 0) /\ (V = 0) = (num = 0)
    BY <2>1, SignMeant
  <2>3. (V = 0) = (dec.int = 0 /\ dec.frac = 0)
    BY <2>1, FormHas
  <2>4. (V < 0) = (dec.int < 0 \/ (dec.int = 0 /\ dec.frac < 0))
    BY <2>1, FormHas
  <2>5. Numbers!IsZero(dec) = (num = 0) /\ Numbers!IsNegative(dec) = (num < 0)
    <3> HIDE DEF V
    <3> QED BY <2>2, <2>3, <2>4 DEF Numbers!IsZero, Numbers!IsNegative
  <2> QED BY <2>1, <2>5, FormIs, ToBigIntIsNear
<1> QED BY <1>2, <1>3, <1>4, <1>5 DEF Numbers!DecimalsAreExact

-----------------------------------------------------------------------------
(* The digits of a number.                                                 *)

\* What the digits of k are, those of the tenth of it being known.
DigitsBy(k, tenths) == IF k < Radix THEN <<k>> ELSE Append(tenths[k \div Radix], k % Radix)

\* Digits are those of a number, without a zero in front, and no more than
\* it needs.
DigitsOf(ds, k) ==
  /\ ds \in Seq(Few) /\ Len(ds) \in Nat \ {0} /\ Numbers!NumberOf(ds) = k
  /\ ds[1] = 0 => ds = <<0>>
  /\ k = 0 => ds = <<0>>
  /\ \A s \in Nat : k < Numbers!Pow(s + 1) => Len(ds) <= s + 1

LEMMA FewDigits == \A k \in Few : DigitsOf(<<k>>, k)
<1> SUFFICES ASSUME NEW k \in Few PROVE DigitsOf(<<k>>, k)
  OBVIOUS
<1>1. <<k>> \in Seq(Few) /\ Len(<<k>>) = 1 /\ <<k>>[1] = k /\ Numbers!NumberOf(<<k>>) = k
  BY OneDigit
<1>2. \A s \in Nat : 1 <= s + 1
  OBVIOUS
<1> QED BY <1>1, <1>2 DEF DigitsOf

LEMMA TenthIs ==
  \A k \in Nat : k >= Radix => k \div Radix \in Nat \ {0} /\ k \div Radix < k
<1> SUFFICES ASSUME NEW k \in Nat, k >= Radix
             PROVE  k \div Radix \in Nat \ {0} /\ k \div Radix < k
  OBVIOUS
<1> DEFINE q == k \div Radix  r == k % Radix
<1>1. q \in Nat /\ r \in Nat /\ r < Radix /\ k = Radix * q + r /\ Radix \in Nat /\ Radix >= 4
  <2>1. Radix \in Nat \ {0} /\ Radix >= 4
    BY RadixIs
  <2> QED BY <2>1, Divides
<1> HIDE DEF q, r
<1>2. q # 0 /\ q < k
  <2>1. CASE q = 0
    BY <1>1, <2>1
  <2>2. CASE q # 0
    <3>1. Radix * q >= 4 * q
      BY <1>1
    <3> DEFINE m == Radix * q
    <3>2. m \in Nat /\ m >= 4 * q /\ k = m + r
      BY <1>1, <3>1
    <3> HIDE DEF m
    <3> QED BY <1>1, <2>2, <3>2
  <2> QED BY <2>1, <2>2
<1> QED BY <1>1, <1>2 DEF q

LEMMA OneDigitMore ==
  ASSUME NEW k \in Nat, k >= Radix, NEW ds, DigitsOf(ds, k \div Radix)
  PROVE  DigitsOf(Append(ds, k % Radix), k) /\ k \div Radix \in Nat /\ k \div Radix < k
<1> DEFINE q == k \div Radix  r == k % Radix  e == Append(ds, r)
<1>1. q \in Nat /\ r \in Nat /\ r < Radix /\ k = Radix * q + r /\ Radix \in Nat /\ Radix >= 4
  <2>1. Radix \in Nat \ {0} /\ Radix >= 4
    BY RadixIs
  <2> QED BY <2>1, Divides
<1>2. /\ ds \in Seq(Few) /\ Len(ds) \in Nat \ {0} /\ Numbers!NumberOf(ds) = q
      /\ ds[1] = 0 => ds = <<0>>
      /\ q = 0 => ds = <<0>>
      /\ \A s \in Nat : q < Numbers!Pow(s + 1) => Len(ds) <= s + 1
  BY DEF DigitsOf
<1> HIDE DEF q, r
<1>3. r \in Few
  BY <1>1 DEF Few
<1>4. q # 0 /\ q < k
  BY TenthIs DEF q
<1>5. ds[1] # 0
  <2> SUFFICES ASSUME ds = << 0 >> PROVE FALSE
    BY <1>2
  <2>1. q = 0
    BY <1>2, FewIs, OneDigit
  <2> QED BY <1>4, <2>1
<1>6. /\ e \in Seq(Few) /\ Len(e) = Len(ds) + 1 /\ e[1] = ds[1] /\ e = ds \o <<r>>
      /\ Numbers!NumberOf(e) = k
  <2>1. e \in Seq(Few) /\ Len(e) = Len(ds) + 1 /\ e[1] = ds[1]
    BY <1>2, <1>3
  <2>2. e = ds \o <<r>>
    BY <1>2, <1>3, AppendIsConcat
  <2>3. <<r>> \in Seq(Few) /\ Len(<<r>>) = 1 /\ Numbers!NumberOf(<<r>>) = r
    BY <1>3, OneDigit
  <2>4. Numbers!Pow(1) = Radix
    <3>1. Numbers!Pow(0 + 1) = Radix * Numbers!Pow(0)
      BY PowOfMore
    <3> QED BY <1>1, <3>1, PowOfNone
  <2>5. Numbers!NumberOf(ds \o <<r>>) = q * Radix + r
    <3>1. ds \in Seq(Nat) /\ <<r>> \in Seq(Nat)
      BY <1>2, <2>3, FewIs
    <3> QED BY ZenonT(40), <1>2, <2>3, <2>4, <3>1, NumberOfBoth
  <2>6. q * Radix + r = k
    BY <1>1
  <2> HIDE DEF e
  <2> QED BY <2>1, <2>2, <2>5, <2>6
<1> HIDE DEF e
<1>7. ASSUME NEW s \in Nat, k < Numbers!Pow(s + 1) PROVE Len(e) <= s + 1
  <2>1. s # 0
    <3> SUFFICES ASSUME s = 0 PROVE FALSE
      OBVIOUS
    <3>1. Numbers!Pow(0 + 1) = Radix * Numbers!Pow(0)
      BY PowOfMore
    <3> QED BY <1>1, <1>7, <3>1, PowOfNone
  <2>2. s - 1 \in Nat /\ (s - 1) + 1 = s
    BY <2>1
  <2> DEFINE p == Numbers!Pow(s)
  <2>3. Numbers!Pow(s + 1) = Radix * p /\ p \in Nat
    BY PowOfMore
  <2> HIDE DEF p
  <2>4. q < p
    <3> SUFFICES ASSUME q >= p PROVE FALSE
      BY <1>1, <2>3
    <3>1. Radix * q >= Radix * p
      BY <1>1, <2>3
    <3> DEFINE m == Radix * q  n == Radix * p
    <3>2. m \in Nat /\ n \in Nat /\ m >= n /\ k = m + r /\ k < n
      BY <1>1, <1>7, <2>3, <3>1
    <3> HIDE DEF m, n
    <3> QED BY <1>1, <3>2
  <2>5. Len(ds) <= s
    BY <1>2, <2>2, <2>4 DEF p
  <2> QED BY <1>2, <1>6, <2>5
<1>8. k # 0
  BY <1>1
<1>9. DigitsOf(e, k)
  BY <1>2, <1>5, <1>6, <1>7, <1>8 DEF DigitsOf
<1> QED BY <1>1, <1>4, <1>9 DEF e, q, r

LEMMA DigitsAre ==
  ASSUME NEW n \in Nat
  PROVE  DigitsOf(Numbers!Digits(n), n)
<1> DEFINE K(f) == [k \in 0..n |-> IF k < Radix THEN <<k>> ELSE Append(f[k \div Radix], k % Radix)]
           Good(f, m) == \A k \in 0..m : DigitsOf(f[k], k) /\ f[k] = DigitsBy(k, f)
           D == CHOOSE f : f = K(f)
           T == {m \in Nat : m <= n => \E f \in [0..m -> Seq(Few)] : Good(f, m)}
<1>1. Radix \in Nat \ {0} /\ Radix >= 4
  BY RadixIs
<1>2. \A k \in Nat : k < Radix => k \in Few
  BY <1>1 DEF Few
<1>3. 0 \in T
  <2> DEFINE f == [k \in 0..0 |-> <<0>>]
  <2>1. 0 \in Few /\ DigitsOf(<<0>>, 0)
    BY FewIs, FewDigits
  <2>2. f \in [0..0 -> Seq(Few)] /\ f[0] = <<0>>
    BY <2>1
  <2>3. DigitsBy(0, f) = <<0>>
    BY <1>1 DEF DigitsBy
  <2> HIDE DEF f
  <2>4. Good(f, 0)
    BY <2>1, <2>2, <2>3
  <2> QED BY <2>2, <2>4
<1>4. ASSUME NEW m \in Nat, m \in T PROVE m + 1 \in T
  <2> SUFFICES ASSUME m + 1 <= n PROVE \E f \in [0..(m + 1) -> Seq(Few)] : Good(f, m + 1)
    OBVIOUS
  <2>1. PICK f \in [0..m -> Seq(Few)] : Good(f, m)
    BY SMTT(30), <1>4
  <2> DEFINE d == DigitsBy(m + 1, f)
             g == [k \in 0..(m + 1) |-> IF k = m + 1 THEN d ELSE f[k]]
  <2>2. \A k \in 0..(m + 1) : k >= Radix => k \div Radix \in 0..m
    <3> SUFFICES ASSUME NEW k \in 0..(m + 1), k >= Radix PROVE k \div Radix \in 0..m
      OBVIOUS
    <3>1. k \in Nat
      OBVIOUS
    <3> DEFINE q == k \div Radix
    <3>2. q \in Nat /\ q < k
      BY <3>1, TenthIs
    <3> HIDE DEF q
    <3>3. q \in 0..m
      BY <3>2
    <3> QED BY <3>3 DEF q
  <2>3. DigitsOf(d, m + 1)
    <3>1. CASE m + 1 < Radix
      <4>1. d = <<m + 1>> /\ m + 1 \in Few
        BY <1>2, <3>1 DEF DigitsBy
      <4> QED BY <4>1, FewDigits
    <3>2. CASE ~(m + 1 < Radix)
      <4> DEFINE q == (m + 1) \div Radix
      <4>1. m + 1 \in 0..(m + 1) /\ m + 1 >= Radix
        BY <1>1, <3>2
      <4>2. q \in 0..m
        BY <2>2, <4>1
      <4>3. d = Append(f[q], (m + 1) % Radix)
        BY <3>2 DEF DigitsBy
      <4>4. DigitsOf(f[q], q)
        BY <2>1, <4>2
      <4> HIDE DEF d
      <4> QED BY <4>1, <4>3, <4>4, OneDigitMore
    <3> QED BY <3>1, <3>2
  <2>4. g \in [0..(m + 1) -> Seq(Few)]
    <3>1. d \in Seq(Few)
      BY <2>3 DEF DigitsOf
    <3> HIDE DEF d
    <3> QED BY <3>1
  <2>5. ASSUME NEW k \in 0..(m + 1) PROVE DigitsOf(g[k], k) /\ g[k] = DigitsBy(k, g)
    <3>1. DigitsBy(k, g) = DigitsBy(k, f)
      <4>1. k >= Radix => g[k \div Radix] = f[k \div Radix]
        <5> SUFFICES ASSUME k >= Radix PROVE g[k \div Radix] = f[k \div Radix]
          OBVIOUS
        <5> DEFINE q == k \div Radix
        <5>1. q \in 0..m
          BY <2>2
        <5> HIDE DEF q
        <5>2. q \in 0..(m + 1) /\ q # m + 1
          BY <5>1
        <5>3. g[q] = f[q]
          BY <5>2
        <5> QED BY <5>3 DEF q
      <4> HIDE DEF g
      <4> QED BY <1>1, <4>1 DEF DigitsBy
    <3>2. CASE k = m + 1
      <4>1. g[k] = d
        BY <3>2
      <4> QED BY <2>3, <3>1, <3>2, <4>1
    <3>3. CASE k # m + 1
      <4>1. k \in 0..m /\ g[k] = f[k]
        BY <3>3
      <4> QED BY <2>1, <3>1, <4>1
    <3> QED BY <3>2, <3>3
  <2> HIDE DEF g
  <2> QED BY <2>4, <2>5
<1> HIDE DEF T
<1>5. n \in T
  BY <1>3, <1>4, SetInduction
<1>6. PICK f \in [0..n -> Seq(Few)] : Good(f, n)
  BY SMTT(30), <1>5 DEF T
<1>7. f = K(f)
  <2>1. \A k \in 0..n : f[k] = K(f)[k]
    BY <1>6 DEF DigitsBy
  <2>2. f = [k \in 0..n |-> f[k]]
    OBVIOUS
  <2> QED BY <2>1, <2>2
<1>8. D = K(D)
  BY <1>7
<1>9. ASSUME NEW g, g = K(g) PROVE g[n] = f[n]
  <2> DEFINE U == {m \in Nat : \A k \in 0..m : k <= n => g[k] = f[k]}
  <2>1. \A k \in 0..n : g[k] = DigitsBy(k, g) /\ f[k] = DigitsBy(k, f)
    <3>1. ASSUME NEW k \in 0..n PROVE g[k] = DigitsBy(k, g)
      <4>1. g[k] = K(g)[k]
        BY <1>9
      <4> QED BY <4>1 DEF DigitsBy
    <3> QED BY <1>6, <3>1
  <2>2. 0 \in U
    <3>1. DigitsBy(0, g) = DigitsBy(0, f) /\ 0 \in 0..n
      BY <1>1 DEF DigitsBy
    <3>2. g[0] = f[0]
      BY <2>1, <3>1
    <3> QED BY <3>2
  <2>3. ASSUME NEW m \in Nat, m \in U PROVE m + 1 \in U
    <3> SUFFICES ASSUME m + 1 <= n PROVE g[m + 1] = f[m + 1]
      BY <2>3
    <3> DEFINE k == m + 1  q == k \div Radix
    <3>1. k >= Radix => g[q] = f[q]
      <4> SUFFICES ASSUME k >= Radix PROVE g[q] = f[q]
        OBVIOUS
      <4>1. k \in Nat
        OBVIOUS
      <4>2. q \in Nat /\ q < k
        BY <4>1, TenthIs
      <4> HIDE DEF q
      <4>3. q \in 0..m /\ q <= n
        BY <4>2
      <4> QED BY <2>3, <4>3
    <3>2. DigitsBy(k, g) = DigitsBy(k, f)
      BY <1>1, <3>1 DEF DigitsBy
    <3>3. k \in 0..n
      OBVIOUS
    <3> QED BY <2>1, <3>2, <3>3
  <2> HIDE DEF U
  <2>4. n \in U
    BY <2>2, <2>3, SetInduction
  <2> QED BY <2>4 DEF U
<1>10. Numbers!Digits(n) = D[n]
  BY DEF Numbers!Digits
<1>11. D[n] = f[n]
  <2> HIDE DEF D, K
  <2> QED BY <1>8, <1>9
<1>12. n \in 0..n
  OBVIOUS
<1> HIDE DEF D
<1> QED BY <1>6, <1>10, <1>11, <1>12

-----------------------------------------------------------------------------
(* Zeros at the ends of a text.                                            *)

LEMMA TrimEndIs ==
  ASSUME NEW ds \in Seq(Few)
  PROVE  \E k \in 0..Len(ds) :
           /\ Numbers!TrimEnd(ds) = SubSeq(ds, 1, k)
           /\ \A i \in (k + 1)..Len(ds) : ds[i] = 0
           /\ k > 0 => ds[k] # 0
<1> DEFINE n == Len(ds)
           Q(k) == (\A i \in (k + 1)..n : ds[i] = 0) /\ (k > 0 => ds[k] # 0)
           T == {m \in Nat : m <= n /\ (n - m > 0 => ds[n - m] # 0)}
           k == CHOOSE j \in 0..n : Q(j)
<1>1. n \in Nat
  OBVIOUS
<1> HIDE DEF n
<1>2. PICK m \in T : \A j \in T : m <= j
  <2>1. n \in T /\ T \subseteq Nat
    BY <1>1
  <2> HIDE DEF T
  <2> QED BY <2>1, Least
<1>3. n - m \in 0..n /\ Q(n - m)
  <2>1. m \in Nat /\ m <= n /\ (n - m > 0 => ds[n - m] # 0)
    OBVIOUS
  <2>2. ASSUME NEW i \in (n - m + 1)..n PROVE ds[i] = 0
    <3> SUFFICES ASSUME ds[i] # 0 PROVE FALSE
      OBVIOUS
    <3>1. n - i \in Nat /\ n - i <= n /\ n - (n - i) = i /\ n - i < m
      BY <1>1, <2>1
    <3>2. n - i \in T
      BY <3>1
    <3> HIDE DEF T
    <3> QED BY <1>2, <2>1, <3>1, <3>2
  <2> HIDE DEF T
  <2>3. (n - m) + 1 = n - m + 1
    OBVIOUS
  <2> QED BY <1>1, <2>1, <2>2, <2>3
<1>4. k \in 0..n /\ Q(k)
  <2> HIDE DEF Q, T
  <2> QED BY <1>3
<1>5. Numbers!TrimEnd(ds) = SubSeq(ds, 1, k)
  BY DEF Numbers!TrimEnd, n
<1> HIDE DEF k
<1> QED BY <1>4, <1>5 DEF n

LEMMA TrimStartIs ==
  ASSUME NEW ds \in Seq(Few)
  PROVE  \E k \in 0..Len(ds) :
           /\ Numbers!TrimStart(ds) = SubSeq(ds, k + 1, Len(ds))
           /\ \A i \in 1..k : ds[i] = 0
           /\ k < Len(ds) => ds[k + 1] # 0
<1> DEFINE n == Len(ds)
           Q(k) == (\A i \in 1..(k - 1) : ds[i] = 0) /\ (k <= n => ds[k] # 0)
           T == {m \in Nat : m < n => ds[m + 1] # 0}
           k == CHOOSE j \in 1..(n + 1) : Q(j)
<1>1. n \in Nat
  OBVIOUS
<1> HIDE DEF n
<1>2. PICK m \in T : \A j \in T : m <= j
  <2>1. n \in T /\ T \subseteq Nat
    BY <1>1
  <2> HIDE DEF T
  <2> QED BY <2>1, Least
<1>3. m + 1 \in 1..(n + 1) /\ Q(m + 1)
  <2>1. m \in Nat /\ (m < n => ds[m + 1] # 0)
    OBVIOUS
  <2>2. m <= n
    <3>1. n \in T
      BY <1>1
    <3> HIDE DEF T
    <3> QED BY <1>2, <3>1
  <2>3. ASSUME NEW i \in 1..m PROVE ds[i] = 0
    <3> SUFFICES ASSUME ds[i] # 0 PROVE FALSE
      OBVIOUS
    <3>1. i - 1 \in Nat /\ (i - 1) + 1 = i /\ i - 1 < m
      BY <2>1
    <3>2. i - 1 \in T
      BY <3>1
    <3> HIDE DEF T
    <3> QED BY <1>2, <2>1, <3>1, <3>2
  <2> HIDE DEF T
  <2>4. (m + 1) - 1 = m /\ (m + 1 <= n => m < n)
    BY <1>1, <2>1
  <2> QED BY <1>1, <2>1, <2>2, <2>3, <2>4
<1>4. k \in 1..(n + 1) /\ Q(k)
  <2> HIDE DEF Q, T
  <2> QED BY <1>3
<1>5. Numbers!TrimStart(ds) = SubSeq(ds, k, n)
  BY DEF Numbers!TrimStart, n
<1> HIDE DEF k
<1>6. k - 1 \in 0..n /\ (k - 1) + 1 = k /\ (k - 1 < n => k <= n)
  BY <1>1, <1>4
<1> QED BY <1>4, <1>5, <1>6 DEF n

\* Without the zeros behind, and those in front.
LEMMA TrimmedEnd ==
  ASSUME NEW ds \in Seq(Few)
  PROVE  LET u == Numbers!TrimEnd(ds)
             e == Len(ds) - Len(u)
         IN /\ u \in Seq(Few) /\ Len(u) \in Nat /\ e \in Nat
            /\ Numbers!NumberOf(ds) = Numbers!NumberOf(u) * Numbers!Pow(e)
            /\ Len(ds) # 0 /\ ds[1] # 0 => Len(u) # 0 /\ u[1] = ds[1]
<1> DEFINE u == Numbers!TrimEnd(ds)  n == Len(ds)
<1>1. PICK k \in 0..n : /\ u = SubSeq(ds, 1, k)
                        /\ \A i \in (k + 1)..n : ds[i] = 0
                        /\ k > 0 => ds[k] # 0
  BY TrimEndIs
<1> DEFINE v == SubSeq(ds, k + 1, n)
<1>2. /\ u \in Seq(Few) /\ v \in Seq(Few) /\ ds = u \o v
      /\ Len(u) = k /\ Len(v) = n - k
      /\ \A i \in 1..k : u[i] = ds[i]
      /\ \A i \in 1..Len(v) : v[i] = ds[k + i]
  <2> DEFINE w == SubSeq(ds, 1, k)
  <2>1. /\ w \in Seq(Few) /\ v \in Seq(Few) /\ ds = w \o v
        /\ Len(w) = k /\ Len(v) = n - k
        /\ \A i \in 1..k : w[i] = ds[i]
        /\ \A i \in 1..Len(v) : v[i] = ds[k + i]
    BY CutIs
  <2> HIDE DEF u, v
  <2> QED BY <1>1, <2>1
<1>3. n \in Nat /\ k \in Nat /\ n - k \in Nat
  OBVIOUS
<1> HIDE DEF u, v
<1>4. \A i \in 1..Len(v) : v[i] = 0
  <2> SUFFICES ASSUME NEW i \in 1..(n - k) PROVE ds[k + i] = 0
    BY <1>2
  <2>1. k + i \in (k + 1)..n
    BY <1>3
  <2> QED BY <1>1, <2>1
<1>5. Numbers!NumberOf(ds) = Numbers!NumberOf(u) * Numbers!Pow(n - k)
  <2>1. u \in Seq(Nat) /\ v \in Seq(Nat)
    BY <1>2, FewIs
  <2>2. Numbers!NumberOf(u \o v) = Numbers!NumberOf(u) * Numbers!Pow(n - k) + Numbers!NumberOf(v)
    BY <1>2, <2>1, NumberOfBoth
  <2>3. Numbers!NumberOf(v) = 0
    BY <1>4, <2>1, NumberOfZeros
  <2> DEFINE x == Numbers!NumberOf(u)  p == Numbers!Pow(n - k)
  <2>4. x \in Nat /\ p \in Nat
    BY <1>3, <2>1, NumberType, PowType
  <2> HIDE DEF x, p
  <2>5. x * p + 0 = x * p
    BY <2>4
  <2> QED BY <1>2, <2>2, <2>3, <2>5 DEF x, p
<1>6. ASSUME n # 0, ds[1] # 0 PROVE k # 0 /\ u[1] = ds[1]
  <2>1. k # 0
    <3> SUFFICES ASSUME k = 0 PROVE FALSE
      OBVIOUS
    <3>1. 1 \in (k + 1)..n
      BY <1>3, <1>6
    <3> QED BY <1>1, <1>6, <3>1
  <2>2. 1 \in 1..k
    BY <1>3, <2>1
  <2> QED BY <1>2, <2>1, <2>2
<1> HIDE DEF n
<1> QED BY <1>2, <1>3, <1>5, <1>6 DEF u, n

LEMMA TrimmedStart ==
  ASSUME NEW ds \in Seq(Few), Numbers!NumberOf(ds) # 0
  PROVE  LET u == Numbers!TrimStart(ds) IN
         /\ u \in Seq(Few) /\ Len(u) \in Nat \ {0} /\ Len(u) <= Len(ds) /\ u[1] # 0
         /\ Numbers!NumberOf(u) = Numbers!NumberOf(ds)
         /\ \A i \in 1..(Len(ds) - Len(u)) : ds[i] = 0
         /\ ds[(Len(ds) - Len(u)) + 1] # 0
<1> DEFINE u == Numbers!TrimStart(ds)  n == Len(ds)
<1>1. PICK k \in 0..n : /\ u = SubSeq(ds, k + 1, n)
                        /\ \A i \in 1..k : ds[i] = 0
                        /\ k < n => ds[k + 1] # 0
  BY TrimStartIs
<1> DEFINE v == SubSeq(ds, 1, k)
<1>2. /\ u \in Seq(Few) /\ v \in Seq(Few) /\ ds = v \o u
      /\ Len(v) = k /\ Len(u) = n - k
      /\ \A i \in 1..k : v[i] = ds[i]
      /\ \A i \in 1..Len(u) : u[i] = ds[k + i]
  <2> DEFINE w == SubSeq(ds, k + 1, n)
  <2>1. /\ w \in Seq(Few) /\ v \in Seq(Few) /\ ds = v \o w
        /\ Len(v) = k /\ Len(w) = n - k
        /\ \A i \in 1..k : v[i] = ds[i]
        /\ \A i \in 1..Len(w) : w[i] = ds[k + i]
    BY CutIs
  <2> HIDE DEF u, v, w
  <2>2. u = w
    BY <1>1 DEF w
  <2> QED BY <2>1, <2>2
<1>3. n \in Nat /\ k \in Nat /\ n - k \in Nat
  OBVIOUS
<1> HIDE DEF u, v
<1>4. Numbers!NumberOf(ds) = Numbers!NumberOf(u)
  <2>1. u \in Seq(Nat) /\ v \in Seq(Nat)
    BY <1>2, FewIs
  <2>2. Numbers!NumberOf(v \o u) = Numbers!NumberOf(v) * Numbers!Pow(n - k) + Numbers!NumberOf(u)
    BY <1>2, <2>1, NumberOfBoth
  <2>3. Numbers!NumberOf(v) = 0
    BY <1>1, <1>2, <2>1, NumberOfZeros
  <2> DEFINE x == Numbers!NumberOf(u)  p == Numbers!Pow(n - k)
  <2>4. x \in Nat /\ p \in Nat
    BY <1>3, <2>1, NumberType, PowType
  <2> HIDE DEF x, p
  <2>5. 0 * p + x = x
    BY <2>4
  <2> QED BY <1>2, <2>2, <2>3, <2>5 DEF x, p
<1>5. n - k # 0
  <2> SUFFICES ASSUME n - k = 0 PROVE FALSE
    OBVIOUS
  <2>1. k = n
    BY <1>3
  <2>2. \A i \in 1..Len(ds) : ds[i] = 0
    BY <1>1, <2>1
  <2> QED BY <2>2, FewIs, NumberOfZeros
<1>6. u[1] # 0
  <2>1. 1 \in 1..Len(u) /\ k < n
    BY <1>2, <1>3, <1>5
  <2> QED BY <1>1, <1>2, <2>1
<1>7. n - (n - k) = k /\ n - k <= n /\ k < n
  BY <1>3, <1>5
<1> HIDE DEF n
<1> QED BY <1>1, <1>2, <1>3, <1>4, <1>5, <1>6, <1>7 DEF u, n

-----------------------------------------------------------------------------
(* A text is read back as the number it was written for.                   *)

\* The sign and the size of both parts.
SignedAs(d, neg) ==
  LET sg == SignIs(neg) IN
  /\ neg \in BOOLEAN
  /\ Numbers!Abs(d.int) \in Nat /\ Numbers!Abs(d.frac) \in Nat
  /\ Numbers!Abs(d.frac) < Numbers!Pow(d.scale)
  /\ Numbers!ValueOf(d) = sg * (Numbers!Abs(d.int) * Numbers!Pow(d.scale) + Numbers!Abs(d.frac))

LEMMA SignIsKept ==
  ASSUME NEW d, Form(d)
  PROVE  SignedAs(d, d.int < 0 \/ d.frac < 0)
<1> DEFINE i == d.int  f == d.frac  p == Numbers!Pow(d.scale)  neg == i < 0 \/ f < 0
           I == Numbers!Abs(i)  F == Numbers!Abs(f)
<1>1. i \in Int /\ f \in Int /\ p \in Nat \ {0} /\ F < p
  BY PowType DEF Form
<1>2. (i >= 0 /\ f >= 0) \/ (i <= 0 /\ f <= 0)
  BY DEF Form
<1>3. Numbers!ValueOf(d) = i * p + f
  BY DEF Numbers!ValueOf
<1>4. neg \in BOOLEAN
  OBVIOUS
<1> HIDE DEF i, f, p
<1>5. I \in Nat /\ F \in Nat
  BY <1>1 DEF Numbers!Abs
<1>6. i * p + f = SignIs(neg) * (I * p + F)
  <2>1. CASE neg
    <3>1. I = -i /\ F = -f /\ SignIs(neg) = -1
      BY <1>1, <1>2, <2>1 DEF Numbers!Abs, SignIs
    <3> HIDE DEF I, F, neg
    <3>2. i * p + f = (-1) * ((-i) * p + (-f))
      BY <1>1
    <3> QED BY <3>1, <3>2
  <2>2. CASE ~neg
    <3>1. I = i /\ F = f /\ SignIs(neg) = 1
      BY <1>1, <1>2, <2>2 DEF Numbers!Abs, SignIs
    <3> HIDE DEF I, F, neg
    <3>2. i * p + f = 1 * (i * p + f)
      BY <1>1
    <3> QED BY <3>1, <3>2
  <2> QED BY <2>1, <2>2
<1> QED BY <1>1, <1>3, <1>4, <1>5, <1>6 DEF SignedAs, i, f, p

\* Two ways to write one number compare as equal.
LEMMA SameNumber ==
  ASSUME NEW e, NEW n, NEW o, StandsFor(e, n, o), NEW d, Form(d),
         n * Numbers!Pow(d.scale) = Numbers!ValueOf(d) * Numbers!Pow(o)
  PROVE  Numbers!Compare(e, d) = 0
<1> DEFINE x == n * Numbers!Pow(d.scale) - Numbers!ValueOf(d) * Numbers!Pow(o)
<1>1. Numbers!Compare(e, d) = IF x < 0 THEN -1 ELSE IF x > 0 THEN 1 ELSE 0
  BY ComparesNumbers, StandsForIs
<1>2. x = 0
  <2> DEFINE y == Numbers!ValueOf(d) * Numbers!Pow(o)
  <2>1. y \in Int
    <3>1. Numbers!ValueOf(d) \in Int /\ Numbers!Pow(o) \in Int
      BY ValueType, PowType DEF StandsFor
    <3> QED BY <3>1
  <2>2. x = y - y
    OBVIOUS
  <2> HIDE DEF x, y
  <2> QED BY <2>1, <2>2
<1> HIDE DEF x
<1> QED BY <1>1, <1>2

\* The digits of a text are those of the number, as far as they go.
TextTells(d, neg, a, b) ==
  /\ neg \in BOOLEAN /\ a \in Seq(Few) /\ b \in Seq(Few) /\ Len(b) \in Nat
  /\ \E N \in Nat : /\ Numbers!NumberOf(a \o b) = N
                    /\ (SignIs(neg) * N) * Numbers!Pow(d.scale)
                         = Numbers!ValueOf(d) * Numbers!Pow(Len(b))

LEMMA ToldIsRead ==
  ASSUME NEW d, Form(d), NEW neg, NEW a, NEW b, TextTells(d, neg, a, b)
  PROVE  Numbers!Compare(Numbers!OfString(Numbers!Text(neg, a, b)), d) = 0
<1>1. /\ neg \in BOOLEAN /\ a \in Seq(Few) /\ b \in Seq(Few) 
      /\ (SignIs(neg) * Numbers!NumberOf(a \o b)) * Numbers!Pow(d.scale)
           = Numbers!ValueOf(d) * Numbers!Pow(Len(b))
  BY DEF TextTells
<1>2. StandsFor(Numbers!OfString(Numbers!Text(neg, a, b)),
                SignIs(neg) * Numbers!NumberOf(a \o b), Len(b))
  BY <1>1, OfStringStands
<1> QED BY <1>1, <1>2, SameNumber

LEMMA WrittenOut ==
  ASSUME NEW d, Form(d), NEW b \in Seq(Few), Len(b) <= d.scale,
         Numbers!NumberOf(b) * Numbers!Pow(d.scale - Len(b)) = Numbers!Abs(d.frac)
  PROVE  TextTells(d, d.int < 0 \/ d.frac < 0, Numbers!Digits(Numbers!Abs(d.int)), b)
<1> DEFINE neg == d.int < 0 \/ d.frac < 0  sg == SignIs(neg)
           I == Numbers!Abs(d.int)  F == Numbers!Abs(d.frac)
           a == Numbers!Digits(I)  L == Len(b)  S == d.scale
           l == Numbers!Pow(L)  p == Numbers!Pow(S)  c == Numbers!Pow(S - L)
           y == Numbers!NumberOf(b)  N == Numbers!NumberOf(a \o b)  V == Numbers!ValueOf(d)
<1>1. SignedAs(d, neg)
  BY SignIsKept
<1>2. neg \in BOOLEAN /\ I \in Nat /\ F \in Nat /\ V = sg * (I * p + F) /\ sg \in Int
  BY <1>1 DEF SignedAs, SignIs
<1>3. S \in Nat /\ L \in Nat /\ S - L \in Nat /\ L + (S - L) = S
  BY DEF Form
<1>4. l \in Nat /\ p \in Nat /\ c \in Nat /\ p = l * c
  BY <1>3, PowType, PowOfSum
<1>5. a \in Seq(Few) /\ Numbers!NumberOf(a) = I
  <2> HIDE DEF I
  <2> QED BY <1>2, DigitsAre DEF DigitsOf
<1>6. y \in Nat /\ N = I * l + y
  <2>1. a \in Seq(Nat) /\ b \in Seq(Nat)
    BY <1>5, FewIs
  <2> HIDE DEF a
  <2> QED BY <1>5, <2>1, NumberType, NumberOfBoth
<1>7. y * c = F
  OBVIOUS
<1> HIDE DEF l, p, c, y, N, V, sg, I, F, a, S, L, neg
<1>8. N \in Nat
  BY <1>2, <1>4, <1>6
<1>9. (sg * N) * p = V * l
  <2>1. N * p = (I * p + F) * l
    <3>1. (I * l + y) * (l * c) = (I * (l * c) + y * c) * l
      BY <1>2, <1>4, <1>6
    <3> QED BY <1>4, <1>6, <1>7, <3>1
  <2> DEFINE m == I * p + F
  <2>2. m \in Nat /\ N * p = m * l /\ V = sg * m
    BY <1>2, <1>4, <2>1
  <2> HIDE DEF m
  <2>3. (sg * N) * p = sg * (N * p) /\ (sg * m) * l = sg * (m * l)
    BY <1>2, <1>4, <1>8, <2>2
  <2> QED BY <2>2, <2>3
<1> QED BY <1>2, <1>3, <1>5, <1>8, <1>9 DEF TextTells, N, V, l, p, sg, S, L, a, I, neg

\* The digits of a fraction, all of them.
LEMMA FractionIs ==
  ASSUME NEW d, Form(d), d.scale # 0
  PROVE  LET b == Numbers!PadStart(Numbers!Digits(Numbers!Abs(d.frac)), d.scale) IN
         /\ b \in Seq(Few) /\ Len(b) = d.scale /\ Numbers!NumberOf(b) = Numbers!Abs(d.frac)
<1> DEFINE F == Numbers!Abs(d.frac)  ds == Numbers!Digits(F)  S == d.scale
           b == Numbers!PadStart(ds, S)  z == Numbers!Larger(S - Len(ds), 0)
<1>1. F \in Nat /\ F < Numbers!Pow(S) /\ S \in Nat /\ S - 1 \in Nat /\ (S - 1) + 1 = S
  BY SignIsKept DEF SignedAs, Form
<1>2. DigitsOf(ds, F)
  <2> HIDE DEF F
  <2> QED BY <1>1, DigitsAre
<1> HIDE DEF F, ds, S
<1>3. ds \in Seq(Few) /\ Len(ds) <= S /\ Numbers!NumberOf(ds) = F /\ Len(ds) \in Nat
  BY <1>1, <1>2 DEF DigitsOf
<1>4. z \in Nat /\ z + Len(ds) = S
  BY <1>1, <1>3 DEF Numbers!Larger
<1>5. b = Numbers!Zeros(z) \o ds
  BY DEF Numbers!PadStart
<1> HIDE DEF z, b
<1>6. b \in Seq(Few) /\ Len(b) = S /\ Numbers!NumberOf(b) = F
  BY <1>3, <1>4, <1>5, ZerosInFront
<1> QED BY <1>6 DEF b, ds, F, S

LEMMA NoFraction ==
  ASSUME NEW d, Form(d), d.scale = 0
  PROVE  Numbers!Abs(d.frac) = 0 /\ Numbers!NumberOf(<<>>) * Numbers!Pow(d.scale - Len(<<>>)) = 0
<1>1. Numbers!Abs(d.frac) \in Nat /\ Numbers!Abs(d.frac) < 1
  BY SignIsKept, PowOfNone DEF SignedAs
<1>2. d.scale - Len(<<>>) = 0
  <2>1. Len(<<>>) = 0 /\ 0 - 0 = 0
    OBVIOUS
  <2> QED BY <2>1
<1> QED BY <1>1, <1>2, NumberOfNone, PowOfNone

\* The text of a decimal.
WrittenAs(d, b) ==
  /\ b \in Seq(Few) /\ Len(b) <= d.scale
  /\ Numbers!NumberOf(b) * Numbers!Pow(d.scale - Len(b)) = Numbers!Abs(d.frac)

LEMMA ToStringTells ==
  ASSUME NEW d, Form(d)
  PROVE  \E b : /\ WrittenAs(d, b)
                /\ Numbers!ToString(d)
                     = Numbers!Text(d.int < 0 \/ d.frac < 0, Numbers!Digits(Numbers!Abs(d.int)), b)
<1>1. CASE d.scale = 0
  <2>1. WrittenAs(d, <<>>)
    BY <1>1, NoFraction, NumberOfNone DEF WrittenAs
  <2> QED BY <1>1, <2>1 DEF Numbers!ToString
<1>2. CASE d.scale # 0
  <2> DEFINE S == d.scale  f == Numbers!Fraction(d)  b == Numbers!TrimEnd(f)
  <2>1. f \in Seq(Few) /\ Len(f) = S /\ Numbers!NumberOf(f) = Numbers!Abs(d.frac)
    BY <1>2, FractionIs DEF Numbers!Fraction
  <2>2. S \in Nat
    BY DEF Form
  <2> HIDE DEF f
  <2>3. /\ b \in Seq(Few) /\ Len(b) \in Nat /\ S - Len(b) \in Nat
        /\ Numbers!NumberOf(f) = Numbers!NumberOf(b) * Numbers!Pow(S - Len(b))
    BY <2>1, TrimmedEnd
  <2>4. Len(b) <= S
    BY <2>2, <2>3
  <2> HIDE DEF b
  <2>5. WrittenAs(d, b)
    BY <2>1, <2>3, <2>4 DEF WrittenAs
  <2>6. Numbers!ToString(d)
          = Numbers!Text(d.int < 0 \/ d.frac < 0, Numbers!Digits(Numbers!Abs(d.int)), b)
    BY <1>2 DEF Numbers!ToString, b, f
  <2> QED BY <2>5, <2>6
<1> QED BY <1>1, <1>2

LEMMA StringReadsBack ==
  ASSUME NEW d, Form(d)
  PROVE  Numbers!Compare(Numbers!OfString(Numbers!ToString(d)), d) = 0
BY ToStringTells, WrittenOut, ToldIsRead DEF WrittenAs

LEMMA FixedReadsBack ==
  ASSUME NEW d, NEW p, Form(Numbers!Round(d, p)), Numbers!Round(d, p).scale = p
  PROVE  Numbers!Compare(Numbers!OfString(Numbers!ToFixed(d, p)), Numbers!Round(d, p)) = 0
<1> DEFINE r == Numbers!Round(d, p)
           b == IF p = 0 THEN <<>> ELSE Numbers!PadStart(Numbers!Digits(Numbers!Abs(r.frac)), p)
<1>1. Numbers!ToFixed(d, p)
        = Numbers!Text(r.int < 0 \/ r.frac < 0, Numbers!Digits(Numbers!Abs(r.int)), b)
  BY DEF Numbers!ToFixed
<1>2. Form(r) /\ r.scale = p
  OBVIOUS
<1> HIDE DEF r
<1>3. WrittenAs(r, b)
  <2>1. CASE p = 0
    BY <1>2, <2>1, NoFraction, NumberOfNone DEF WrittenAs
  <2>2. CASE p # 0
    <3>1. b \in Seq(Few) /\ Len(b) = p /\ Numbers!NumberOf(b) = Numbers!Abs(r.frac)
      BY <1>2, <2>2, FractionIs
    <3> HIDE DEF b
    <3>2. p \in Nat /\ p <= p /\ p - p = 0 /\ Numbers!Abs(r.frac) \in Nat
      BY <1>2, SignIsKept DEF Form, SignedAs
    <3> DEFINE y == Numbers!Abs(r.frac)
    <3>3. y * 1 = y
      BY <3>2
    <3> HIDE DEF y
    <3>4. Numbers!NumberOf(b) * Numbers!Pow(p - Len(b)) = y
      BY <3>1, <3>2, <3>3, PowOfNone DEF y
    <3> QED BY <1>2, <3>1, <3>2, <3>4 DEF WrittenAs, y
  <2> QED BY <2>1, <2>2
<1> HIDE DEF b
<1>4. TextTells(r, r.int < 0 \/ r.frac < 0, Numbers!Digits(Numbers!Abs(r.int)), b)
  BY <1>2, <1>3, WrittenOut DEF WrittenAs
<1> QED BY <1>1, <1>2, <1>4, ToldIsRead DEF r

-----------------------------------------------------------------------------
(* Scientific notation is read back.                                       *)

\* The zeros that are left out before and behind the digits move the point.
Shifted(n, i, S, W, j) == (n * Numbers!Pow(i)) * Numbers!Pow(S) = W * Numbers!Pow(j)

LEMMA ShiftIs ==
  ASSUME NEW n \in Nat, NEW E \in Nat, NEW L \in Nat, NEW S \in Nat, NEW W \in Int,
         Shifted(n, E, S, W, L)
  PROVE  LET l == L - E
             s == Numbers!Larger(l, 0)
         IN Shifted(n, s - l, S, W, s)
<1> USE DEF Shifted
<1> DEFINE l == L - E  s == Numbers!Larger(l, 0)  p == Numbers!Pow(S)
           c == Numbers!Pow(E)  d == Numbers!Pow(L)
<1>1. p \in Nat \ {0} /\ c \in Nat \ {0} /\ d \in Nat \ {0} /\ (n * c) * p = W * d
  BY PowType
<1>2. CASE l >= 0
  <2> DEFINE e == Numbers!Pow(l)
  <2>1. s = l /\ s - l = 0 /\ l \in Nat /\ l + E = L
    BY <1>2 DEF Numbers!Larger
  <2>2. d = e * c /\ e \in Nat
    BY <2>1, PowOfSum, PowType
  <2>3. Numbers!Pow(s - l) = 1 /\ Numbers!Pow(s) = e
    BY <2>1, PowOfNone
  <2> HIDE DEF s, l, p, c, d, e
  <2> DEFINE x == n * p  y == W * e
  <2>4. x \in Int /\ y \in Int /\ x * c = y * c
    <3>1. (n * c) * p = (n * p) * c /\ W * (e * c) = (W * e) * c
      BY <1>1, <2>2
    <3> QED BY <1>1, <2>2, <3>1
  <2>5. (n * 1) * p = x
    BY <1>1
  <2> HIDE DEF x, y
  <2>6. x = y
    BY <1>1, <2>4, OrderScales
  <2> QED BY <2>3, <2>5, <2>6 DEF y, p, s, l
<1>3. CASE l < 0
  <2> DEFINE e == Numbers!Pow(E - L)
  <2>1. s = 0 /\ s - l = E - L /\ E - L \in Nat /\ (E - L) + L = E
    BY <1>3 DEF Numbers!Larger
  <2>2. c = e * d /\ e \in Nat
    BY <2>1, PowOfSum, PowType
  <2>3. Numbers!Pow(s - l) = e /\ Numbers!Pow(s) = 1
    BY <2>1, PowOfNone
  <2> HIDE DEF s, l, p, c, d, e
  <2> DEFINE x == (n * e) * p  y == W * 1
  <2>4. x \in Int /\ y \in Int /\ x * d = y * d
    <3>1. (n * (e * d)) * p = ((n * e) * p) * d /\ (W * 1) * d = W * d
      BY <1>1, <2>2
    <3> QED BY <1>1, <2>2, <3>1
  <2> HIDE DEF x, y
  <2>5. x = y
    BY <1>1, <2>4, OrderScales
  <2> QED BY <2>3, <2>5 DEF x, y, p, s, l
<1>4. l \in Int
  OBVIOUS
<1> HIDE DEF l
<1>5. l >= 0 \/ l < 0
  BY <1>4
<1> QED BY <1>2, <1>3, <1>5 DEF l

\* Zeros in front of the digits are counted by the exponent.
LEMMA FirstDigit ==
  ASSUME NEW b \in Seq(Few), Numbers!NumberOf(<< 0 >> \o b) # 0
  PROVE  LET raw == Numbers!TrimStart(<<0>> \o b)
             tail == Numbers!TrimStart(b)
         IN Len(raw) = Len(tail) /\ Len(tail) \in Nat /\ Len(tail) <= Len(b)
<1> DEFINE ds == <<0>> \o b  raw == Numbers!TrimStart(ds)  tail == Numbers!TrimStart(b)
           n == Len(b)  x == (n + 1) - Len(raw)  y == n - Len(tail)
<1>1. 0 \in Few /\ <<0>> \in Seq(Few) /\ <<0>> \in Seq(Nat) /\ Len(<<0>>) = 1 /\ <<0>>[1] = 0
  BY FewIs
<1>2. /\ ds \in Seq(Few) /\ Len(ds) = n + 1 /\ n \in Nat /\ ds[1] = 0
      /\ \A i \in 1..n : ds[1 + i] = b[i]
  <2> DEFINE z == <<0>>
  <2>1. z \in Seq(Few) /\ Len(z) = 1 /\ z[1] = 0
    BY <1>1
  <2> HIDE DEF z
  <2>2. /\ z \o b \in Seq(Few) /\ Len(z \o b) = 1 + n /\ n \in Nat
        /\ \A i \in 1..(1 + n) : (z \o b)[i] = IF i <= 1 THEN z[i] ELSE b[i - 1]
    BY SMTT(30), <2>1, ConcatProperties
  <2>3. (z \o b)[1] = 0
    BY <2>1, <2>2
  <2>4. ASSUME NEW i \in 1..n PROVE (z \o b)[1 + i] = b[i]
    <3>1. 1 + i \in 1..(1 + n) /\ ~(1 + i <= 1) /\ (1 + i) - 1 = i
      BY <2>2
    <3> QED BY <2>2, <3>1
  <2>5. z \o b \in Seq(Few) /\ Len(z \o b) = n + 1 /\ n \in Nat
    BY <2>2
  <2> QED BY <2>3, <2>4, <2>5 DEF z
<1>3. Numbers!NumberOf(b) # 0
  <2> SUFFICES ASSUME Numbers!NumberOf(b) = 0 PROVE FALSE
    OBVIOUS
  <2>1. b \in Seq(Nat) /\ Numbers!Pow(Len(b)) \in Nat
    BY <1>2, FewIs, PowType
  <2>2. Numbers!NumberOf(<<0>>) = 0
    BY <1>1, OneDigit
  <2>3. Numbers!NumberOf(<<0>> \o b) = 0 * Numbers!Pow(Len(b)) + 0
    BY <1>1, <2>1, <2>2, NumberOfBoth
  <2> QED BY <2>1, <2>3
<1>4. /\ Len(raw) \in Nat \ {0} /\ Len(raw) <= n + 1
      /\ \A i \in 1..x : ds[i] = 0
      /\ ds[x + 1] # 0
  <2> HIDE DEF raw
  <2>1. Numbers!NumberOf(ds) # 0
    OBVIOUS
  <2> HIDE DEF ds
  <2> QED BY <1>2, <2>1, TrimmedStart DEF raw
<1>5. /\ Len(tail) \in Nat \ {0} /\ Len(tail) <= n
      /\ \A i \in 1..y : b[i] = 0
      /\ b[y + 1] # 0
  BY <1>3, TrimmedStart
<1> HIDE DEF ds, raw, tail, n
<1>6. x \in Nat /\ y \in Nat /\ x <= n /\ y < n
  BY <1>2, <1>4, <1>5
<1> DEFINE w == x - 1
<1>7. x # 0
  BY <1>2, <1>4, <1>6
<1>8. x <= y + 1
  <2> SUFFICES ASSUME x >= y + 2 PROVE FALSE
    <3>1. x \in Int /\ y \in Int
      BY <1>6
    <3> HIDE DEF x, y
    <3> QED BY <3>1
  <2>1. y + 1 \in 1..n /\ 1 + (y + 1) = y + 2 /\ y + 2 \in 1..x
    <3>1. x \in Nat /\ y \in Nat /\ y < n /\ n \in Nat
      BY <1>2, <1>6
    <3> HIDE DEF x, y
    <3> QED BY <3>1
  <2> HIDE DEF x, y
  <2> QED BY <1>2, <1>4, <1>5, <2>1
<1>9. x >= y + 1
  <2> SUFFICES ASSUME x <= y PROVE FALSE
    BY <1>6
  <2>1. x \in 1..n /\ 1 + x = x + 1 /\ x \in 1..y
    BY <1>6, <1>7
  <2> HIDE DEF x, y
  <2> QED BY <1>2, <1>4, <1>5, <2>1
<1>10. Len(raw) = Len(tail)
  BY <1>2, <1>4, <1>5, <1>6, <1>8, <1>9
<1> QED BY <1>5, <1>10 DEF raw, ds, tail, n

\* A decimal without its sign.
LEMMA Unsigned ==
  ASSUME NEW d, Form(d), ~Numbers!IsZero(d)
  PROVE  LET e == IF Numbers!IsNegative(d) THEN Numbers!Negated(d) ELSE d IN
         /\ Form(e) /\ e.scale = d.scale /\ Numbers!ValueOf(e) \in Nat \ {0}
         /\ Numbers!ValueOf(d) = SignIs(Numbers!IsNegative(d)) * Numbers!ValueOf(e)
         /\ ~(e.int < 0 \/ e.frac < 0) /\ Numbers!IsNegative(d) \in BOOLEAN
<1> DEFINE V == Numbers!ValueOf(d)
           e == IF Numbers!IsNegative(d) THEN Numbers!Negated(d) ELSE d
           W == Numbers!ValueOf(e)
<1>1. V \in Int /\ V # 0 /\ (V < 0) = Numbers!IsNegative(d) /\ d.scale \in Nat
  BY FormHas DEF Numbers!IsZero, Numbers!IsNegative, Form
<1>2. CASE V < 0
  <2>1. Numbers!IsNegative(d) /\ e = Numbers!Negated(d)
    BY <1>1, <1>2
  <2>2. StandsFor(e, -V, d.scale)
    BY <2>1, StandsForItself, ChangesStand
  <2>3. e.scale = d.scale
    BY <2>1 DEF Numbers!Negated, Numbers!OfTuple, Numbers!Decimal
  <2>4. W = (-V) * Numbers!Pow(0) /\ Form(e)
    <3>1. d.scale - d.scale = 0
      BY <1>1
    <3> HIDE DEF e, V
    <3> QED BY <2>2, <2>3, <3>1 DEF StandsFor
  <2> HIDE DEF e, V, W
  <2>5. W = -V
    BY <1>1, <2>4, PowOfNone
  <2>6. W \in Nat \ {0} /\ V = SignIs(Numbers!IsNegative(d)) * W
    <3>1. SignIs(Numbers!IsNegative(d)) = -1
      BY <2>1 DEF SignIs
    <3> QED BY <1>1, <1>2, <2>5, <3>1
  <2>7. ~(e.int < 0 \/ e.frac < 0)
    <3>1. (W < 0) = (e.int < 0 \/ e.frac < 0)
      BY <2>4, FormHas DEF W
    <3> QED BY <2>6, <3>1
  <2> QED BY <2>1, <2>3, <2>4, <2>6, <2>7 DEF W, V, e
<1>3. CASE ~(V < 0)
  <2>1. ~Numbers!IsNegative(d) /\ Numbers!IsNegative(d) \in BOOLEAN /\ e = d
    BY <1>1, <1>3 DEF Numbers!IsNegative
  <2>2. V \in Nat \ {0} /\ V = SignIs(Numbers!IsNegative(d)) * V
    <3>1. SignIs(Numbers!IsNegative(d)) = 1
      BY <2>1 DEF SignIs
    <3> HIDE DEF V
    <3> QED BY <1>1, <1>3, <3>1
  <2>3. ~(d.int < 0 \/ d.frac < 0)
    <3>1. (V < 0) = (d.int < 0 \/ d.frac < 0)
      BY FormHas
    <3> QED BY <1>3, <3>1
  <2> HIDE DEF e, V
  <2> QED BY <2>1, <2>2, <2>3 DEF V, e
<1> QED BY <1>2, <1>3

LEMMA ZeroReadsBack ==
  ASSUME NEW d, Form(d), Numbers!IsZero(d)
  PROVE  Numbers!Compare(Numbers!FromScientificNotation(Numbers!ToScientific(d)), d) = 0
<1> DEFINE z == <<0>>  x == Numbers!Scientific(FALSE, z, <<>>, 0)
           e == z \o Numbers!Zeros(0)  D == Numbers!FromScientificNotation(x)
<1>1. Numbers!ToScientific(d) = x
  BY DEF Numbers!ToScientific
<1>2. z \in Seq(Few) /\ Len(z) = 1 /\ z[1] = 0 /\ Numbers!NumberOf(z) = 0
  BY FewIs, OneDigit
<1> HIDE DEF z
<1>3. Numbers!TrimStart(z) = <<>>
  <2>1. PICK k \in 0..Len(z) : /\ Numbers!TrimStart(z) = SubSeq(z, k + 1, Len(z))
                               /\ k < Len(z) => z[k + 1] # 0
    BY <1>2, TrimStartIs
  <2>2. k = 1
    BY <1>2, <2>1
  <2>3. SubSeq(z, 2, 1) = <<>>
    BY SubSeqEmpty
  <2> QED BY <1>2, <2>1, <2>2, <2>3
<1>4. z \o <<>> = z /\ z # <<>>
  BY <1>2, ConcatEmptySeq
<1>5. D = Numbers!OfString(Numbers!Text(FALSE, e, <<>>))
  <2>1. x.int = z /\ x.frac = <<>> /\ x.exp = 0 /\ x.neg = FALSE /\ z = <<0>>
    BY DEF Numbers!Scientific, z
  <2> HIDE DEF x
  <2>2. ~(1 + 0 <= 0) /\ 1 + 0 >= 1 /\ (1 + 0) - 1 = 0
    OBVIOUS
  <2> QED BY <1>2, <1>3, <1>4, <2>1, <2>2 DEF Numbers!FromScientificNotation
<1>6. e \in Seq(Few) /\ Numbers!NumberOf(e) = 0 * Numbers!Pow(0)
  BY <1>2, ZerosBehind
<1> HIDE DEF e, D
<1>7. e \o <<>> = e /\ Numbers!NumberOf(e) = 0
  BY <1>6, ConcatEmptySeq, PowOfNone
<1>8. StandsFor(D, SignIs(FALSE) * 0, 0)
  BY <1>5, <1>6, <1>7, OfStringStands, NumberOfNone
<1>9. (SignIs(FALSE) * 0) * Numbers!Pow(d.scale) = Numbers!ValueOf(d) * Numbers!Pow(0)
  <2>1. Numbers!ValueOf(d) = 0
    BY FormHas DEF Numbers!IsZero
  <2>2. Numbers!Pow(d.scale) \in Nat
    BY PowType DEF Form
  <2> QED BY <2>1, <2>2, PowOfNone DEF SignIs
<1>10. Numbers!Compare(D, d) = 0
  BY <1>8, <1>9, SameNumber
<1> QED BY <1>1, <1>10 DEF D

LEMMA ScientificReadsBack ==
  ASSUME NEW d, Form(d), ~Numbers!IsZero(d)
  PROVE  Numbers!Compare(Numbers!FromScientificNotation(Numbers!ToScientific(d)), d) = 0
<1> DEFINE neg == Numbers!IsNegative(d)
           e == IF neg THEN Numbers!Negated(d) ELSE d
           W == Numbers!ValueOf(e)  V == Numbers!ValueOf(d)  S == d.scale
           I == Numbers!Abs(e.int)  a == Numbers!Digits(I)
<1>1. /\ Form(e) /\ e.scale = S /\ W \in Nat \ {0} /\ V = SignIs(neg) * W
      /\ ~(e.int < 0 \/ e.frac < 0) /\ neg \in BOOLEAN
  BY Unsigned
<1>2. PICK b : /\ WrittenAs(e, b)
               /\ Numbers!ToString(e) = Numbers!Text(e.int < 0 \/ e.frac < 0, a, b)
  <2> HIDE DEF e
  <2> QED BY <1>1, ToStringTells
<1> DEFINE t == Numbers!ToString(e)  L == Len(b)  ds == a \o b  N == Numbers!NumberOf(ds)
           raw == Numbers!TrimStart(ds)  digits == Numbers!TrimEnd(raw)
           exp == IF a # <<0>> THEN Len(a) - 1 ELSE -(L - Len(Numbers!TrimStart(b))) - 1
           head == SubSeq(digits, 1, 1)  tail == SubSeq(digits, 2, Len(digits))
           x == Numbers!Scientific(neg, head, tail, exp)
<1>3. t.int = a /\ t.frac = b
  <2> HIDE DEF a, t, e
  <2> QED BY <1>2 DEF Numbers!Text, t
<1>4. Numbers!ToScientific(d) = x
  <2> HIDE DEF a
  <2> QED BY <1>3 DEF Numbers!ToScientific
<1>5. DigitsOf(a, I)
  <2>1. I \in Nat
    <3> HIDE DEF e
    <3> QED BY <1>1, SignIsKept DEF SignedAs
  <2> HIDE DEF I
  <2> QED BY <2>1, DigitsAre
<1>6. /\ a \in Seq(Few) /\ b \in Seq(Few) /\ L \in Nat /\ N \in Nat /\ S \in Nat
      /\ N * Numbers!Pow(S) = W * Numbers!Pow(L)
  <2>1. TextTells(e, e.int < 0 \/ e.frac < 0, a, b)
    <3> HIDE DEF e
    <3> QED BY <1>1, <1>2, WrittenOut DEF WrittenAs
  <2>2. SignIs(e.int < 0 \/ e.frac < 0) = 1
    <3> HIDE DEF e
    <3> QED BY <1>1 DEF SignIs
  <2> DEFINE sg == SignIs(e.int < 0 \/ e.frac < 0)
  <2> HIDE DEF sg, e, a, ds
  <2>3. (sg * N) * Numbers!Pow(S) = W * Numbers!Pow(L) /\ N \in Nat
    BY <1>1, <2>1 DEF TextTells, ds, sg
  <2>4. sg * N = N
    BY <2>2, <2>3 DEF sg
  <2>5. S \in Nat
    BY DEF Form
  <2> QED BY <2>1, <2>3, <2>4, <2>5 DEF TextTells
<1> HIDE DEF e, W, V, a, neg, I
<1>7. N # 0
  <2> SUFFICES ASSUME N = 0 PROVE FALSE
    OBVIOUS
  <2>1. Numbers!Pow(S) \in Nat /\ Numbers!Pow(L) \in Nat \ {0}
    BY <1>6, PowType
  <2> DEFINE p == Numbers!Pow(L)  q == Numbers!Pow(S)
  <2>2. 0 * q = W * p
    BY <1>6
  <2> HIDE DEF p, q
  <2>3. W * p # 0
    BY <1>1, <2>1, TimesPositive DEF p
  <2> QED BY <2>1, <2>2, <2>3 DEF q
<1>8. /\ ds \in Seq(Few) /\ Len(ds) = Len(a) + L /\ Len(a) \in Nat \ {0} /\ ds[1] = a[1]
  <2>1. Len(a) \in Nat \ {0}
    BY <1>5 DEF DigitsOf
  <2>2. 1 \in 1..(Len(a) + L) /\ 1 <= Len(a)
    BY <1>6, <2>1
  <2> QED BY <1>6, <2>1, <2>2, ConcatProperties
<1> HIDE DEF ds, L
<1>9. raw \in Seq(Few) /\ Len(raw) \in Nat \ {0} /\ raw[1] # 0 /\ Numbers!NumberOf(raw) = N
  BY <1>7, <1>8, TrimmedStart
<1> HIDE DEF raw, N
<1> DEFINE E == Len(raw) - Len(digits)  n == Numbers!NumberOf(digits)
<1>10. /\ digits \in Seq(Few) /\ Len(digits) \in Nat \ {0} /\ digits[1] # 0 /\ E \in Nat
       /\ N = n * Numbers!Pow(E)
  <2>1. /\ digits \in Seq(Few) /\ Len(digits) \in Nat /\ E \in Nat
        /\ Numbers!NumberOf(raw) = n * Numbers!Pow(E)
        /\ Len(raw) # 0 /\ raw[1] # 0 => Len(digits) # 0 /\ digits[1] = raw[1]
    BY <1>9, TrimmedEnd
  <2> HIDE DEF digits, E, n
  <2> QED BY <1>9, <2>1
<1> HIDE DEF digits
<1>11. /\ head = <<digits[1]>> /\ tail \in Seq(Few) /\ head \o tail = digits
       /\ Len(tail) = Len(digits) - 1 /\ digits[1] \in Few \ {0}
  <2> DEFINE h == SubSeq(digits, 1, 1)
  <2>1. 1 \in 0..Len(digits) /\ 1 \in 1..Len(digits) /\ 1 + 1 = 2
    BY <1>10
  <2>2. /\ h \in Seq(Few) /\ Len(h) = 1 /\ \A i \in 1..1 : h[i] = digits[i]
        /\ SubSeq(digits, 1 + 1, Len(digits)) \in Seq(Few)
        /\ digits = h \o SubSeq(digits, 1 + 1, Len(digits))
        /\ Len(SubSeq(digits, 1 + 1, Len(digits))) = Len(digits) - 1
    BY <1>10, <2>1, CutIs
  <2> HIDE DEF h
  <2>3. digits[1] \in Few
    BY <1>10, <2>1
  <2>4. h = <<digits[1]>>
    <3> DEFINE g == <<digits[1]>>
    <3>1. g \in Seq(Few) /\ Len(g) = 1 /\ g[1] = digits[1]
      BY <2>3
    <3> HIDE DEF g
    <3>2. \A i \in 1..Len(h) : h[i] = g[i]
      BY <2>2, <3>1
    <3>3. h = g
      BY <2>2, <3>1, <3>2, SeqEqual
    <3> QED BY <3>3 DEF g
  <2> QED BY <1>10, <2>1, <2>2, <2>3, <2>4 DEF h
<1> HIDE DEF tail
<1>12. exp \in Int /\ Len(tail) - exp = L - E
  <2>1. CASE a # <<0>>
    <3>1. a[1] # 0
      BY <1>5, <2>1 DEF DigitsOf
    <3>2. raw = ds
      <4>1. Len(ds) # 0
        BY <1>6, <1>8
      <4> QED BY <1>8, <3>1, <4>1, NothingToTrim DEF raw
    <3>3. exp = Len(a) - 1
      BY <2>1
    <3>4. Len(raw) = Len(a) + L
      BY <1>8, <3>2
    <3> HIDE DEF exp
    <3> QED BY <1>6, <1>8, <1>10, <1>11, <3>3, <3>4
  <2>2. CASE a = <<0>>
    <3> DEFINE k == Len(Numbers!TrimStart(b))
    <3>1. Numbers!NumberOf(<<0>> \o b) # 0
      BY <1>7, <2>2 DEF N, ds
    <3>2. Len(raw) = k /\ k \in Nat
      BY <1>6, <2>2, <3>1, FirstDigit DEF raw, ds
    <3>3. exp = -(L - k) - 1
      BY <2>2
    <3> HIDE DEF exp, k
    <3> QED BY <1>6, <1>10, <1>11, <3>2, <3>3
  <2> QED BY <2>1, <2>2
<1> DEFINE l == L - E  s == Numbers!Larger(l, 0)  u == n * Numbers!Pow(s - l)
           D == Numbers!FromScientificNotation(x)
<1>13. StandsFor(D, SignIs(neg) * u, s) /\ n \in Nat /\ s \in Nat /\ s - l \in Nat
  <2> DEFINE f == digits[1]
  <2>1. f \in Few \ {0} /\ head = <<f>> /\ <<f>> \o tail = digits
    BY <1>11
  <2> HIDE DEF f, head, exp
  <2>2. /\ StandsFor(Numbers!FromScientificNotation(Numbers!Scientific(neg, <<f>>, tail, exp)),
                     SignIs(neg) * u, s)
        /\ n \in Nat /\ s \in Nat /\ s - l \in Nat
    <3> DEFINE k == Len(tail) - exp  r == Numbers!Larger(k, 0)
               m == Numbers!NumberOf(<<f>> \o tail)
    <3>1. /\ StandsFor(Numbers!FromScientificNotation(Numbers!Scientific(neg, <<f>>, tail, exp)),
                       SignIs(neg) * (m * Numbers!Pow(r - k)), r)
          /\ m \in Nat /\ r \in Nat /\ r - k \in Nat
      BY <1>1, <1>11, <1>12, <2>1, FromScientificStands
    <3>2. k = l /\ m = n /\ r = s
      BY <1>12, <2>1
    <3> HIDE DEF k, m, r, l, n, s
    <3> QED BY <3>1, <3>2
  <2> QED BY <2>1, <2>2
<1>14. u * Numbers!Pow(S) = W * Numbers!Pow(s)
  <2>1. Shifted(n, E, S, W, L)
    BY <1>6, <1>10 DEF Shifted
  <2>2. n \in Nat /\ E \in Nat /\ L \in Nat /\ S \in Nat /\ W \in Int
    BY <1>1, <1>6, <1>10, <1>13
  <2> HIDE DEF n, E, S
  <2>3. Shifted(n, s - l, S, W, s)
    BY <2>1, <2>2, ShiftIs
  <2> QED BY <2>3 DEF Shifted
<1> HIDE DEF x, l, s, n, D
<1>15. (SignIs(neg) * u) * Numbers!Pow(S) = V * Numbers!Pow(s)
  <2> DEFINE p == Numbers!Pow(S)  q == Numbers!Pow(s)  sg == SignIs(neg)
  <2>1. p \in Nat /\ q \in Nat /\ u \in Nat /\ sg \in Int /\ W \in Int
    <3>1. Numbers!Pow(s - l) \in Nat
      BY <1>13, PowType
    <3>2. u \in Nat
      BY <1>13, <3>1, TimesNat
    <3>3. p \in Nat /\ q \in Nat
      BY <1>6, <1>13, PowType
    <3>4. sg \in Int
      BY DEF SignIs
    <3> HIDE DEF u, p, q, sg
    <3> QED BY <1>1, <3>2, <3>3, <3>4
  <2>2. u * p = W * q /\ V = sg * W
    BY <1>1, <1>14
  <2> HIDE DEF p, q, sg, u
  <2>3. (sg * u) * p = sg * (u * p) /\ (sg * W) * q = sg * (W * q)
    BY <2>1
  <2>4. (sg * u) * p = V * q
    BY <2>2, <2>3
  <2> QED BY <2>4 DEF p, q, sg
<1>16. Numbers!Compare(D, d) = 0
  <2> HIDE DEF u
  <2> QED BY <1>13, <1>15, SameNumber DEF V
<1> QED BY <1>4, <1>16 DEF D

LEMMA NotationsExact == ASSUME DecInv PROVE Numbers!NotationsAreExact
<1> SUFFICES ASSUME doubt # "parts"
             PROVE  /\ Numbers!Compare(Numbers!OfString(Numbers!ToString(dec)), dec) = 0
                    /\ Numbers!Compare(Numbers!FromScientificNotation(
                                         Numbers!ToScientific(dec)), dec) = 0
                    /\ \A p \in 0..2 :
                         Numbers!Compare(Numbers!OfString(Numbers!ToFixed(dec, p)),
                                         Numbers!Round(dec, p)) = 0
  BY DEF Numbers!NotationsAreExact
<1>1. Form(dec) /\ Means(dec, Numbers!ValueOf(dec), dec.scale)
  BY FormIs, MeansItself DEF DecInv, Known
<1>2. Numbers!Compare(Numbers!FromScientificNotation(Numbers!ToScientific(dec)), dec) = 0
  BY <1>1, ZeroReadsBack, ScientificReadsBack
<1>3. ASSUME NEW p \in 0..2
      PROVE  Numbers!Compare(Numbers!OfString(Numbers!ToFixed(dec, p)), Numbers!Round(dec, p)) = 0
  <2>1. p \in Nat
    OBVIOUS
  <2>2. Form(Numbers!Round(dec, p)) /\ Numbers!Round(dec, p).scale = p
    BY <1>1, <2>1, RoundIs DEF RoundedWell
  <2> QED BY <2>2, FixedReadsBack
<1> QED BY <1>1, <1>2, <1>3, StringReadsBack

-----------------------------------------------------------------------------
(* The parts together.                                                     *)

PartsInv ==
  /\ part = "query" => QueryInv /\ Whole
  /\ part = "http" => HttpInv
  /\ part = "database" => DatabaseInv
  /\ part = "diagnostics" => DiagnosedInv
  /\ part = "publisher" => PublisherInv
  /\ part = "decimals" => DecInv

\* What the parts assume of their constants.
LEMMA Constants == QueryConstants /\ HttpConstants /\ DatabaseConstants /\ ItemsKnown
                     /\ PublisherConstants
<1>1. QueryConstants
  <2>1. Count \in Nat /\ Statements = 1..Count
    BY PartsAssumption, FS_CardinalityType DEF Count
  <2> QED BY <2>1, PartsAssumption DEF QueryConstants
<1>2. HttpConstants
  BY PartsAssumption DEF HttpConstants
<1>3. DatabaseConstants
  BY PartsAssumption DEF DatabaseConstants
<1>4. ItemsKnown
  BY PartsAssumption DEF ItemsKnown
<1>5. PublisherConstants
  BY PartsAssumption DEF PublisherConstants
<1> QED BY <1>1, <1>2, <1>3, <1>4, <1>5

\* Each part keeps its invariant while it moves, and the others stand still.
LEMMA PartsInvariant == PartsSpec => []PartsInv
<1>1. PartsInit => PartsInv
  <2> SUFFICES ASSUME PartsInit PROVE PartsInv
    OBVIOUS
  <2>1. CASE part = "query"
    BY <2>1, Constants, QueryInitInv, InitWhole DEF PartsInit, PartsInv
  <2>2. CASE part = "http"
    BY <2>2, Constants, HttpInitInv DEF PartsInit, PartsInv
  <2>3. CASE part = "database"
    BY <2>3, Constants, DatabaseInitInv DEF PartsInit, PartsInv
  <2>4. CASE part = "diagnostics"
    BY <2>4, Constants, DiagnosedInitInv DEF PartsInit, PartsInv
  <2>5. CASE part = "publisher"
    BY <2>5, Constants, PublisherInitInv DEF PartsInit, PartsInv
  <2>6. CASE part = "decimals"
    BY <2>6, DecimalsInit DEF PartsInit, PartsInv
  <2> QED BY <2>1, <2>2, <2>3, <2>4, <2>5, <2>6 DEF PartsInit
<1>2. PartsInv /\ [PartsNext]_partsVars => PartsInv'
  <2> SUFFICES ASSUME PartsInv, [PartsNext]_partsVars PROVE PartsInv'
    OBVIOUS
  <2>1. part' = part
    BY DEF PartsNext, partsVars
  <2>2. ASSUME part = "query" PROVE QueryInv' /\ Whole'
    <3>1. [Query!Next]_Query!vars
      BY <2>2 DEF PartsNext, partsVars, queryVars, Query!vars
    <3> QED BY <2>2, <3>1, Constants, QueryNextInv, NextWhole DEF PartsInv
  <2>3. ASSUME part = "http" PROVE HttpInv'
    <3>1. [Http!Next]_Http!vars
      BY <2>3 DEF PartsNext, partsVars, httpVars, Http!vars
    <3> QED BY <2>3, <3>1, Constants, HttpNextInv DEF PartsInv
  <2>4. ASSUME part = "database" PROVE DatabaseInv'
    <3>1. [Database!Next]_Database!vars
      BY <2>4 DEF PartsNext, partsVars, databaseVars, Database!vars
    <3> QED BY <2>4, <3>1, DatabaseNextInv DEF PartsInv
  <2>5. ASSUME part = "diagnostics" PROVE DiagnosedInv'
    <3>1. [Diagnosed!Next]_Diagnosed!vars
      BY <2>5 DEF PartsNext, partsVars, diagnosedVars, Diagnosed!vars
    <3> QED BY <2>5, <3>1, Constants, DiagnosedNextInv DEF PartsInv
  <2>6. ASSUME part = "publisher" PROVE PublisherInv'
    <3>1. [Published!Next]_Published!vars
      BY <2>6 DEF PartsNext, partsVars, publishedVars, Published!vars
    <3> QED BY <2>6, <3>1, Constants, PublisherNextInv DEF PartsInv
  <2>7. ASSUME part = "decimals" PROVE DecInv'
    <3>1. Numbers!Next \/ UNCHANGED Numbers!vars
      BY <2>7 DEF PartsNext, partsVars, decimalVars, Numbers!vars
    <3>2. DecInv
      BY <2>7 DEF PartsInv
    <3>3. CASE Numbers!Next
      BY <3>2, <3>3, DecimalsStep
    <3>4. CASE UNCHANGED Numbers!vars
      BY <3>2, <3>4, DecimalsRest
    <3> QED BY <3>1, <3>3, <3>4
  <2> QED BY <2>1, <2>2, <2>3, <2>4, <2>5, <2>6, <2>7 DEF PartsInv
<1> QED BY <1>1, <1>2, PTL DEF PartsSpec

\* What collect(), responses() and stream() give is the last answer, whole and
\* of one attempt (query.ts, dispatched-promise.ts).
THEOREM WholeAnswers == PartsSpec => []AnswersAreWhole
<1>1. PartsInv => AnswersAreWhole
  BY Constants, AnswersWhole DEF PartsInv, AnswersAreWhole
<1> QED BY <1>1, PartsInvariant, PTL

\* A query that is one transaction takes effect at most once, whatever is tried
\* again, and collect() gives up when the attempts are spent (retry.ts).
THEOREM SafeRetries == PartsSpec => []RetriedSafely
<1>1. PartsInv => RetriedSafely
  BY TransactionsOnce DEF PartsInv, RetriedSafely, QueryInv
<1> QED BY <1>1, PartsInvariant, PTL

\* Over HTTP, requests run as if the server kept the session, and no answer is
\* taken for one of another connection (http.ts).
THEOREM SessionsOverHttp == PartsSpec => []ActsAsSession
<1>1. PartsInv => ActsAsSession
  BY DEF PartsInv, ActsAsSession, HttpInv
<1> QED BY <1>1, PartsInvariant, PTL

\* The options mean what they say, no live query escapes, and a transaction is
\* ended once (mod.rs, options.rs).
THEOREM KeptTables == PartsSpec => []TablesAreKept
<1>1. PartsInv => TablesAreKept
  BY DatabaseInvKeeps DEF PartsInv, TablesAreKept
<1> QED BY <1>1, PartsInvariant, PTL

\* Diagnostics change nothing of a call but what their callback throws
\* (diagnostics.ts).
THEOREM TransparentDiagnostics == PartsSpec => []DiagnosticsAreTransparent
<1>1. PartsInv => DiagnosticsAreTransparent
  BY DiagnosedInvKeeps DEF PartsInv, DiagnosticsAreTransparent
<1> QED BY <1>1, PartsInvariant, PTL

\* Every listener that stays hears an event once, whoever else comes and goes,
\* and subscribeFirst() resolves once (publisher.ts).
THEOREM ListenersHear == PartsSpec => []ListenersHearOnce
<1>1. PartsInv => ListenersHearOnce
  BY PublisherInvKeeps DEF PartsInv, ListenersHearOnce
<1> QED BY <1>1, PartsInvariant, PTL

\* A decimal is the number that arithmetic says, through any sequence of
\* operations, unless it comes from a number that prints with an exponent or
\* from abs() of parts that differ in sign; and it survives its notations,
\* unless it is a tuple whose parts no arithmetic has put in order yet
\* (decimal.ts).
THEOREM ExactValues == PartsSpec => []ValuesAreExact
<1>1. PartsInv => ValuesAreExact
  BY DecimalsExact, NotationsExact DEF PartsInv, ValuesAreExact
<1> QED BY <1>1, PartsInvariant, PTL
=============================================================================
