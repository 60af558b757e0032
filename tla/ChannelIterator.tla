--------------------------- MODULE ChannelIterator ---------------------------
(***************************************************************************)
(* The channel that carries live messages to an async iterator             *)
(* (packages/sdk/src/utils/channel-iterator.ts).                           *)
(*                                                                         *)
(* The values submitted are numbered 1, 2, 3, ... The calls of next() are  *)
(* numbered too, and promise[p] is what the p-th call returned. As a for   *)
(* await loop does, the consumer calls next() when the promise of the      *)
(* previous call has settled.                                              *)
(***************************************************************************)
EXTENDS Integers, Sequences

CONSTANTS
  MaxValues,      \* bound: values submitted
  MaxNexts,       \* bound: next() calls
  Prompt          \* the consumer calls next() again before the next submit()

Promises == 1..MaxNexts
Values   == 1..MaxValues
None     == 0                            \* no waiter
Unsettled == -1
Done      == 0                           \* {value: undefined, done: true}

ASSUME BoundsAssumption ==
  MaxValues \in Nat /\ MaxNexts \in Nat /\ Prompt \in BOOLEAN

VARIABLES
  cancelled,      \* #cancelled
  queue,          \* #queue
  waiter,         \* #waiter: the promise it resolves, settled or not
  promise,        \* what the calls of next() returned
  nexts,          \* next() calls so far
  submitted,      \* values submitted so far
  submittedLive   \* history: values submitted before the channel was cancelled

vars == <<cancelled, queue, waiter, promise, nexts, submitted, submittedLive>>

TypeOK ==
  /\ cancelled \in BOOLEAN
  /\ queue \in Seq(Values)
  /\ waiter \in Promises \cup {None}
  /\ promise \in [Promises -> Values \cup {Done, Unsettled}]
  /\ nexts \in 0..MaxNexts
  /\ submitted \in 0..MaxValues
  /\ submittedLive \in 0..MaxValues

Init ==
  /\ cancelled = FALSE
  /\ queue = << >>
  /\ waiter = None
  /\ promise = [p \in Promises |-> Unsettled]
  /\ nexts = 0
  /\ submitted = 0
  /\ submittedLive = 0

-----------------------------------------------------------------------------

(* Faulty variants of the definitions below. The properties tell each of   *)
(* them from the code.                                                     *)

\* next() takes the newest value of the queue.
TakesNewest == queue[Len(queue)]

\* A value that finds no waiter is dropped.
EnqueueNothing(v) == UNCHANGED queue

\* The channel is cancelled without telling the consumer that waits.
StopSilently ==
  /\ cancelled' = TRUE
  /\ UNCHANGED promise

\* The consumer is told, and the channel is not cancelled.
StopOnlyTells ==
  /\ promise' = IF waiter # None /\ promise[waiter] = Unsettled
                  THEN [promise EXCEPT ![waiter] = Done]
                  ELSE promise
  /\ UNCHANGED cancelled

-----------------------------------------------------------------------------

\* The consumer awaits the promise of its last call.
Awaits == nexts > 0 /\ promise[nexts] = Unsettled

\* Resolving a promise that is settled does nothing.
Resolve(p, result) ==
  promise' = IF p # None /\ promise[p] = Unsettled
               THEN [promise EXCEPT ![p] = result]
               ELSE promise

CallNext ==
  /\ ~Awaits
  /\ nexts < MaxNexts
  /\ nexts' = nexts + 1
  /\ UNCHANGED <<cancelled, submitted, submittedLive>>

NextCancelled ==
  /\ CallNext
  /\ cancelled
  /\ promise' = [promise EXCEPT ![nexts'] = Done]
  /\ UNCHANGED <<queue, waiter>>

\* The value shift() takes.
Oldest == Head(queue)

NextFromQueue ==
  /\ CallNext
  /\ ~cancelled /\ queue # << >>
  /\ promise' = [promise EXCEPT ![nexts'] = Oldest]
  /\ queue' = Tail(queue)
  /\ UNCHANGED waiter

NextWaits ==
  /\ CallNext
  /\ ~cancelled /\ queue = << >>
  /\ waiter' = nexts'
  /\ UNCHANGED <<promise, queue>>

-----------------------------------------------------------------------------

\* A cancelled channel accepts values all the same.
CallSubmit ==
  /\ submitted < MaxValues
  /\ Prompt => waiter = None \/ Awaits \/ cancelled
  /\ submitted' = submitted + 1
  /\ submittedLive' = IF cancelled THEN submittedLive ELSE submitted'
  /\ UNCHANGED <<cancelled, nexts, waiter>>

SubmitToWaiter ==
  /\ CallSubmit
  /\ waiter # None
  /\ Resolve(waiter, submitted')
  /\ UNCHANGED queue

Enqueue(v) == queue' = Append(queue, v)

SubmitToQueue ==
  /\ CallSubmit
  /\ waiter = None
  /\ Enqueue(submitted')
  /\ UNCHANGED promise

-----------------------------------------------------------------------------

\* The channel is cancelled, and the consumer that waits is told so.
TellDone ==
  /\ cancelled' = TRUE
  /\ Resolve(waiter, Done)

\* return() of the consumer, cancel() of the producer.
ReturnOrCancel ==
  /\ TellDone
  /\ UNCHANGED <<queue, waiter, nexts, submitted, submittedLive>>

\* throw() forgets the waiter as well.
Throw ==
  /\ TellDone
  /\ waiter' = None
  /\ UNCHANGED <<queue, nexts, submitted, submittedLive>>

Consume == NextCancelled \/ NextFromQueue \/ NextWaits
Submit  == SubmitToWaiter \/ SubmitToQueue
Stop    == ReturnOrCancel \/ Throw

Next == Consume \/ Submit \/ Stop

Spec == Init /\ [][Next]_vars

-----------------------------------------------------------------------------
(* Properties.                                                             *)

Delivered == {promise[p] : p \in Promises} \cap Values

(* Values arrive in the order they were submitted, each at most once:      *)
(* whether next() takes them from #queue or submit() hands them to the     *)
(* waiter, later calls get later values, and what is queued is later still.*)
InOrder ==
  /\ \A p, q \in Promises :
       p < q /\ promise[p] \in Values /\ promise[q] \in Values => promise[p] < promise[q]
  /\ \A i \in 1..Len(queue), v \in Delivered : v < queue[i]
  /\ \A i, j \in 1..Len(queue) : i < j => queue[i] < queue[j]

(* The consumer never sleeps on a promise nobody will resolve: while it    *)
(* awaits, the waiter is its promise, no value is queued and the channel   *)
(* is not cancelled.                                                       *)
NoLostWakeup ==
  Awaits => waiter = nexts /\ queue = << >> /\ ~cancelled

(* A consumer that was told "done" gets no value afterwards, whatever      *)
(* submit() does with the values of a cancelled channel.                   *)
DoneIsFinal ==
  \A p, q \in Promises : p < q /\ promise[p] = Done => promise[q] \notin Values

(* "The channel iterator is a utility class that allows you to submit      *)
(* values to an async iterator" (channel-iterator.ts): a value submitted   *)
(* to a channel that is not cancelled is delivered, or queued for the      *)
(* next call of next(). It holds for a prompt consumer; submit() hands a   *)
(* value to the waiter it already resolved when the consumer is still busy *)
(* with the previous value.                                                *)
NothingIsLost ==
  \A v \in 1..submittedLive :
    v \in Delivered \/ \E i \in 1..Len(queue) : queue[i] = v
=============================================================================
