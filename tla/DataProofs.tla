----------------------------- MODULE DataProofs -----------------------------
(***************************************************************************)
(* Proofs about the parts of the library that pass data on: the channel of *)
(* live messages, the errors of the server, the builders and bound queries,*)
(* durations and dates, and the reader of a chat.  The parts of DataSpec   *)
(* do not share state, so each has an inductive invariant of its own.      *)
(***************************************************************************)
EXTENDS Data, SequenceTheorems, WellFoundedInduction, TLAPS

-----------------------------------------------------------------------------
(* The channel iterator, for every number of values and of next() calls.   *)
(* One inductive invariant carries all of its theorems.                    *)

\* The calls of next() settle in order; the calls to come have no result.
OneAtATime ==
  /\ \A p \in Promises : p > nexts => promise[p] = Unsettled
  /\ \A p \in Promises : p < nexts => promise[p] # Unsettled
  /\ waiter <= nexts

\* What was delivered or queued was submitted, and what is queued is later
\* than what was delivered.
Submitted ==
  /\ \A p \in Promises : promise[p] <= submitted
  /\ \A i \in 1..Len(queue) : queue[i] <= submitted
  /\ \A i \in 1..Len(queue), p \in Promises : promise[p] < queue[i]

\* A waiter and queued values exclude each other.
WaiterOrQueue == waiter # None => queue = << >>

DoneMeansCancelled == \A p \in Promises : promise[p] = Done => cancelled

Inv ==
  /\ TypeOK
  /\ OneAtATime
  /\ Submitted
  /\ WaiterOrQueue
  /\ DoneMeansCancelled
  /\ InOrder
  /\ NoLostWakeup
  /\ DoneIsFinal

-----------------------------------------------------------------------------

LEMMA InitInv == Init => Inv
<1> SUFFICES ASSUME Init PROVE Inv
  OBVIOUS
<1>1. TypeOK
  <2>1. queue \in Seq(Values)
    BY DEF Init
  <2>2. promise \in [Promises -> Values \cup {Done, Unsettled}]
    BY DEF Init
  <2>3. waiter \in Promises \cup {None} /\ cancelled \in BOOLEAN
    BY DEF Init
  <2>4. nexts \in 0..MaxNexts /\ submitted \in 0..MaxValues /\ submittedLive \in 0..MaxValues
    BY BoundsAssumption DEF Init
  <2> QED BY <2>1, <2>2, <2>3, <2>4 DEF TypeOK
<1>2. Len(queue) = 0 /\ 1..Len(queue) = {} /\ queue = << >>
  BY DEF Init
<1>3. \A p \in Promises : promise[p] = -1
  BY DEF Init, Promises, Unsettled
<1>4. OneAtATime /\ WaiterOrQueue /\ NoLostWakeup
  BY <1>1, <1>2 DEF Init, OneAtATime, WaiterOrQueue, NoLostWakeup, Awaits, Promises, None,
     Unsettled
<1>5. Submitted /\ DoneMeansCancelled /\ DoneIsFinal
  BY <1>2, <1>3 DEF Init, Submitted, DoneMeansCancelled, DoneIsFinal, Done
<1>6. InOrder
  BY <1>2, <1>3, BoundsAssumption DEF InOrder, Values
<1> QED BY <1>1, <1>4, <1>5, <1>6 DEF Inv

LEMMA NextCancelledInv ==
  ASSUME Inv, NextCancelled
  PROVE  Inv'
<1> USE BoundsAssumption DEF Inv, TypeOK, OneAtATime, NextCancelled, CallNext, Promises, None,
        Unsettled, Done, Awaits
<1>1. nexts' \in Promises /\ waiter <= nexts
  OBVIOUS
<1>2. promise' = [promise EXCEPT ![nexts'] = Done]
  OBVIOUS
<1>3. TypeOK'
  BY <1>1
<1>4. OneAtATime'
  BY <1>1
<1>5. Submitted'
  BY <1>1, SMTT(30) DEF Submitted, Values
<1>6. WaiterOrQueue' /\ DoneMeansCancelled'
  BY DEF WaiterOrQueue, DoneMeansCancelled
<1>7. InOrder'
  <2>1. \A p, q \in Promises :
          p < q /\ promise'[p] \in Values /\ promise'[q] \in Values => promise'[p] < promise'[q]
    BY <1>1 DEF InOrder, Values
  <2>2. \A i \in 1..Len(queue'), v \in Delivered' : v < queue'[i]
    BY <1>5 DEF Submitted, Delivered
  <2> QED BY <2>1, <2>2 DEF InOrder
<1>8. NoLostWakeup' /\ DoneIsFinal'
  BY <1>1 DEF NoLostWakeup, DoneIsFinal, Values
<1> QED BY <1>3, <1>4, <1>5, <1>6, <1>7, <1>8 DEF Inv

LEMMA NextFromQueueInv ==
  ASSUME Inv, NextFromQueue
  PROVE  Inv'
<1> USE BoundsAssumption DEF Promises, None, Unsettled, Done
<1>1. /\ nexts' \in Promises /\ nexts' = nexts + 1
      /\ promise' = [promise EXCEPT ![nexts'] = queue[1]]
      /\ waiter' = waiter /\ waiter = None /\ cancelled' = cancelled /\ ~cancelled
      /\ submitted' = submitted /\ submittedLive' = submittedLive
  BY DEF Inv, TypeOK, NextFromQueue, CallNext, Oldest, WaiterOrQueue
<1>2. /\ queue \in Seq(Values) /\ queue # << >>
      /\ queue' \in Seq(Values) /\ Len(queue') = Len(queue) - 1
      /\ \A i \in 1..Len(queue') : queue'[i] = queue[i + 1] /\ i + 1 \in 1..Len(queue)
      /\ 1 \in 1..Len(queue) /\ queue[1] \in Values
  BY DEF Inv, TypeOK, NextFromQueue
<1>3. TypeOK'
  BY <1>1, <1>2 DEF Inv, TypeOK
<1>4. OneAtATime'
  BY <1>1, <1>2 DEF Inv, TypeOK, OneAtATime, NextFromQueue, CallNext, Awaits, Values
<1>5. Submitted'
  <2>1. \A i \in 1..Len(queue') : queue[1] < queue[i + 1]
    BY <1>2 DEF Inv, InOrder
  <2> QED BY <1>1, <1>2, <2>1 DEF Inv, TypeOK, Submitted
<1>6. WaiterOrQueue' /\ DoneMeansCancelled'
  BY <1>1, <1>2 DEF Inv, TypeOK, WaiterOrQueue, DoneMeansCancelled, Values
<1>7. InOrder'
  <2>1. \A i, j \in 1..Len(queue') : i < j => queue'[i] < queue'[j]
    BY <1>2 DEF Inv, InOrder
  <2>2. \A p \in Promises : promise[p] < queue[1]
    BY <1>2 DEF Inv, Submitted
  <2>3. \A p, q \in Promises :
          p < q /\ promise'[p] \in Values /\ promise'[q] \in Values => promise'[p] < promise'[q]
    BY <1>1, <1>2, <2>2 DEF Inv, TypeOK, InOrder, OneAtATime, Values
  <2>4. \A i \in 1..Len(queue'), v \in Delivered' : v < queue'[i]
    BY <1>1, <1>5 DEF Submitted, Delivered
  <2> QED BY <2>1, <2>3, <2>4 DEF InOrder
<1>8. NoLostWakeup'
  BY <1>1, <1>2 DEF Inv, TypeOK, NoLostWakeup, Awaits, Values
<1>9. DoneIsFinal'
  BY <1>1, <1>2 DEF Inv, TypeOK, DoneMeansCancelled, DoneIsFinal, Values
<1> QED BY <1>3, <1>4, <1>5, <1>6, <1>7, <1>8, <1>9 DEF Inv

LEMMA NextWaitsInv ==
  ASSUME Inv, NextWaits
  PROVE  Inv'
BY BoundsAssumption DEF Inv, TypeOK, OneAtATime, Submitted, WaiterOrQueue, DoneMeansCancelled,
   InOrder, NoLostWakeup, DoneIsFinal, Delivered, NextWaits, CallNext, Promises, Values, None,
   Unsettled, Done, Awaits

LEMMA SubmitToWaiterInv ==
  ASSUME Inv, SubmitToWaiter
  PROVE  Inv'
<1> USE BoundsAssumption DEF Promises, None, Unsettled, Done
<1>1. /\ submitted' = submitted + 1 /\ submitted' \in Values
      /\ waiter' = waiter /\ waiter \in Promises /\ nexts' = nexts /\ cancelled' = cancelled
      /\ queue = << >> /\ queue' = << >>
      /\ submittedLive' \in 0..MaxValues
  BY DEF Inv, TypeOK, SubmitToWaiter, CallSubmit, WaiterOrQueue, Values
<1>2. CASE promise[waiter] # Unsettled
  <2>1. promise' = promise
    BY <1>2 DEF SubmitToWaiter, Resolve
  <2> QED
    BY <1>1, <2>1, <1>2 DEF Inv, TypeOK, OneAtATime, Submitted, WaiterOrQueue, DoneMeansCancelled,
       InOrder, NoLostWakeup, DoneIsFinal, Delivered, Awaits, Values
<1>3. CASE promise[waiter] = Unsettled
  <2>1. waiter = nexts /\ Awaits /\ ~cancelled
    BY <1>1, <1>3 DEF Inv, TypeOK, OneAtATime, NoLostWakeup, Awaits
  <2>2. promise' = [promise EXCEPT ![waiter] = submitted + 1]
    BY <1>1, <1>3 DEF SubmitToWaiter, Resolve
  <2>3. TypeOK' /\ OneAtATime' /\ Submitted' /\ WaiterOrQueue' /\ DoneMeansCancelled'
    BY <1>1, <2>1, <2>2 DEF Inv, TypeOK, OneAtATime, Submitted, WaiterOrQueue,
       DoneMeansCancelled, Values
  <2>4. InOrder'
    BY <1>1, <2>1, <2>2 DEF Inv, TypeOK, OneAtATime, Submitted, InOrder, Values
  <2>5. NoLostWakeup' /\ DoneIsFinal'
    BY <1>1, <2>1, <2>2 DEF Inv, TypeOK, DoneMeansCancelled, NoLostWakeup, DoneIsFinal, Awaits,
       Values
  <2> QED BY <2>3, <2>4, <2>5 DEF Inv
<1> QED BY <1>2, <1>3

LEMMA SubmitToQueueInv ==
  ASSUME Inv, SubmitToQueue
  PROVE  Inv'
<1> USE BoundsAssumption DEF Promises, None, Unsettled, Done
<1>1. /\ submitted' = submitted + 1 /\ submitted' \in Values
      /\ waiter' = waiter /\ waiter = None /\ nexts' = nexts /\ cancelled' = cancelled
      /\ promise' = promise /\ submittedLive' \in 0..MaxValues
  BY DEF Inv, TypeOK, SubmitToQueue, CallSubmit, Values
<1>2. /\ queue \in Seq(Values) /\ queue' = Append(queue, submitted')
      /\ queue' \in Seq(Values) /\ Len(queue') = Len(queue) + 1
      /\ \A i \in 1..Len(queue) : queue'[i] = queue[i]
      /\ queue'[Len(queue')] = submitted'
  BY <1>1 DEF Inv, TypeOK, SubmitToQueue, Enqueue
<1>3. TypeOK' /\ OneAtATime' /\ WaiterOrQueue' /\ DoneMeansCancelled' /\ DoneIsFinal'
  BY <1>1, <1>2 DEF Inv, TypeOK, OneAtATime, WaiterOrQueue, DoneMeansCancelled, DoneIsFinal,
     Values
<1>4. \A i \in 1..Len(queue') : i \in 1..Len(queue) \/ i = Len(queue')
  BY <1>2
<1>5. Submitted'
  <2>1. \A p \in Promises : promise[p] \in Int /\ promise'[p] < submitted'
    <3>1. submitted \in Int /\ promise \in [Promises -> Int]
      BY DEF Inv, TypeOK, Values
    <3>2. \A p \in Promises : promise[p] <= submitted
      BY DEF Inv, Submitted
    <3>3. submitted' = submitted + 1 /\ promise' = promise
      BY <1>1
    <3> QED BY <3>1, <3>2, <3>3
  <2>2. \A i \in 1..Len(queue) : queue[i] \in Int /\ queue[i] < submitted'
    <3>1. \A i \in 1..Len(queue) : queue[i] \in Values
      BY <1>2
    <3>2. \A i \in 1..Len(queue) : queue[i] <= submitted
      BY DEF Inv, Submitted
    <3>3. submitted \in Int /\ \A v \in Values : v \in Int
      BY DEF Inv, TypeOK, Values
    <3>4. submitted' = submitted + 1
      BY <1>1
    <3> QED BY <3>1, <3>2, <3>3, <3>4
  <2>3. \A i \in 1..Len(queue'), p \in Promises : promise'[p] < queue'[i]
    BY <1>1, <1>2, <1>4, <2>1 DEF Inv, Submitted
  <2>4. \A i \in 1..Len(queue') : queue'[i] <= submitted'
    BY <1>1, <1>2, <1>4, <2>2 DEF Values
  <2> QED BY <1>1, <2>1, <2>3, <2>4 DEF Values, Submitted
<1>6. InOrder'
  <2>1. \A i, j \in 1..Len(queue') : i < j => queue'[i] < queue'[j]
    BY <1>1, <1>2, <1>4 DEF Inv, TypeOK, Submitted, InOrder, Values
  <2>2. \A i \in 1..Len(queue'), v \in Delivered' : v < queue'[i]
    BY <1>1, <1>5 DEF Submitted, Delivered
  <2> QED BY <1>1, <2>1, <2>2 DEF Inv, InOrder
<1>7. NoLostWakeup'
  BY <1>1 DEF Inv, TypeOK, NoLostWakeup, Awaits
<1> QED BY <1>3, <1>5, <1>6, <1>7 DEF Inv

LEMMA StopInv ==
  ASSUME Inv, Stop
  PROVE  Inv'
<1> USE BoundsAssumption DEF Promises, None, Unsettled, Done
<1>1. /\ cancelled' = TRUE /\ waiter' \in {waiter, None}
      /\ queue' = queue /\ nexts' = nexts /\ submitted' = submitted
      /\ submittedLive' = submittedLive
      /\ promise' = IF Awaits THEN [promise EXCEPT ![nexts] = Done] ELSE promise
  <2>1. promise' = IF waiter # None /\ promise[waiter] = Unsettled
                     THEN [promise EXCEPT ![waiter] = Done] ELSE promise
    BY DEF Stop, ReturnOrCancel, Throw, TellDone, Resolve
  <2>2. waiter # None /\ promise[waiter] = Unsettled <=> Awaits
    BY DEF Inv, TypeOK, OneAtATime, NoLostWakeup, Awaits
  <2>3. Awaits => waiter = nexts
    BY DEF Inv, NoLostWakeup
  <2> QED BY <2>1, <2>2, <2>3 DEF Stop, ReturnOrCancel, Throw, TellDone
<1>2. TypeOK' /\ OneAtATime' /\ WaiterOrQueue' /\ DoneMeansCancelled'
  BY <1>1 DEF Inv, TypeOK, OneAtATime, WaiterOrQueue, DoneMeansCancelled, Awaits
<1>3. Submitted'
  BY <1>1 DEF Inv, TypeOK, Submitted, Awaits, Values
<1>4. InOrder'
  <2>1. \A p, q \in Promises :
          p < q /\ promise'[p] \in Values /\ promise'[q] \in Values => promise'[p] < promise'[q]
    BY <1>1 DEF Inv, TypeOK, InOrder, Awaits, Values
  <2>2. \A i \in 1..Len(queue'), v \in Delivered' : v < queue'[i]
    BY <1>3 DEF Submitted, Delivered
  <2> QED BY <1>1, <2>1, <2>2 DEF Inv, InOrder
<1>5. NoLostWakeup' /\ DoneIsFinal'
  BY <1>1 DEF Inv, TypeOK, OneAtATime, NoLostWakeup, DoneIsFinal, Awaits, Values
<1> QED BY <1>2, <1>3, <1>4, <1>5 DEF Inv

LEMMA NextInv == Inv /\ [Next]_vars => Inv'
<1> SUFFICES ASSUME Inv, [Next]_vars PROVE Inv'
  OBVIOUS
<1>1. CASE UNCHANGED vars
  BY <1>1 DEF vars, Inv, TypeOK, OneAtATime, Submitted, WaiterOrQueue, DoneMeansCancelled,
     InOrder, NoLostWakeup, DoneIsFinal, Delivered, Awaits
<1> QED
  BY <1>1, NextCancelledInv, NextFromQueueInv, NextWaitsInv, SubmitToWaiterInv,
     SubmitToQueueInv, StopInv DEF Next, Consume, Submit

(* The inductive invariant of the channel.                                 *)
THEOREM Invariance == Spec => []Inv
BY InitInv, NextInv, PTL DEF Spec

(* Values are delivered in the order they were submitted, once each.       *)
THEOREM DeliveryInOrder == Spec => []InOrder
<1>1. Inv => InOrder
  BY DEF Inv
<1> QED BY <1>1, Invariance, PTL

(* The consumer never awaits a promise that nobody is going to settle.     *)
THEOREM NobodySleepsForEver == Spec => []NoLostWakeup
<1>1. Inv => NoLostWakeup
  BY DEF Inv
<1> QED BY <1>1, Invariance, PTL

(* No value follows the end of the stream.                                 *)
THEOREM NothingAfterDone == Spec => []DoneIsFinal
<1>1. Inv => DoneIsFinal
  BY DEF Inv
<1> QED BY <1>1, Invariance, PTL

-----------------------------------------------------------------------------
(* With a prompt consumer nothing is lost.                                 *)

PromptInv ==
  /\ NothingIsLost
  /\ ~cancelled => submittedLive = submitted

\* A delivered value stays delivered.
LEMMA DeliveredStays ==
  ASSUME Inv, Next
  PROVE  \A p \in Promises : promise[p] \in Values => promise'[p] = promise[p]
<1> USE BoundsAssumption DEF Inv, TypeOK, OneAtATime, Promises, Values, None, Unsettled, Done
<1>1. CASE Consume
  BY <1>1 DEF Consume, NextCancelled, NextFromQueue, NextWaits, CallNext, Oldest
<1>2. CASE Submit
  BY <1>2 DEF Submit, SubmitToWaiter, SubmitToQueue, Resolve
<1>3. CASE Stop
  BY <1>3 DEF Stop, ReturnOrCancel, Throw, TellDone, Resolve
<1> QED BY <1>1, <1>2, <1>3 DEF Next

LEMMA PromptStep ==
  ASSUME Inv, Prompt, PromptInv, [Next]_vars
  PROVE  PromptInv'
<1> DEFINE Queued(v) == \E i \in 1..Len(queue') : queue'[i] = v
<1>1. ASSUME Next PROVE \A v \in Delivered : v \in Delivered'
  BY <1>1, DeliveredStays DEF Delivered
<1>2. CASE NextFromQueue
  <2>1. /\ nexts' \in Promises /\ promise'[nexts'] = queue[1] /\ queue[1] \in Values
        /\ Len(queue') = Len(queue) - 1 /\ Len(queue) \in Nat
        /\ \A i \in 1..Len(queue') : queue'[i] = queue[i + 1]
    BY <1>2, BoundsAssumption
       DEF Inv, TypeOK, NextFromQueue, CallNext, Oldest, Promises
  <2>2. \A i \in 1..Len(queue) : queue[i] \in Delivered' \/ Queued(queue[i])
    <3> TAKE i \in 1..Len(queue)
    <3>1. CASE i = 1
      BY <2>1, <3>1 DEF Delivered
    <3>2. CASE i # 1
      <4>1. i - 1 \in 1..Len(queue') /\ queue'[i - 1] = queue[i]
        BY <2>1, <3>2
      <4> QED BY <4>1
    <3> QED BY <3>1, <3>2
  <2>3. UNCHANGED <<cancelled, submitted, submittedLive>>
    BY <1>2 DEF NextFromQueue, CallNext
  <2> QED
    BY <1>1, <1>2, <2>2, <2>3 DEF PromptInv, NothingIsLost, Next, Consume
<1>3. CASE NextCancelled \/ NextWaits \/ Stop
  <2>1. /\ queue' = queue /\ submittedLive' = submittedLive /\ submitted' = submitted
        /\ ~cancelled' => ~cancelled
    BY <1>3 DEF NextCancelled, NextWaits, CallNext, Stop, ReturnOrCancel, Throw, TellDone
  <2> QED
    BY <1>1, <1>3, <2>1 DEF PromptInv, NothingIsLost, Next, Consume
<1>4. CASE Submit
  <2>1. \A v \in 1..submittedLive : v \in Delivered' \/ Queued(v)
    <3>1. CASE SubmitToWaiter
      BY <1>1, <1>4, <3>1 DEF PromptInv, NothingIsLost, Next, SubmitToWaiter
    <3>2. CASE SubmitToQueue
      <4>1. \A i \in 1..Len(queue) : i \in 1..Len(queue') /\ queue'[i] = queue[i]
        BY <3>2 DEF Inv, TypeOK, SubmitToQueue, CallSubmit, Enqueue
      <4> QED BY <1>1, <1>4, <4>1 DEF PromptInv, NothingIsLost, Next
    <3> QED BY <1>4, <3>1, <3>2 DEF Submit
  <2>2. CASE cancelled
    BY <1>4, <2>1, <2>2 DEF PromptInv, NothingIsLost, Submit, SubmitToWaiter, SubmitToQueue,
       CallSubmit
  <2>3. CASE ~cancelled
    <3> CallSubmit
      BY <1>4 DEF Submit, SubmitToWaiter, SubmitToQueue
    <3>a. submitted \in Nat /\ submittedLive = submitted
      BY <2>3 DEF Inv, TypeOK, PromptInv
    <3>1. /\ submittedLive' = submitted + 1 /\ submitted' = submitted + 1
          /\ submittedLive = submitted /\ submitted' \in Values /\ submitted \in Nat
          /\ cancelled' = cancelled
      BY <2>3, <3>a, BoundsAssumption DEF CallSubmit, Values
    <3>2. CASE SubmitToWaiter
      <4>1. Awaits /\ waiter \in Promises /\ waiter = nexts
        BY <2>3, <3>2 DEF Inv, TypeOK, NoLostWakeup, SubmitToWaiter, CallSubmit
      <4>2. promise' = [promise EXCEPT ![waiter] = submitted']
        BY <3>2, <4>1 DEF SubmitToWaiter, Resolve, Awaits
      <4>3. promise'[waiter] = submitted'
        BY <4>1, <4>2 DEF Inv, TypeOK
      <4>4. submitted' \in Delivered'
        BY <3>1, <4>1, <4>3 DEF Delivered
      <4> QED BY <2>1, <3>1, <4>4 DEF PromptInv, NothingIsLost
    <3>3. CASE SubmitToQueue
      <4>1. /\ Len(queue') \in 1..Len(queue')
            /\ queue'[Len(queue')] = submitted'
        BY <3>3 DEF Inv, TypeOK, SubmitToQueue, CallSubmit, Enqueue
      <4> QED BY <2>1, <3>1, <4>1 DEF PromptInv, NothingIsLost
    <3> QED BY <1>4, <3>2, <3>3 DEF Submit
  <2> QED BY <2>2, <2>3
<1>5. CASE UNCHANGED vars
  BY <1>5 DEF vars, PromptInv, NothingIsLost, Delivered
<1> QED BY <1>2, <1>3, <1>4, <1>5 DEF Next, Consume

(* A consumer that asks for the next value before it is submitted loses    *)
(* none; submit() does lose values of one that does not.                   *)
THEOREM PromptConsumerLosesNothing ==
  ASSUME Prompt
  PROVE  Spec => []NothingIsLost
<1>1. Init => PromptInv
  BY DEF Init, PromptInv, NothingIsLost
<1>2. Inv /\ PromptInv /\ [Next]_vars => PromptInv'
  BY PromptStep, Prompt
<1>3. PromptInv => NothingIsLost
  BY DEF PromptInv
<1> QED BY <1>1, <1>2, <1>3, Invariance, PTL DEF Spec

-----------------------------------------------------------------------------
(* The channel is a part of DataSpec, so that all of this holds of it.     *)

(* Among the parts of the library the channel does what it does alone      *)
(* (channel-iterator.ts).                                                  *)
THEOREM ChannelAmongTheParts == DataSpec => Spec
<1>1. DataInit => Init
  BY DEF DataInit
<1>2. [DataNext]_dataVars => [Next]_vars
  BY DEF DataNext, dataVars
<1> QED BY <1>1, <1>2, PTL DEF DataSpec, Spec

(* Every message is delivered once, in the order it was sent, by whatever  *)
(* part of the library a behaviour is about (channel-iterator.ts).         *)
THEOREM InOrderAmongTheParts == DataSpec => []InOrder
  BY ChannelAmongTheParts, DeliveryInOrder

-----------------------------------------------------------------------------
(* The errors of the server.                                               *)

\* What was sent is what the server has to say, and what was made of it tells
\* what it means.
ErrorInv ==
  /\ error \in {<<e>> : e \in Errors!Error} \cup {<<e, c>> : e, c \in Errors!Error}
  /\ \/ raw = << >>
     \/ form # "old" /\ raw = Errors!Sent(error, form)
     \/ form = "old" /\ \E code \in Errors!Codes : raw = <<[code |-> code]>>
  /\ Errors!TellsWhatWasMeant

LEMMA DetailParts ==
  /\ \A k, d : /\ Errors!Detail(k, d).kind = k /\ Errors!Detail(k, d).details = d
               /\ Errors!Detail(k, d) \notin {Errors!Nothing, Errors!Content}
               /\ Errors!Plain(k) = Errors!Detail(k, Errors!Nothing)
               /\ \A l, f : Errors!Detail(k, d) = Errors!Detail(l, f) => k = l /\ d = f
  /\ Errors!Nothing # Errors!Content
  /\ Errors!Nothing.kind = "nothing" /\ Errors!Content.kind = "content"
<1>1. ASSUME NEW k, NEW d
      PROVE  /\ Errors!Detail(k, d).kind = k /\ Errors!Detail(k, d).details = d
             /\ DOMAIN Errors!Detail(k, d) = {"kind", "details"}
             /\ Errors!Plain(k) = Errors!Detail(k, Errors!Nothing)
  BY DEF Errors!Detail, Errors!Plain
<1>2. /\ DOMAIN Errors!Nothing = {"kind"} /\ DOMAIN Errors!Content = {"kind"}
      /\ Errors!Nothing.kind = "nothing" /\ Errors!Content.kind = "content"
  BY DEF Errors!Nothing, Errors!Content
<1>3. {"kind", "details"} # {"kind"}
  OBVIOUS
<1> QED BY <1>1, <1>2, <1>3

\* The details of an error are those of its kind; none repeats it and has
\* details of its own.
LEMMA DetailsOfErrors ==
  ASSUME NEW e \in Errors!Error
  PROVE  /\ e.kind \in Errors!Kinds /\ e.details \in Errors!DetailsOf(e.kind)
         /\ e = [kind |-> e.kind, details |-> e.details]
         /\ \/ e.details = Errors!Nothing
            \/ \E d : e.details = Errors!Plain(d) /\ d \notin {"Auth", "nothing"}
            \/ \E d : /\ e.details = Errors!Detail(d, Errors!Content)
                      /\ d \notin {e.kind, "Auth", "nothing"}
            \/ /\ e.kind = "NotAllowed"
               /\ \E a \in Errors!AuthDetails : e.details = Errors!Detail("Auth", a)
<1>1. e.kind \in Errors!Kinds /\ e.details \in Errors!DetailsOf(e.kind)
      /\ e = [kind |-> e.kind, details |-> e.details]
  BY DEF Errors!Error
<1>2. \A d \in Errors!Plains[e.kind] : d \notin {"Auth", "nothing"}
  BY <1>1 DEF Errors!Kinds, Errors!Plains
<1>3. \A d \in Errors!Named[e.kind] : d \notin {e.kind, "Auth", "nothing"}
  BY <1>1 DEF Errors!Kinds, Errors!Plains, Errors!Named
<1> QED BY <1>1, <1>2, <1>3 DEF Errors!DetailsOf

\* What is read of an error without details may be the mark of its kind.
ReadAs(e) == {e.details} \cup IF e.details = Errors!Nothing THEN {Errors!Plain(e.kind)} ELSE {}

\* Details are unwrapped when they were wrapped, and only then.
LEMMA UnwrapsWhatWasWrapped ==
  ASSUME NEW e \in Errors!Error
  PROVE  /\ Errors!Unwrap(e.kind, e.details) = e.details
         /\ Errors!Unwrap(e.kind, Errors!Wrapped(e)) \in ReadAs(e)
<1>1. Errors!Unwrap(e.kind, e.details) = e.details
  <2>1. e.kind # "Auth"
    BY DetailsOfErrors DEF Errors!Kinds, Errors!Plains
  <2> QED BY <2>1, DetailsOfErrors, DetailParts DEF Errors!Unwrap
<1>2. Errors!Unwrap(e.kind, Errors!Wrapped(e)) \in ReadAs(e)
  BY DetailParts DEF Errors!Unwrap, Errors!Wrapped, ReadAs
<1> QED BY <1>1, <1>2

\* No getter asks for details named as its kind.
LEMMA GetterShape ==
  ASSUME NEW g \in Errors!Getters
  PROVE  /\ g[1] \in Errors!Kinds \ {"Connection"}
         /\ \/ Len(g) = 2 /\ g[2] \notin {"Auth", "nothing", g[1]}
            \/ g \in {<<"NotAllowed", "Auth", "TokenExpired">>, <<"NotAllowed", "Auth", "InvalidAuth">>}
  BY DEF Errors!Getters, Errors!Kinds, Errors!Plains

\* An error that was parsed tells what the error means.
LEMMA ParsedTells ==
  ASSUME NEW e \in Errors!Error, NEW details \in ReadAs(e), NEW g \in Errors!Getters
  PROVE  /\ Errors!Parsed(e.kind, details).kind = e.kind
         /\ Errors!Tells(Errors!Parsed(e.kind, details), g) <=> Errors!Means(e, g)
<1> DEFINE p == Errors!Parsed(e.kind, details)
<1>1. p.kind = e.kind /\ p.details = details /\ p.class = Errors!ClassOf(e.kind)
  BY DEF Errors!Parsed
<1>2. p.class = g[1] <=> e.kind = g[1]
  BY <1>1, DetailsOfErrors, GetterShape DEF Errors!ClassOf, Errors!Kinds, Errors!Plains
<1>3. CASE Len(g) = 2 /\ g[2] \notin {"Auth", "nothing", g[1]}
  <2>1. e.kind = g[1] =>
          ((details # Errors!Nothing /\ details.kind = g[2])
             <=> e.details \in {Errors!Plain(g[2]), Errors!Detail(g[2], Errors!Content)})
    BY <1>3, DetailsOfErrors, DetailParts DEF ReadAs
  <2> QED BY <1>1, <1>2, <1>3, <2>1 DEF Errors!Tells, Errors!Means
<1>4. CASE g \in {<<"NotAllowed", "Auth", "TokenExpired">>, <<"NotAllowed", "Auth", "InvalidAuth">>}
  <2>1. Len(g) = 3 /\ g[1] = "NotAllowed" /\ g[2] = "Auth" /\ g[3] \in {"TokenExpired", "InvalidAuth"}
    BY <1>4
  <2>2. e.kind = "NotAllowed" =>
          ((/\ details # Errors!Nothing /\ details.kind = "Auth"
            /\ details.details # Errors!Nothing /\ details.details.kind = g[3])
             <=> e.details = Errors!Detail("Auth", Errors!Plain(g[3])))
    BY <2>1, DetailsOfErrors, DetailParts DEF Errors!AuthDetails, ReadAs
  <2> QED BY <1>1, <1>2, <2>1, <2>2 DEF Errors!Tells, Errors!Means
<1> QED BY <1>1, <1>3, <1>4, GetterShape

LEMMA Joins ==
  ASSUME NEW x, NEW y
  PROVE  <<x>> \o <<y>> = <<x, y>>
<1> DEFINE S == {x, y}  s == <<x>> \o <<y>>  t == <<x, y>>
<1>1. <<x>> \in Seq(S) /\ Len(<<x>>) = 1 /\ <<y>> \in Seq(S) /\ Len(<<y>>) = 1
  OBVIOUS
<1>2. s \in Seq(S) /\ Len(s) = 2 /\ s[1] = x /\ s[2] = y
  BY <1>1, ConcatProperties
<1>3. t \in Seq(S) /\ Len(t) = 2 /\ t[1] = x /\ t[2] = y
  OBVIOUS
<1>4. Len(s) = Len(t) /\ \A i \in 1..Len(s) : s[i] = t[i]
  BY <1>2, <1>3
<1> HIDE DEF s, t
<1>5. s = t
  BY <1>2, <1>3, <1>4, SeqEqual
<1> QED BY <1>5 DEF s, t

LEMMA JoinsNone ==
  ASSUME NEW x
  PROVE  <<x>> \o << >> = <<x>>
<1>1. <<x>> \in Seq({x})
  OBVIOUS
<1> QED BY <1>1, ConcatEmptySeq

\* One error is read, with its cause or without.
LEMMA CausesParsed ==
  ASSUME NEW es
  PROVE  /\ Len(es) = 1 => Errors!ParseCauses(es) = << >>
         /\ Len(es) = 2 => Errors!ParseCauses(es) = <<Errors!Parsed(es[2].kind, es[2].details)>>
<1>1. ASSUME Len(es) = 1 PROVE Errors!ParseCauses(es) = << >>
  <2>1. 1..(Len(es) - 1) = {}
    BY <1>1
  <2>2. Errors!ParseCauses(es) = [i \in {} |-> Errors!Parsed(es[i + 1].kind, es[i + 1].details)]
    BY <2>1 DEF Errors!ParseCauses
  <2> QED BY <2>2
<1>2. ASSUME Len(es) = 2
      PROVE  Errors!ParseCauses(es) = <<Errors!Parsed(es[2].kind, es[2].details)>>
  <2>1. 1..(Len(es) - 1) = {1}
    BY <1>2
  <2>2. Errors!ParseCauses(es) = [i \in {1} |-> Errors!Parsed(es[2].kind, es[2].details)]
    BY <2>1 DEF Errors!ParseCauses
  <2> QED BY <2>2
<1> QED BY <1>1, <1>2

LEMMA ParsedWell ==
  ASSUME ErrorInv, Errors!Parse
  PROVE  Errors!TellsWhatWasMeant'
<1>0. UNCHANGED <<error, form>> /\ raw # << >>
  BY DEF Errors!Parse
<1>1. CASE form = "old"
  <2>1. PICK kind1 : back' = <<Errors!Parsed(kind1, Errors!Nothing)>>
    BY <1>1 DEF Errors!Parse
  <2>2. \A g \in Errors!Getters : ~Errors!Tells(back'[1], g)
    BY <2>1 DEF Errors!Parsed, Errors!Tells
  <2> QED BY <1>0, <1>1, <2>2 DEF Errors!TellsWhatWasMeant
<1>2. CASE form # "old"
  <2>1. raw = Errors!Sent(error, form)
    BY <1>0, <1>2 DEF ErrorInv
  <2>2. back' = IF form = "rpc" THEN Errors!ParseRpcError(raw) ELSE Errors!ParseQueryError(raw)
    BY <1>2 DEF Errors!Parse
  <2>3. ASSUME NEW e \in Errors!Error, error = <<e>>
        PROVE  \E d \in ReadAs(e) : back' = <<Errors!Parsed(e.kind, d)>>
    <3>1. raw[1].kind = e.kind /\ Len(raw) = 1
          /\ raw[1].details = IF form = "wrapped result" THEN Errors!Wrapped(e) ELSE e.details
      <4>1. CASE form = "wrapped result"
        <5>0. e = [kind |-> e.kind, details |-> e.details]
          BY DetailsOfErrors
        <5>1. raw = [<<e>> EXCEPT ![1].details = Errors!Wrapped(e)]
          BY <2>1, <2>3, <4>1 DEF Errors!Sent
        <5>2. raw[1].kind = e.kind /\ raw[1].details = Errors!Wrapped(e) /\ Len(raw) = 1
          BY <5>0, <5>1
        <5> QED BY <4>1, <5>2
      <4>2. CASE form # "wrapped result"
        BY <2>1, <2>3, <4>2 DEF Errors!Sent
      <4> QED BY <4>1, <4>2
    <3>2. Errors!ParseCauses(raw) = << >>
      BY <3>1, CausesParsed
    <3>3. back' = <<Errors!Parsed(e.kind, IF form = "rpc" THEN e.details
                                          ELSE Errors!Unwrap(e.kind, raw[1].details))>> \o << >>
      BY <2>2, <3>1, <3>2 DEF Errors!ParseRpcError, Errors!ParseQueryError
    <3> QED BY <3>1, <3>3, JoinsNone, UnwrapsWhatWasWrapped DEF ReadAs
  <2>4. ASSUME NEW e \in Errors!Error, NEW c \in Errors!Error, error = <<e, c>>
        PROVE  \E d \in ReadAs(e) :
                 back' = <<Errors!Parsed(e.kind, d), Errors!Parsed(c.kind, c.details)>>
    <3>1. raw[1].kind = e.kind /\ raw[2] = c /\ Len(raw) = 2
          /\ raw[1].details = IF form = "wrapped result" THEN Errors!Wrapped(e) ELSE e.details
      <4>1. CASE form = "wrapped result"
        <5>0. e = [kind |-> e.kind, details |-> e.details]
          BY DetailsOfErrors
        <5>1. raw = [<<e, c>> EXCEPT ![1].details = Errors!Wrapped(e)]
          BY <2>1, <2>4, <4>1 DEF Errors!Sent
        <5>2. /\ raw[1].kind = e.kind /\ raw[1].details = Errors!Wrapped(e)
              /\ raw[2] = c /\ Len(raw) = 2
          BY <5>0, <5>1
        <5> QED BY <4>1, <5>2
      <4>2. CASE form # "wrapped result"
        BY <2>1, <2>4, <4>2 DEF Errors!Sent
      <4> QED BY <4>1, <4>2
    <3>2. Errors!ParseCauses(raw) = <<Errors!Parsed(c.kind, c.details)>>
      BY <3>1, CausesParsed
    <3>3. back' = <<Errors!Parsed(e.kind, IF form = "rpc" THEN e.details
                                          ELSE Errors!Unwrap(e.kind, raw[1].details))>>
                    \o <<Errors!Parsed(c.kind, c.details)>>
      BY <2>2, <3>1, <3>2 DEF Errors!ParseRpcError, Errors!ParseQueryError
    <3> DEFINE d == IF form = "rpc" THEN e.details ELSE Errors!Unwrap(e.kind, raw[1].details)
    <3>4. d \in ReadAs(e)
      BY <3>1, UnwrapsWhatWasWrapped DEF ReadAs
    <3>5. back' = <<Errors!Parsed(e.kind, d), Errors!Parsed(c.kind, c.details)>>
      BY <3>3, Joins
    <3> QED BY <3>4, <3>5
  <2>5. CASE \E e \in Errors!Error : error = <<e>>
    <3>1. PICK e \in Errors!Error : error = <<e>>
      BY <2>5
    <3>2. PICK d \in ReadAs(e) : back' = <<Errors!Parsed(e.kind, d)>>
      BY <2>3, <3>1
    <3>3. DOMAIN back' = {1} /\ Len(back') = Len(error)
          /\ back'[1] = Errors!Parsed(e.kind, d) /\ error[1] = e
      BY <3>1, <3>2
    <3>4. back'[1].kind = e.kind /\ \A g \in Errors!Getters : Errors!Tells(back'[1], g) <=> Errors!Means(e, g)
      <4>1. /\ Errors!Parsed(e.kind, d).kind = e.kind
            /\ \A g \in Errors!Getters :
                 Errors!Tells(Errors!Parsed(e.kind, d), g) <=> Errors!Means(e, g)
        BY ParsedTells DEF Errors!Parsed
      <4> QED BY <3>3, <4>1
    <3> QED BY <1>0, <1>2, <3>3, <3>4 DEF Errors!TellsWhatWasMeant
  <2>6. CASE \E e, c \in Errors!Error : error = <<e, c>>
    <3>1. PICK e \in Errors!Error, c \in Errors!Error : error = <<e, c>>
      BY <2>6
    <3>2. PICK d \in ReadAs(e) :
            back' = <<Errors!Parsed(e.kind, d), Errors!Parsed(c.kind, c.details)>>
      BY <2>4, <3>1
    <3>3. DOMAIN back' = {1, 2} /\ Len(back') = Len(error)
          /\ back'[1] = Errors!Parsed(e.kind, d) /\ error[1] = e
          /\ back'[2] = Errors!Parsed(c.kind, c.details) /\ error[2] = c
      BY <3>1, <3>2
    <3>4. back'[1].kind = e.kind /\ \A g \in Errors!Getters : Errors!Tells(back'[1], g) <=> Errors!Means(e, g)
      <4>1. /\ Errors!Parsed(e.kind, d).kind = e.kind
            /\ \A g \in Errors!Getters :
                 Errors!Tells(Errors!Parsed(e.kind, d), g) <=> Errors!Means(e, g)
        BY ParsedTells DEF Errors!Parsed
      <4> QED BY <3>3, <4>1
    <3>5. back'[2].kind = c.kind /\ \A g \in Errors!Getters : Errors!Tells(back'[2], g) <=> Errors!Means(c, g)
      <4>1. c.details \in ReadAs(c)
        BY DEF ReadAs
      <4>2. /\ Errors!Parsed(c.kind, c.details).kind = c.kind
            /\ \A g \in Errors!Getters :
                 Errors!Tells(Errors!Parsed(c.kind, c.details), g) <=> Errors!Means(c, g)
        BY <4>1, ParsedTells DEF Errors!Parsed
      <4> QED BY <3>3, <4>2
    <3> QED BY <1>0, <1>2, <3>3, <3>4, <3>5 DEF Errors!TellsWhatWasMeant
  <2> QED BY <2>5, <2>6 DEF ErrorInv
<1> QED BY <1>1, <1>2

LEMMA ErrorStep == ErrorInv /\ Errors!Next => ErrorInv'
<1> SUFFICES ASSUME ErrorInv, Errors!Next PROVE ErrorInv'
  OBVIOUS
<1>1. CASE Errors!Send
  BY <1>1 DEF ErrorInv, Errors!Send, Errors!TellsWhatWasMeant
<1>2. CASE Errors!Parse
  BY <1>2, ParsedWell DEF ErrorInv, Errors!Parse
<1> QED BY <1>1, <1>2 DEF Errors!Next

LEMMA ErrorInit == Errors!Init => ErrorInv
  BY DEF Errors!Init, ErrorInv, Errors!TellsWhatWasMeant

\* However an error is sent, the application is told what the server meant by
\* it and by each of its causes.
THEOREM ErrorsTold == DataSpec => []ErrorsAreTold
<1> DEFINE Held == part = "errors" => ErrorInv
<1>1. DataInit => Held
  BY ErrorInit DEF DataInit
<1>2. Held /\ [DataNext]_dataVars => Held'
  <2> SUFFICES ASSUME Held, [DataNext]_dataVars, part' = "errors" PROVE ErrorInv'
    OBVIOUS
  <2>1. CASE UNCHANGED dataVars
    BY <2>1 DEF dataVars, errorVars, ErrorInv, Errors!TellsWhatWasMeant
  <2>2. CASE DataNext
    BY <2>2, ErrorStep DEF DataNext
  <2> QED BY <2>1, <2>2
<1>3. Held => ErrorsAreTold
  BY DEF ErrorsAreTold, ErrorInv
<1> QED BY <1>1, <1>2, <1>3, PTL DEF DataSpec

-----------------------------------------------------------------------------
(* The builders and the bound queries.                                     *)

\* What keys, values and clauses are called.
Words ==
  {"", "*", "ONLY", "TIMEOUT", "own", "what", "where", "start", "limit", "fetch", "version",
   "selection", "mutation", "output", "timeout", "relation", "ignore", "table", "data", "args",
   "header", "query", "json", "retry", "unique", "record", "one", "many", "name", "path",
   "auth", "fields", "value", "diff", "content", "merge", "replace", "patch", "condition",
   "blank", "none", "0", "1", "2", "true", "before"}

Pairs == Words \X Words
Maps  == UNION {[D -> Words] : D \in SUBSET Words}

BindNames == {"bind", "own"} \X Int
Texts == [says : Words, names : SUBSET BindNames]
Queries == [text   : Seq(Texts),
            params : UNION {[D -> Words] : D \in SUBSET BindNames},
            meant  : Seq(Pairs)]

\* A clause names the parameter that has its value, or says nothing beyond itself.
ClauseKept(text, meant, params) ==
  /\ text.says = meant[1]
  /\ \/ text.names = {} /\ meant[2] = ""
     \/ \E n \in DOMAIN params : text.names = {n} /\ params[n] = meant[2]

ParametersKept(q) ==
  /\ Len(q.text) = Len(q.meant)
  /\ \A i \in 1..Len(q.meant) : ClauseKept(q.text[i], q.meant[i], q.params)

KeptQueries == {q \in Queries : ParametersKept(q)}

BoundInv == fresh \in Nat /\ bound \in Seq(KeptQueries)

\* What was said last of each clause.
LastOf(said) ==
  {said[i] : i \in {j \in DOMAIN said :
     \A k \in DOMAIN said : said[k][1] = said[j][1] => k <= j}}

SaidOf(r) ==
  LastOf(r.calls)
    \cup {<<s, r.root[s]>> : s \in {t \in DOMAIN r.root : \A c \in LastOf(r.calls) : c[1] # t}}

Options(o) == {<<s, o[s]>> : s \in DOMAIN o}

\* What the roots of a builder say.
RootSays ==
  CASE kind = "delete" -> {<<"what", "record">>, <<"what", "table">>, <<"output", "before">>}
    [] kind = "insert" -> {<<"what", "data">>, <<"table", "table">>}
    [] kind = "relate" -> {<<"what", "one">>, <<"what", "many">>, <<"data", "data">>}
    [] kind = "run"    -> {<<"what", "name">>, <<"version", "1">>, <<"args", "1">>}
    [] kind = "api"    -> {<<"what", "path">>, <<"header", "1">>, <<"header", "2">>}
    [] kind = "auth"   -> {<<"what", "auth">>}
    [] OTHER           -> {<<"what", "record">>, <<"what", "table">>}

Sayable == (Builders!Setters \ {<<"where", "none">>}) \cup RootSays

\* The options of a builder are what was said last to it and to those it was
\* made of, and its root.
Faithful(r) ==
  /\ r \in [options : Maps, calls : Seq(Pairs), root : Maps]
  /\ Options(r.options) \subseteq Sayable
  /\ Options(r.options) = SaidOf(r) \ {<<"where", "none">>}

FaithfulBuilders == {r \in [options : Maps, calls : Seq(Pairs), root : Maps] : Faithful(r)}

BuilderInv ==
  /\ kind \in BuilderKinds
  /\ headers \in {<< >>, [header |-> "1"], [header |-> "2"]}
  /\ builders \in Seq(FaithfulBuilders)

SentInv ==
  /\ sent.by \in 0..Len(builders)
  /\ sent.by # 0 => sent.says = SaidOf(builders[sent.by]) \ Builders!Unheard

BuildInv == BoundInv /\ BuilderInv /\ SentInv

-----------------------------------------------------------------------------
(* Bound queries.                                                          *)

\* A clause that is kept is read as it was meant.
LEMMA ClauseIsRead ==
  ASSUME NEW text, NEW meant \in Pairs, NEW params, ClauseKept(text, meant, params)
  PROVE  <<text.says, IF text.names = {} THEN "" ELSE params[CHOOSE n \in text.names : TRUE]>>
           = meant
<1>1. meant = <<meant[1], meant[2]>>
  BY DEF Pairs
<1>2. \A n : (CHOOSE m \in {n} : TRUE) = n
  OBVIOUS
<1> QED BY <1>1, <1>2 DEF ClauseKept

\* Parameters that are kept are read as they were meant.
LEMMA KeptIsRead ==
  ASSUME NEW q \in Queries, ParametersKept(q)
  PROVE  Builders!Read(q) = q.meant
<1>0. q.text \in Seq(Texts) /\ q.meant \in Seq(Pairs)
  BY DEF Queries
<1>1. Len(q.text) = Len(q.meant) /\ DOMAIN q.text = 1..Len(q.meant)
  <2>1. Len(q.text) = Len(q.meant)
    BY DEF ParametersKept
  <2> QED BY <1>0, <2>1
<1>2. ASSUME NEW i \in 1..Len(q.meant)
      PROVE  <<q.text[i].says,
               IF q.text[i].names = {} THEN ""
               ELSE q.params[CHOOSE n \in q.text[i].names : TRUE]>> = q.meant[i]
  <2>1. q.meant[i] \in Pairs
    BY <1>0
  <2>2. ClauseKept(q.text[i], q.meant[i], q.params)
    BY DEF ParametersKept
  <2> QED BY <2>1, <2>2, ClauseIsRead
<1>3. Builders!Read(q) = [i \in 1..Len(q.meant) |-> q.meant[i]]
  BY <1>1, <1>2 DEF Builders!Read, Builders!None
<1> QED BY <1>0, <1>3

\* The clauses of a statement, each with a name for its value.
LEMMA ClausesAreTexts ==
  ASSUME NEW s \in Seq(Pairs), NEW names, \A i \in 1..Len(s) : names[i] \in SUBSET BindNames
  PROVE  LET t == [i \in DOMAIN s |-> [says |-> s[i][1], names |-> names[i]]]
         IN t \in Seq(Texts) /\ Len(t) = Len(s)
<1> DEFINE t == [i \in DOMAIN s |-> [says |-> s[i][1], names |-> names[i]]]
<1>1. DOMAIN s = 1..Len(s) /\ Len(s) \in Nat
  OBVIOUS
<1>2. ASSUME NEW i \in 1..Len(s)
      PROVE  t[i] \in Texts
  <2>1. s[i] \in Pairs
    BY <1>1
  <2>2. s[i][1] \in Words
    BY <2>1 DEF Pairs
  <2>3. t[i] = [says |-> s[i][1], names |-> names[i]]
    BY <1>1
  <2> QED BY <2>2, <2>3 DEF Texts
<1>3. DOMAIN t = 1..Len(s)
  BY <1>1
<1>4. t = [i \in 1..Len(s) |-> t[i]]
  BY <1>3
<1> HIDE DEF t
<1>5. t \in Seq(Texts) /\ Len(t) = Len(s)
  BY <1>1, <1>2, <1>3, <1>4
<1> QED BY <1>5 DEF t

\* A statement as a bound query: its parameters are those of its values.
LEMMA BoundIsKept ==
  ASSUME NEW s \in Seq(Pairs), fresh \in Nat
  PROVE  Builders!Bound(s) \in Queries /\ ParametersKept(Builders!Bound(s))
<1> DEFINE given == {i \in DOMAIN s : s[i][2] # ""}
           names == [i \in DOMAIN s |-> IF i \in given THEN {<<"bind", fresh + i>>} ELSE {}]
           text  == [i \in DOMAIN s |-> [says |-> s[i][1], names |-> names[i]]]
           taken == {<<"bind", fresh + i>> : i \in given}
           params == [n \in taken |-> s[n[2] - fresh][2]]
<1>1. DOMAIN s = 1..Len(s) /\ Len(s) \in Nat /\ \A i \in 1..Len(s) : s[i] \in Pairs
  OBVIOUS
<1>2. ASSUME NEW i \in 1..Len(s)
      PROVE  /\ s[i][1] \in Words /\ s[i][2] \in Words
             /\ <<"bind", fresh + i>> \in BindNames /\ <<"bind", fresh + i>>[2] - fresh = i
  <2>1. s[i] \in Pairs
    BY <1>1
  <2>2. s[i][1] \in Words /\ s[i][2] \in Words
    BY <2>1 DEF Pairs
  <2>3. fresh + i \in Int /\ (fresh + i) - fresh = i
    OBVIOUS
  <2>4. <<"bind", fresh + i>> \in BindNames
    BY <2>3 DEF BindNames
  <2>5. <<"bind", fresh + i>>[2] = fresh + i
    OBVIOUS
  <2> QED BY <2>2, <2>3, <2>4, <2>5
<1>3. Builders!Bound(s) = [text |-> text, params |-> params, meant |-> s]
  <2>1. \A i \in DOMAIN s : names[i] = IF i \in given THEN {<<"bind", fresh + i>>} ELSE {}
    OBVIOUS
  <2>2. text = [i \in DOMAIN s |-> [says |-> s[i][1],
                  names |-> IF i \in given THEN {<<"bind", fresh + i>>} ELSE {}]]
    BY <2>1
  <2> HIDE DEF text
  <2> QED BY <2>2 DEF Builders!Bound, Builders!None
<1>4. \A i \in 1..Len(s) : names[i] \in SUBSET BindNames
  BY <1>1, <1>2
<1>5. text \in Seq(Texts) /\ Len(text) = Len(s)
  <2> HIDE DEF names
  <2> QED BY <1>4, ClausesAreTexts
<1>6. taken \in SUBSET BindNames
  BY <1>1, <1>2
<1>7. ASSUME NEW i \in given
      PROVE  <<"bind", fresh + i>> \in taken /\ params[<<"bind", fresh + i>>] = s[i][2]
  <2>1. i \in 1..Len(s)
    BY <1>1
  <2>2. <<"bind", fresh + i>> \in taken
    OBVIOUS
  <2>3. <<"bind", fresh + i>>[2] - fresh = i
    BY <1>2, <2>1
  <2> HIDE DEF taken
  <2> QED BY <2>2, <2>3
<1>8. params \in [taken -> Words]
  <2>1. ASSUME NEW n \in taken PROVE params[n] \in Words
    <3>1. PICK i \in given : n = <<"bind", fresh + i>>
      OBVIOUS
    <3>2. i \in 1..Len(s)
      BY <1>1
    <3> QED BY <1>2, <1>7, <3>1, <3>2
  <2> HIDE DEF taken
  <2>2. params = [n \in taken |-> params[n]]
    OBVIOUS
  <2> HIDE DEF params
  <2> QED BY <2>1, <2>2
<1>9. ASSUME NEW i \in 1..Len(s) PROVE ClauseKept(text[i], s[i], params)
  <2>1. text[i].says = s[i][1] /\ text[i].names = names[i]
    BY <1>1
  <2>2. CASE i \in given
    <3>1. names[i] = {<<"bind", fresh + i>>}
      BY <1>1, <2>2
    <3>2. <<"bind", fresh + i>> \in DOMAIN params /\ params[<<"bind", fresh + i>>] = s[i][2]
      BY <1>7, <2>2
    <3> HIDE DEF params, names, text
    <3> QED BY <2>1, <3>1, <3>2 DEF ClauseKept
  <2>3. CASE i \notin given
    <3>1. names[i] = {} /\ s[i][2] = ""
      BY <1>1, <2>3
    <3> HIDE DEF params, names, text
    <3> QED BY <2>1, <3>1 DEF ClauseKept
  <2> QED BY <2>2, <2>3
<1> HIDE DEF text, params, taken, names, given
<1>10. Builders!Bound(s) \in Queries
  BY <1>3, <1>5, <1>6, <1>8 DEF Queries
<1>11. ParametersKept(Builders!Bound(s))
  BY <1>3, <1>5, <1>9 DEF ParametersKept
<1> QED BY <1>10, <1>11

LEMMA WrittenIsKept ==
  ASSUME NEW v \in {"1", "2"}
  PROVE  Builders!Written(v) \in Queries /\ ParametersKept(Builders!Written(v))
<1> DEFINE q == Builders!Written(v)
           own == <<"own", 0>>
           said == [says |-> "own", names |-> {own}]
           meant == <<"own", v>>
           params == [n \in {own} |-> v]
<1>1. own \in BindNames /\ v \in Words /\ "own" \in Words
  <2>1. own \in BindNames
    BY DEF BindNames
  <2>2. v \in Words /\ "own" \in Words
    BY DEF Words
  <2> QED BY <2>1, <2>2
<1>2. /\ q.text = <<said>> /\ q.params = params /\ q.meant = <<meant>>
      /\ q = [text |-> q.text, params |-> q.params, meant |-> q.meant]
  BY DEF Builders!Written
<1>3. said \in Texts /\ meant \in Pairs
  BY <1>1 DEF Texts, Pairs
<1>4. params \in [{own} -> Words] /\ {own} \in SUBSET BindNames
  BY <1>1
<1>5. ClauseKept(said, meant, params)
  BY DEF ClauseKept
<1> HIDE DEF q, own, said, meant, params
<1>6. /\ <<said>> \in Seq(Texts) /\ Len(<<said>>) = 1 /\ <<said>>[1] = said
      /\ <<meant>> \in Seq(Pairs) /\ Len(<<meant>>) = 1 /\ <<meant>>[1] = meant
  BY <1>3
<1>7. q \in Queries
  BY <1>2, <1>4, <1>6 DEF Queries
<1>8. ParametersKept(q)
  BY <1>2, <1>5, <1>6 DEF ParametersKept
<1> QED BY <1>7, <1>8 DEF q

\* More parameters, and those there were with their values, change no clause.
LEMMA KeptAmongMore ==
  ASSUME NEW text, NEW meant, NEW p, NEW q, ClauseKept(text, meant, p),
         \A n \in DOMAIN p : n \in DOMAIN q /\ q[n] = p[n]
  PROVE  ClauseKept(text, meant, q)
  BY DEF ClauseKept

LEMMA KeptOneAfterTheOther ==
  ASSUME NEW S, NEW T, NEW a \in Seq(S), NEW b \in Seq(S), NEW c \in Seq(T), NEW d \in Seq(T),
         Len(a) = Len(c), Len(b) = Len(d), NEW P,
         \A i \in 1..Len(c) : ClauseKept(a[i], c[i], P),
         \A i \in 1..Len(d) : ClauseKept(b[i], d[i], P)
  PROVE  /\ Len(a \o b) = Len(c \o d)
         /\ \A i \in 1..Len(c \o d) : ClauseKept((a \o b)[i], (c \o d)[i], P)
<1>1. /\ Len(a \o b) = Len(a) + Len(b)
      /\ \A i \in 1..(Len(a) + Len(b)) : (a \o b)[i] = IF i <= Len(a) THEN a[i] ELSE b[i - Len(a)]
  BY ConcatProperties
<1>2. /\ Len(c \o d) = Len(c) + Len(d)
      /\ \A i \in 1..(Len(c) + Len(d)) : (c \o d)[i] = IF i <= Len(c) THEN c[i] ELSE d[i - Len(c)]
  BY ConcatProperties
<1>3. Len(c) \in Nat /\ Len(d) \in Nat
  OBVIOUS
<1>4. ASSUME NEW i \in 1..(Len(c) + Len(d))
      PROVE  ClauseKept((a \o b)[i], (c \o d)[i], P)
  <2>1. CASE i <= Len(c)
    <3>1. i \in 1..Len(c) /\ (a \o b)[i] = a[i] /\ (c \o d)[i] = c[i]
      BY <1>1, <1>2, <1>3, <2>1
    <3> QED BY <3>1
  <2>2. CASE i > Len(c)
    <3>1. i - Len(c) \in 1..Len(d) /\ (a \o b)[i] = b[i - Len(c)] /\ (c \o d)[i] = d[i - Len(c)]
      BY <1>1, <1>2, <1>3, <2>2
    <3> QED BY <3>1
  <2> QED BY <1>3, <2>1, <2>2
<1> QED BY <1>1, <1>2, <1>4

LEMMA KeptOfParts ==
  ASSUME NEW m, NEW text, NEW params, NEW meant,
         m = [text |-> text, params |-> params, meant |-> meant],
         Len(text) = Len(meant),
         \A i \in 1..Len(meant) : ClauseKept(text[i], meant[i], params)
  PROVE  ParametersKept(m)
  BY DEF ParametersKept

\* Two queries one after the other, when no parameter of one has the name of
\* another.
LEMMA JoinedIsKept ==
  ASSUME NEW p \in Queries, NEW q \in Queries, ParametersKept(p), ParametersKept(q),
         Builders!Disjoint(p, q)
  PROVE  Builders!Merge(p, q) \in Queries /\ ParametersKept(Builders!Merge(p, q))
<1> DEFINE params == [n \in DOMAIN p.params \cup DOMAIN q.params |->
                        IF n \in DOMAIN q.params THEN q.params[n] ELSE p.params[n]]
<1>1. Builders!Merge(p, q) = [text |-> p.text \o q.text, params |-> params,
                              meant |-> p.meant \o q.meant]
  BY DEF Builders!Merge
<1>2. /\ p.text \in Seq(Texts) /\ q.text \in Seq(Texts)
      /\ p.meant \in Seq(Pairs) /\ q.meant \in Seq(Pairs)
  BY DEF Queries
<1>3. params \in UNION {[D -> Words] : D \in SUBSET BindNames}
  <2>1. PICK D \in SUBSET BindNames : p.params \in [D -> Words]
    BY DEF Queries
  <2>2. PICK E \in SUBSET BindNames : q.params \in [E -> Words]
    BY DEF Queries
  <2>3. params \in [D \cup E -> Words] /\ D \cup E \in SUBSET BindNames
    BY <2>1, <2>2
  <2> HIDE DEF params
  <2> QED BY <2>3
<1>4. /\ \A n \in DOMAIN p.params : n \in DOMAIN params /\ params[n] = p.params[n]
      /\ \A n \in DOMAIN q.params : n \in DOMAIN params /\ params[n] = q.params[n]
  BY DEF Builders!Disjoint
<1> HIDE DEF params
<1>5. p.text \o q.text \in Seq(Texts) /\ p.meant \o q.meant \in Seq(Pairs)
  BY <1>2
<1>6. Builders!Merge(p, q) \in Queries
  BY <1>1, <1>3, <1>5 DEF Queries
<1>7. Len(p.text) = Len(p.meant) /\ Len(q.text) = Len(q.meant)
  BY DEF ParametersKept
<1>8. \A i \in 1..Len(p.meant) : ClauseKept(p.text[i], p.meant[i], params)
  BY <1>4, KeptAmongMore DEF ParametersKept
<1>9. \A i \in 1..Len(q.meant) : ClauseKept(q.text[i], q.meant[i], params)
  BY <1>4, KeptAmongMore DEF ParametersKept
<1>10. /\ Len(p.text \o q.text) = Len(p.meant \o q.meant)
       /\ \A i \in 1..Len(p.meant \o q.meant) :
            ClauseKept((p.text \o q.text)[i], (p.meant \o q.meant)[i], params)
  BY <1>2, <1>7, <1>8, <1>9, KeptOneAfterTheOther
<1>11. ParametersKept(Builders!Merge(p, q))
  BY <1>1, <1>10, KeptOfParts
<1> QED BY <1>6, <1>11

\* append() changes nothing of what either query said.
LEMMA MergeIsKept ==
  ASSUME NEW p \in Queries, NEW q \in Queries, ParametersKept(p), ParametersKept(q)
  PROVE  Builders!Merge(p, q) \in Queries /\ ParametersKept(Builders!Merge(p, q))
<1>1. CASE ~Builders!Disjoint(p, q)
  BY <1>1 DEF Builders!Merge
<1>2. CASE Builders!Disjoint(p, q)
  BY <1>2, JoinedIsKept
<1> QED BY <1>1, <1>2

-----------------------------------------------------------------------------
(* What a statement says.                                                  *)

\* An option, if it is set; and what of it the code hears.
At(o, s) == IF s \in DOMAIN o THEN {<<s, o[s]>>} ELSE {}
Heard(o, s) == At(o, s) \ Builders!Unheard

\* A sequence that says these pairs.
SaysJust(s, pairs) == s \in Seq(Pairs) /\ Builders!Clauses(s) = pairs

LEMMA SaysNothing == SaysJust(<< >>, {})
  BY DEF SaysJust, Builders!Clauses

LEMMA SaysOne ==
  ASSUME NEW s \in Words, NEW v \in Words
  PROVE  SaysJust(<< <<s, v>> >>, IF s \in Builders!Keywords THEN {} ELSE {<<s, v>>})
<1> DEFINE p == <<s, v>>
<1>1. p \in Pairs /\ p[1] = s
  BY DEF Pairs
<1> HIDE DEF p
<1>2. <<p>> \in Seq(Pairs) /\ DOMAIN <<p>> = {1} /\ <<p>>[1] = p
  BY <1>1
<1>3. Builders!Clauses(<<p>>) = IF s \in Builders!Keywords THEN {} ELSE {p}
  BY <1>1, <1>2 DEF Builders!Clauses
<1> QED BY <1>2, <1>3 DEF SaysJust, p

LEMMA SaysBoth ==
  ASSUME NEW a, NEW b, NEW A, NEW B, SaysJust(a, A), SaysJust(b, B)
  PROVE  SaysJust(a \o b, A \cup B)
<1>1. a \in Seq(Pairs) /\ b \in Seq(Pairs)
  BY DEF SaysJust
<1>2. /\ a \o b \in Seq(Pairs) /\ Len(a \o b) = Len(a) + Len(b)
      /\ \A i \in 1..(Len(a) + Len(b)) : (a \o b)[i] = IF i <= Len(a) THEN a[i] ELSE b[i - Len(a)]
  BY <1>1, ConcatProperties
<1>3. /\ DOMAIN a = 1..Len(a) /\ DOMAIN b = 1..Len(b) /\ DOMAIN (a \o b) = 1..(Len(a) + Len(b))
      /\ Len(a) \in Nat /\ Len(b) \in Nat
  BY <1>1, <1>2
<1> DEFINE K == Builders!Keywords
<1>4. ASSUME NEW p \in Builders!Clauses(a \o b)
      PROVE  p \in Builders!Clauses(a) \cup Builders!Clauses(b)
  <2>1. PICK i \in DOMAIN (a \o b) : (a \o b)[i] = p /\ p[1] \notin K
    BY DEF Builders!Clauses
  <2>2. CASE i <= Len(a)
    <3>1. i \in DOMAIN a /\ a[i] = p
      BY <1>2, <1>3, <2>1, <2>2
    <3> QED BY <2>1, <3>1 DEF Builders!Clauses
  <2>3. CASE i > Len(a)
    <3>1. i - Len(a) \in DOMAIN b /\ b[i - Len(a)] = p
      BY <1>2, <1>3, <2>1, <2>3
    <3> QED BY <2>1, <3>1 DEF Builders!Clauses
  <2> QED BY <1>3, <2>1, <2>2, <2>3
<1>5. ASSUME NEW p \in Builders!Clauses(a) PROVE p \in Builders!Clauses(a \o b)
  <2>1. PICK i \in DOMAIN a : a[i] = p /\ p[1] \notin K
    BY DEF Builders!Clauses
  <2>2. i \in DOMAIN (a \o b) /\ (a \o b)[i] = p
    BY <1>2, <1>3, <2>1
  <2> QED BY <2>1, <2>2 DEF Builders!Clauses
<1>6. ASSUME NEW p \in Builders!Clauses(b) PROVE p \in Builders!Clauses(a \o b)
  <2>1. PICK i \in DOMAIN b : b[i] = p /\ p[1] \notin K
    BY DEF Builders!Clauses
  <2>2. i + Len(a) \in DOMAIN (a \o b) /\ (a \o b)[i + Len(a)] = p
    BY <1>2, <1>3, <2>1
  <2> QED BY <2>1, <2>2 DEF Builders!Clauses
<1>7. Builders!Clauses(a \o b) = Builders!Clauses(a) \cup Builders!Clauses(b)
  BY <1>4, <1>5, <1>6
<1> QED BY <1>2, <1>7 DEF SaysJust

LEMMA ClauseSays ==
  ASSUME NEW o \in Maps, NEW s \in Words \ Builders!Keywords
  PROVE  SaysJust(Builders!Clause(o, s), At(o, s))
<1>1. CASE s \in DOMAIN o
  <2>1. o[s] \in Words
    BY <1>1 DEF Maps
  <2> QED BY <1>1, <2>1, SaysOne DEF Builders!Clause, Builders!Has, At
<1>2. CASE s \notin DOMAIN o
  BY <1>2, SaysNothing DEF Builders!Clause, Builders!Has, At
<1> QED BY <1>1, <1>2

\* A start and a limit of 0 count as none.
LEMMA NonZeroSays ==
  ASSUME NEW o \in Maps, NEW s \in {"start", "limit"}
  PROVE  SaysJust(Builders!NonZero(o, s), Heard(o, s))
<1>1. s \in Words \ Builders!Keywords
  BY DEF Words, Builders!Keywords
<1>2. CASE s \in DOMAIN o /\ o[s] # "0"
  <2>1. o[s] \in Words
    BY <1>2 DEF Maps
  <2>2. Heard(o, s) = {<<s, o[s]>>}
    BY <1>2 DEF Heard, At, Builders!Unheard
  <2> QED BY <1>1, <1>2, <2>1, <2>2, SaysOne DEF Builders!NonZero, Builders!Has
<1>3. CASE ~(s \in DOMAIN o /\ o[s] # "0")
  <2>1. Heard(o, s) = {}
    BY <1>3 DEF Heard, At, Builders!Unheard
  <2> QED BY <1>3, <2>1, SaysNothing DEF Builders!NonZero, Builders!Has
<1> QED BY <1>2, <1>3

LEMMA TimeoutSays ==
  ASSUME NEW o \in Maps
  PROVE  SaysJust(Builders!Timeout(o), At(o, "timeout"))
<1>1. {"TIMEOUT", "timeout", ""} \subseteq Words /\ "timeout" \notin Builders!Keywords
      /\ "TIMEOUT" \in Builders!Keywords
  BY DEF Words, Builders!Keywords
<1>2. CASE "timeout" \in DOMAIN o
  <2> DEFINE p == <<"TIMEOUT", "">>
             q == <<"timeout", o.timeout>>
  <2>1. o.timeout \in Words
    BY <1>2 DEF Maps
  <2>2. SaysJust(<<p>>, {})
    BY <1>1, SaysOne
  <2>3. SaysJust(<<q>>, {q})
    BY <1>1, <2>1, SaysOne
  <2>4. Builders!Timeout(o) = <<p, q>> /\ At(o, "timeout") = {q}
    BY <1>2 DEF Builders!Timeout, Builders!Has, Builders!None, At
  <2> HIDE DEF p, q
  <2>5. SaysJust(<<p>> \o <<q>>, {} \cup {q})
    BY <2>2, <2>3, SaysBoth
  <2>6. <<p>> \o <<q>> = <<p, q>>
    BY Joins
  <2> QED BY <2>4, <2>5, <2>6
<1>3. CASE "timeout" \notin DOMAIN o
  BY <1>3, SaysNothing DEF Builders!Timeout, Builders!Has, At
<1> QED BY <1>2, <1>3

LEMMA SelectionSays ==
  ASSUME NEW o \in Maps
  PROVE  SaysJust(Builders!Selection(o), At(o, "selection"))
<1>1. {"*", "selection", ""} \subseteq Words /\ "selection" \notin Builders!Keywords
      /\ "*" \in Builders!Keywords
  BY DEF Words, Builders!Keywords
<1>2. CASE "selection" \in DOMAIN o
  <2>1. o.selection \in Words
    BY <1>2 DEF Maps
  <2> QED BY <1>1, <1>2, <2>1, SaysOne DEF Builders!Selection, Builders!Has, At
<1>3. CASE "selection" \notin DOMAIN o
  BY <1>1, <1>3, SaysOne DEF Builders!Selection, Builders!Has, Builders!None, At
<1> QED BY <1>2, <1>3

-----------------------------------------------------------------------------
(* What a builder was told is what its statement says: every option that   *)
(* can be set has its clause, but for those the code does not hear.        *)

\* The options of a builder by their names.
LEMMA Gathered ==
  ASSUME NEW o, NEW D, DOMAIN o \subseteq D
  PROVE  Options(o) \ Builders!Unheard = UNION {Heard(o, s) : s \in D}
  BY DEF Options, Heard, At

LEMMA RequestOptions ==
  ASSUME NEW o
  PROVE  Builders!Options(o) = At(o, "json") \cup At(o, "retry")
  BY DEF Builders!Options, At

\* What each kind of builder can be told of: its clauses and its options.
Slots ==
  CASE kind = "select" -> {"selection", "what", "where", "start", "limit", "fetch", "timeout", "version", "json"}
    [] kind = "create" -> {"what", "mutation", "output", "timeout", "version", "json", "retry"}
    [] kind = "update" -> {"what", "mutation", "where", "output", "timeout", "json", "retry"}
    [] kind = "upsert" -> {"what", "mutation", "where", "output", "timeout", "json", "retry"}
    [] kind = "insert" -> {"relation", "ignore", "table", "what", "output", "timeout", "version", "json", "retry"}
    [] kind = "relate" -> {"what", "data", "output", "timeout", "version", "json", "retry", "unique"}
    [] kind = "delete" -> {"what", "output", "timeout", "version", "json", "retry"}
    [] kind = "run" -> {"what", "version", "args", "json", "retry"}
    [] kind = "api" -> {"what", "header", "query", "json"}
    [] kind = "auth" -> {"what", "json"}
    [] kind = "live" -> {"selection", "what", "where", "fetch"}

\* What a setter is given.
Told == {"true", "fields", "value", "diff", "0", "1", "2", "condition", "blank", "none",
         "content", "merge", "replace", "patch"}

LEMMA PairsOfWords == \A s \in Words, v \in Words : <<s, v>> \in Pairs
  BY DEF Pairs

LEMMA SayableNames ==
  ASSUME kind \in BuilderKinds
  PROVE  /\ \A p \in Sayable : p[1] \in Slots /\ p \in Pairs
         /\ Slots \subseteq Words
<1>1. CASE kind = "select"
  <2> DEFINE names == {"selection", "what", "where", "start", "limit", "fetch", "timeout", "version", "json"}
  <2>1. Slots = names
    BY <1>1 DEF Slots
  <2>2. \A p \in Builders!Setters : p[1] \in names /\ p \in Pairs
    <3>1. Builders!Setters = Builders!SelectSetters
      BY <1>1 DEF Builders!Setters
    <3>2. \A p \in Builders!Setters : p[1] \in names
      BY <3>1 DEF Builders!SelectSetters, Builders!Where, Builders!Timed, Builders!Versioned
    <3>3. \A p \in Builders!Setters : p[2] \in Told
      BY <3>1 DEF Told, Builders!SelectSetters, Builders!Where, Builders!Timed, Builders!Versioned
    <3>4. \A p \in Builders!Setters : p = <<p[1], p[2]>>
      BY <3>1 DEF Builders!SelectSetters, Builders!Where, Builders!Timed, Builders!Versioned
    <3>5. names \subseteq Words /\ Told \subseteq Words
      BY DEF Words, Told
    <3> QED BY <3>2, <3>3, <3>4, <3>5, PairsOfWords
  <2>3. \A p \in RootSays : p[1] \in names /\ p \in Pairs
    <3>1. \A p \in RootSays : p[1] \in names
      BY <1>1 DEF RootSays
    <3>2. \A p \in RootSays : p \in Pairs
      BY <1>1, PairsOfWords, ZenonT(40) DEF Words, RootSays
    <3> QED BY <3>1, <3>2
  <2>4. Slots \subseteq Words
    BY <2>1 DEF Words
  <2> QED BY <2>1, <2>2, <2>3, <2>4 DEF Sayable
<1>2. CASE kind = "create"
  <2> DEFINE names == {"what", "mutation", "output", "timeout", "version", "json", "retry"}
  <2>1. Slots = names
    BY <1>2 DEF Slots
  <2>2. \A p \in Builders!Setters : p[1] \in names /\ p \in Pairs
    <3>1. Builders!Setters = Builders!CreateSetters
      BY <1>2 DEF Builders!Setters
    <3>2. \A p \in Builders!Setters : p[1] \in names
      BY <3>1 DEF Builders!CreateSetters, Builders!Common, Builders!Output, Builders!Timed,
         Builders!Versioned
    <3>3. \A p \in Builders!Setters : p[2] \in Told
      BY <3>1 DEF Told, Builders!CreateSetters, Builders!Common, Builders!Output, Builders!Timed,
         Builders!Versioned
    <3>4. \A p \in Builders!Setters : p = <<p[1], p[2]>>
      BY <3>1 DEF Builders!CreateSetters, Builders!Common, Builders!Output, Builders!Timed,
         Builders!Versioned
    <3>5. names \subseteq Words /\ Told \subseteq Words
      BY DEF Words, Told
    <3> QED BY <3>2, <3>3, <3>4, <3>5, PairsOfWords
  <2>3. \A p \in RootSays : p[1] \in names /\ p \in Pairs
    <3>1. \A p \in RootSays : p[1] \in names
      BY <1>2 DEF RootSays
    <3>2. \A p \in RootSays : p \in Pairs
      BY <1>2, PairsOfWords, ZenonT(40) DEF Words, RootSays
    <3> QED BY <3>1, <3>2
  <2>4. Slots \subseteq Words
    BY <2>1 DEF Words
  <2> QED BY <2>1, <2>2, <2>3, <2>4 DEF Sayable
<1>3. CASE kind = "update"
  <2> DEFINE names == {"what", "mutation", "where", "output", "timeout", "json", "retry"}
  <2>1. Slots = names
    BY <1>3 DEF Slots
  <2>2. \A p \in Builders!Setters : p[1] \in names /\ p \in Pairs
    <3>1. Builders!Setters = Builders!UpdateSetters
      BY <1>3 DEF Builders!Setters
    <3>2. \A p \in Builders!Setters : p[1] \in names
      BY <3>1 DEF Builders!UpdateSetters, Builders!Common, Builders!Where, Builders!Output,
         Builders!Timed
    <3>3. \A p \in Builders!Setters : p[2] \in Told
      BY <3>1 DEF Told, Builders!UpdateSetters, Builders!Common, Builders!Where, Builders!Output,
         Builders!Timed
    <3>4. \A p \in Builders!Setters : p = <<p[1], p[2]>>
      BY <3>1 DEF Builders!UpdateSetters, Builders!Common, Builders!Where, Builders!Output,
         Builders!Timed
    <3>5. names \subseteq Words /\ Told \subseteq Words
      BY DEF Words, Told
    <3> QED BY <3>2, <3>3, <3>4, <3>5, PairsOfWords
  <2>3. \A p \in RootSays : p[1] \in names /\ p \in Pairs
    <3>1. \A p \in RootSays : p[1] \in names
      BY <1>3 DEF RootSays
    <3>2. \A p \in RootSays : p \in Pairs
      BY <1>3, PairsOfWords, ZenonT(40) DEF Words, RootSays
    <3> QED BY <3>1, <3>2
  <2>4. Slots \subseteq Words
    BY <2>1 DEF Words
  <2> QED BY <2>1, <2>2, <2>3, <2>4 DEF Sayable
<1>4. CASE kind = "upsert"
  <2> DEFINE names == {"what", "mutation", "where", "output", "timeout", "json", "retry"}
  <2>1. Slots = names
    BY <1>4 DEF Slots
  <2>2. \A p \in Builders!Setters : p[1] \in names /\ p \in Pairs
    <3>1. Builders!Setters = Builders!UpsertSetters
      BY <1>4 DEF Builders!Setters
    <3>2. \A p \in Builders!Setters : p[1] \in names
      BY <3>1 DEF Builders!UpsertSetters, Builders!UpdateSetters, Builders!Common,
         Builders!Where, Builders!Output, Builders!Timed
    <3>3. \A p \in Builders!Setters : p[2] \in Told
      BY <3>1 DEF Told, Builders!UpsertSetters, Builders!UpdateSetters, Builders!Common,
         Builders!Where, Builders!Output, Builders!Timed
    <3>4. \A p \in Builders!Setters : p = <<p[1], p[2]>>
      BY <3>1 DEF Builders!UpsertSetters, Builders!UpdateSetters, Builders!Common,
         Builders!Where, Builders!Output, Builders!Timed
    <3>5. names \subseteq Words /\ Told \subseteq Words
      BY DEF Words, Told
    <3> QED BY <3>2, <3>3, <3>4, <3>5, PairsOfWords
  <2>3. \A p \in RootSays : p[1] \in names /\ p \in Pairs
    <3>1. \A p \in RootSays : p[1] \in names
      BY <1>4 DEF RootSays
    <3>2. \A p \in RootSays : p \in Pairs
      BY <1>4, PairsOfWords, ZenonT(40) DEF Words, RootSays
    <3> QED BY <3>1, <3>2
  <2>4. Slots \subseteq Words
    BY <2>1 DEF Words
  <2> QED BY <2>1, <2>2, <2>3, <2>4 DEF Sayable
<1>5. CASE kind = "insert"
  <2> DEFINE names == {"relation", "ignore", "table", "what", "output", "timeout", "version", "json", "retry"}
  <2>1. Slots = names
    BY <1>5 DEF Slots
  <2>2. \A p \in Builders!Setters : p[1] \in names /\ p \in Pairs
    <3>1. Builders!Setters = Builders!InsertSetters
      BY <1>5 DEF Builders!Setters
    <3>2. \A p \in Builders!Setters : p[1] \in names
      BY <3>1 DEF Builders!InsertSetters, Builders!Common, Builders!Output, Builders!Timed,
         Builders!Versioned
    <3>3. \A p \in Builders!Setters : p[2] \in Told
      BY <3>1 DEF Told, Builders!InsertSetters, Builders!Common, Builders!Output, Builders!Timed,
         Builders!Versioned
    <3>4. \A p \in Builders!Setters : p = <<p[1], p[2]>>
      BY <3>1 DEF Builders!InsertSetters, Builders!Common, Builders!Output, Builders!Timed,
         Builders!Versioned
    <3>5. names \subseteq Words /\ Told \subseteq Words
      BY DEF Words, Told
    <3> QED BY <3>2, <3>3, <3>4, <3>5, PairsOfWords
  <2>3. \A p \in RootSays : p[1] \in names /\ p \in Pairs
    <3>1. \A p \in RootSays : p[1] \in names
      BY <1>5 DEF RootSays
    <3>2. \A p \in RootSays : p \in Pairs
      BY <1>5, PairsOfWords, ZenonT(40) DEF Words, RootSays
    <3> QED BY <3>1, <3>2
  <2>4. Slots \subseteq Words
    BY <2>1 DEF Words
  <2> QED BY <2>1, <2>2, <2>3, <2>4 DEF Sayable
<1>6. CASE kind = "relate"
  <2> DEFINE names == {"what", "data", "output", "timeout", "version", "json", "retry", "unique"}
  <2>1. Slots = names
    BY <1>6 DEF Slots
  <2>2. \A p \in Builders!Setters : p[1] \in names /\ p \in Pairs
    <3>1. Builders!Setters = Builders!RelateSetters
      BY <1>6 DEF Builders!Setters
    <3>2. \A p \in Builders!Setters : p[1] \in names
      BY <3>1 DEF Builders!RelateSetters, Builders!Common, Builders!Output, Builders!Timed,
         Builders!Versioned
    <3>3. \A p \in Builders!Setters : p[2] \in Told
      BY <3>1 DEF Told, Builders!RelateSetters, Builders!Common, Builders!Output, Builders!Timed,
         Builders!Versioned
    <3>4. \A p \in Builders!Setters : p = <<p[1], p[2]>>
      BY <3>1 DEF Builders!RelateSetters, Builders!Common, Builders!Output, Builders!Timed,
         Builders!Versioned
    <3>5. names \subseteq Words /\ Told \subseteq Words
      BY DEF Words, Told
    <3> QED BY <3>2, <3>3, <3>4, <3>5, PairsOfWords
  <2>3. \A p \in RootSays : p[1] \in names /\ p \in Pairs
    <3>1. \A p \in RootSays : p[1] \in names
      BY <1>6 DEF RootSays
    <3>2. \A p \in RootSays : p \in Pairs
      BY <1>6, PairsOfWords, ZenonT(40) DEF Words, RootSays
    <3> QED BY <3>1, <3>2
  <2>4. Slots \subseteq Words
    BY <2>1 DEF Words
  <2> QED BY <2>1, <2>2, <2>3, <2>4 DEF Sayable
<1>7. CASE kind = "delete"
  <2> DEFINE names == {"what", "output", "timeout", "version", "json", "retry"}
  <2>1. Slots = names
    BY <1>7 DEF Slots
  <2>2. \A p \in Builders!Setters : p[1] \in names /\ p \in Pairs
    <3>1. Builders!Setters = Builders!DeleteSetters
      BY <1>7 DEF Builders!Setters
    <3>2. \A p \in Builders!Setters : p[1] \in names
      BY <3>1 DEF Builders!DeleteSetters, Builders!Common, Builders!Output, Builders!Timed,
         Builders!Versioned
    <3>3. \A p \in Builders!Setters : p[2] \in Told
      BY <3>1 DEF Told, Builders!DeleteSetters, Builders!Common, Builders!Output, Builders!Timed,
         Builders!Versioned
    <3>4. \A p \in Builders!Setters : p = <<p[1], p[2]>>
      BY <3>1 DEF Builders!DeleteSetters, Builders!Common, Builders!Output, Builders!Timed,
         Builders!Versioned
    <3>5. names \subseteq Words /\ Told \subseteq Words
      BY DEF Words, Told
    <3> QED BY <3>2, <3>3, <3>4, <3>5, PairsOfWords
  <2>3. \A p \in RootSays : p[1] \in names /\ p \in Pairs
    <3>1. \A p \in RootSays : p[1] \in names
      BY <1>7 DEF RootSays
    <3>2. \A p \in RootSays : p \in Pairs
      BY <1>7, PairsOfWords, ZenonT(40) DEF Words, RootSays
    <3> QED BY <3>1, <3>2
  <2>4. Slots \subseteq Words
    BY <2>1 DEF Words
  <2> QED BY <2>1, <2>2, <2>3, <2>4 DEF Sayable
<1>8. CASE kind = "run"
  <2> DEFINE names == {"what", "version", "args", "json", "retry"}
  <2>1. Slots = names
    BY <1>8 DEF Slots
  <2>2. \A p \in Builders!Setters : p[1] \in names /\ p \in Pairs
    <3>1. Builders!Setters = Builders!RunSetters
      BY <1>8 DEF Builders!Setters
    <3>2. \A p \in Builders!Setters : p[1] \in names
      BY <3>1 DEF Builders!RunSetters, Builders!Common
    <3>3. \A p \in Builders!Setters : p[2] \in Told
      BY <3>1 DEF Told, Builders!RunSetters, Builders!Common
    <3>4. \A p \in Builders!Setters : p = <<p[1], p[2]>>
      BY <3>1 DEF Builders!RunSetters, Builders!Common
    <3>5. names \subseteq Words /\ Told \subseteq Words
      BY DEF Words, Told
    <3> QED BY <3>2, <3>3, <3>4, <3>5, PairsOfWords
  <2>3. \A p \in RootSays : p[1] \in names /\ p \in Pairs
    <3>1. \A p \in RootSays : p[1] \in names
      BY <1>8 DEF RootSays
    <3>2. \A p \in RootSays : p \in Pairs
      BY <1>8, PairsOfWords, ZenonT(40) DEF Words, RootSays
    <3> QED BY <3>1, <3>2
  <2>4. Slots \subseteq Words
    BY <2>1 DEF Words
  <2> QED BY <2>1, <2>2, <2>3, <2>4 DEF Sayable
<1>9. CASE kind = "api"
  <2> DEFINE names == {"what", "header", "query", "json"}
  <2>1. Slots = names
    BY <1>9 DEF Slots
  <2>2. \A p \in Builders!Setters : p[1] \in names /\ p \in Pairs
    <3>1. Builders!Setters = Builders!ApiSetters
      BY <1>9 DEF Builders!Setters
    <3>2. \A p \in Builders!Setters : p[1] \in names
      BY <3>1 DEF Builders!ApiSetters
    <3>3. \A p \in Builders!Setters : p[2] \in Told
      BY <3>1 DEF Told, Builders!ApiSetters
    <3>4. \A p \in Builders!Setters : p = <<p[1], p[2]>>
      BY <3>1 DEF Builders!ApiSetters
    <3>5. names \subseteq Words /\ Told \subseteq Words
      BY DEF Words, Told
    <3> QED BY <3>2, <3>3, <3>4, <3>5, PairsOfWords
  <2>3. \A p \in RootSays : p[1] \in names /\ p \in Pairs
    <3>1. \A p \in RootSays : p[1] \in names
      BY <1>9 DEF RootSays
    <3>2. \A p \in RootSays : p \in Pairs
      BY <1>9, PairsOfWords, ZenonT(40) DEF Words, RootSays
    <3> QED BY <3>1, <3>2
  <2>4. Slots \subseteq Words
    BY <2>1 DEF Words
  <2> QED BY <2>1, <2>2, <2>3, <2>4 DEF Sayable
<1>10. CASE kind = "auth"
  <2> DEFINE names == {"what", "json"}
  <2>1. Slots = names
    BY <1>10 DEF Slots
  <2>2. \A p \in Builders!Setters : p[1] \in names /\ p \in Pairs
    <3>1. Builders!Setters = Builders!AuthSetters
      BY <1>10 DEF Builders!Setters
    <3>2. \A p \in Builders!Setters : p[1] \in names
      BY <3>1 DEF Builders!AuthSetters
    <3>3. \A p \in Builders!Setters : p[2] \in Told
      BY <3>1 DEF Told, Builders!AuthSetters
    <3>4. \A p \in Builders!Setters : p = <<p[1], p[2]>>
      BY <3>1 DEF Builders!AuthSetters
    <3>5. names \subseteq Words /\ Told \subseteq Words
      BY DEF Words, Told
    <3> QED BY <3>2, <3>3, <3>4, <3>5, PairsOfWords
  <2>3. \A p \in RootSays : p[1] \in names /\ p \in Pairs
    <3>1. \A p \in RootSays : p[1] \in names
      BY <1>10 DEF RootSays
    <3>2. \A p \in RootSays : p \in Pairs
      BY ZenonT(40), <1>10, PairsOfWords DEF Words, RootSays
    <3> QED BY <3>1, <3>2
  <2>4. Slots \subseteq Words
    BY <2>1 DEF Words
  <2> QED BY <2>1, <2>2, <2>3, <2>4 DEF Sayable
<1>11. CASE kind = "live"
  <2> DEFINE names == {"selection", "what", "where", "fetch"}
  <2>1. Slots = names
    BY <1>11 DEF Slots
  <2>2. \A p \in Builders!Setters : p[1] \in names /\ p \in Pairs
    <3>1. Builders!Setters = Builders!LiveSetters
      BY <1>11 DEF Builders!Setters
    <3>2. \A p \in Builders!Setters : p[1] \in names
      BY <3>1 DEF Builders!LiveSetters, Builders!Where
    <3>3. \A p \in Builders!Setters : p[2] \in Told
      BY <3>1 DEF Told, Builders!LiveSetters, Builders!Where
    <3>4. \A p \in Builders!Setters : p = <<p[1], p[2]>>
      BY <3>1 DEF Builders!LiveSetters, Builders!Where
    <3>5. names \subseteq Words /\ Told \subseteq Words
      BY DEF Words, Told
    <3> QED BY <3>2, <3>3, <3>4, <3>5, PairsOfWords
  <2>3. \A p \in RootSays : p[1] \in names /\ p \in Pairs
    <3>1. \A p \in RootSays : p[1] \in names
      BY <1>11 DEF RootSays
    <3>2. \A p \in RootSays : p \in Pairs
      BY <1>11, PairsOfWords, ZenonT(40) DEF Words, RootSays
    <3> QED BY <3>1, <3>2
  <2>4. Slots \subseteq Words
    BY <2>1 DEF Words
  <2> QED BY <2>1, <2>2, <2>3, <2>4 DEF Sayable
<1> QED BY <1>1, <1>2, <1>3, <1>4, <1>5, <1>6, <1>7, <1>8, <1>9, <1>10, <1>11, DataAssumption

LEMMA NamesOfOptions ==
  ASSUME kind \in BuilderKinds, NEW o, Options(o) \subseteq Sayable
  PROVE  DOMAIN o \subseteq Slots
<1>1. ASSUME NEW s \in DOMAIN o PROVE s \in Slots
  <2>1. <<s, o[s]>> \in Sayable
    BY DEF Options
  <2>2. <<s, o[s]>>[1] = s
    OBVIOUS
  <2> QED BY <2>1, <2>2, SayableNames
<1> QED BY <1>1

\* unique() sets one thing.
LEMMA Unique ==
  ASSUME kind \in BuilderKinds, NEW v, <<"unique", v>> \in Sayable
  PROVE  v = "true"
<1>1. CASE kind = "select"
  <2>1. Builders!Setters = Builders!SelectSetters
    BY <1>1 DEF Builders!Setters
  <2> QED BY <1>1, <2>1 DEF Sayable, RootSays, Builders!SelectSetters, Builders!Where,
     Builders!Timed, Builders!Versioned
<1>2. CASE kind = "create"
  <2>1. Builders!Setters = Builders!CreateSetters
    BY <1>2 DEF Builders!Setters
  <2> QED BY <1>2, <2>1 DEF Sayable, RootSays, Builders!CreateSetters, Builders!Common,
     Builders!Output, Builders!Timed, Builders!Versioned
<1>3. CASE kind = "update"
  <2>1. Builders!Setters = Builders!UpdateSetters
    BY <1>3 DEF Builders!Setters
  <2> QED BY <1>3, <2>1 DEF Sayable, RootSays, Builders!UpdateSetters, Builders!Common,
     Builders!Where, Builders!Output, Builders!Timed
<1>4. CASE kind = "upsert"
  <2>1. Builders!Setters = Builders!UpsertSetters
    BY <1>4 DEF Builders!Setters
  <2> QED BY <1>4, <2>1 DEF Sayable, RootSays, Builders!UpsertSetters, Builders!UpdateSetters,
     Builders!Common, Builders!Where, Builders!Output, Builders!Timed
<1>5. CASE kind = "insert"
  <2>1. Builders!Setters = Builders!InsertSetters
    BY <1>5 DEF Builders!Setters
  <2> QED BY <1>5, <2>1 DEF Sayable, RootSays, Builders!InsertSetters, Builders!Common,
     Builders!Output, Builders!Timed, Builders!Versioned
<1>6. CASE kind = "relate"
  <2>1. Builders!Setters = Builders!RelateSetters
    BY <1>6 DEF Builders!Setters
  <2> QED BY <1>6, <2>1 DEF Sayable, RootSays, Builders!RelateSetters, Builders!Common,
     Builders!Output, Builders!Timed, Builders!Versioned
<1>7. CASE kind = "delete"
  <2>1. Builders!Setters = Builders!DeleteSetters
    BY <1>7 DEF Builders!Setters
  <2> QED BY <1>7, <2>1 DEF Sayable, RootSays, Builders!DeleteSetters, Builders!Common,
     Builders!Output, Builders!Timed, Builders!Versioned
<1>8. CASE kind = "run"
  <2>1. Builders!Setters = Builders!RunSetters
    BY <1>8 DEF Builders!Setters
  <2> QED BY <1>8, <2>1 DEF Sayable, RootSays, Builders!RunSetters, Builders!Common
<1>9. CASE kind = "api"
  <2>1. Builders!Setters = Builders!ApiSetters
    BY <1>9 DEF Builders!Setters
  <2> QED BY <1>9, <2>1 DEF Sayable, RootSays, Builders!ApiSetters
<1>10. CASE kind = "auth"
  <2>1. Builders!Setters = Builders!AuthSetters
    BY <1>10 DEF Builders!Setters
  <2> QED BY <1>10, <2>1 DEF Sayable, RootSays, Builders!AuthSetters
<1>11. CASE kind = "live"
  <2>1. Builders!Setters = Builders!LiveSetters
    BY <1>11 DEF Builders!Setters
  <2> QED BY <1>11, <2>1 DEF Sayable, RootSays, Builders!LiveSetters, Builders!Where
<1> QED BY <1>1, <1>2, <1>3, <1>4, <1>5, <1>6, <1>7, <1>8, <1>9, <1>10, <1>11, DataAssumption

\* Only four names have something the code does not hear; and no builder keeps
\* a condition that is none.
LEMMA HeardAll ==
  ASSUME NEW o, Options(o) \subseteq Sayable, kind \in BuilderKinds
  PROVE  /\ \A s \in Words \ {"unique", "start", "limit", "where"} : Heard(o, s) = At(o, s)
         /\ Heard(o, "where") = At(o, "where")
         /\ Heard(o, "unique") = {}
<1>1. \A s \in Words \ {"unique", "start", "limit", "where"} : Heard(o, s) = At(o, s)
  BY DEF Heard, At, Builders!Unheard
<1>2. Heard(o, "where") = At(o, "where")
  <2>1. ASSUME "where" \in DOMAIN o PROVE <<"where", o["where"]>> \notin Builders!Unheard
    <3>1. <<"where", o["where"]>> \in Sayable
      BY <2>1 DEF Options
    <3>2. <<"where", "none">> \notin RootSays
      BY DEF RootSays
    <3>3. <<"where", o["where"]>> # <<"where", "none">>
      BY <3>1, <3>2 DEF Sayable
    <3> QED BY <3>3 DEF Builders!Unheard
  <2> QED BY <2>1 DEF Heard, At
<1>3. Heard(o, "unique") = {}
  <2>1. ASSUME "unique" \in DOMAIN o PROVE <<"unique", o["unique"]>> \in Builders!Unheard
    <3>1. <<"unique", o["unique"]>> \in Sayable
      BY <2>1 DEF Options
    <3>2. o["unique"] = "true"
      BY <3>1, Unique
    <3> QED BY <3>2 DEF Builders!Unheard
  <2> QED BY <2>1 DEF Heard, At
<1> QED BY <1>1, <1>2, <1>3

\* A statement says all that is heard of its options, with those of the request.
SaysAll(o) ==
  /\ Builders!Statement(o) \in Seq(Pairs)
  /\ Builders!Clauses(Builders!Statement(o)) \cup Builders!Options(o)
       = Options(o) \ Builders!Unheard

LEMMA SaysSelect ==
  ASSUME kind = "select", kind \in BuilderKinds, NEW o \in Maps, Options(o) \subseteq Sayable
  PROVE  SaysAll(o)
<1>0. {"selection", "what", "where", "start", "limit", "fetch", "timeout", "version"} \subseteq Words \ Builders!Keywords
  BY DEF Words, Builders!Keywords
<1>1. SaysJust(Builders!Selection(o), At(o, "selection"))
  BY <1>0, SelectionSays
<1>2. SaysJust(Builders!Clause(o, "what"), At(o, "what"))
  BY <1>0, ClauseSays
<1>3. SaysJust(Builders!Clause(o, "where"), At(o, "where"))
  BY <1>0, ClauseSays
<1>4. SaysJust(Builders!NonZero(o, "start"), Heard(o, "start"))
  BY <1>0, NonZeroSays
<1>5. SaysJust(Builders!NonZero(o, "limit"), Heard(o, "limit"))
  BY <1>0, NonZeroSays
<1>6. SaysJust(Builders!Clause(o, "fetch"), At(o, "fetch"))
  BY <1>0, ClauseSays
<1>7. SaysJust(Builders!Timeout(o), At(o, "timeout"))
  BY <1>0, TimeoutSays
<1>8. SaysJust(Builders!Clause(o, "version"), At(o, "version"))
  BY <1>0, ClauseSays
<1> DEFINE c2 == Builders!Selection(o) \o Builders!Clause(o, "what")
           c3 == c2 \o Builders!Clause(o, "where")
           c4 == c3 \o Builders!NonZero(o, "start")
           c5 == c4 \o Builders!NonZero(o, "limit")
           c6 == c5 \o Builders!Clause(o, "fetch")
           c7 == c6 \o Builders!Timeout(o)
           c8 == c7 \o Builders!Clause(o, "version")
           e2 == At(o, "selection") \cup At(o, "what")
           e3 == e2 \cup At(o, "where")
           e4 == e3 \cup Heard(o, "start")
           e5 == e4 \cup Heard(o, "limit")
           e6 == e5 \cup At(o, "fetch")
           e7 == e6 \cup At(o, "timeout")
           e8 == e7 \cup At(o, "version")
<1>9. SaysJust(c2, e2)
  BY <1>1, <1>2, SaysBoth
<1>10. SaysJust(c3, e3)
  BY <1>9, <1>3, SaysBoth
<1>11. SaysJust(c4, e4)
  BY <1>10, <1>4, SaysBoth
<1>12. SaysJust(c5, e5)
  BY <1>11, <1>5, SaysBoth
<1>13. SaysJust(c6, e6)
  BY <1>12, <1>6, SaysBoth
<1>14. SaysJust(c7, e7)
  BY <1>13, <1>7, SaysBoth
<1>15. SaysJust(c8, e8)
  BY <1>14, <1>8, SaysBoth
<1>16. SaysJust(Builders!Statement(o), e8)
  BY <1>15 DEF Builders!Statement, Builders!SelectStatement
<1>17. Options(o) \ Builders!Unheard = Heard(o, "selection") \cup Heard(o, "what")
     \cup Heard(o, "where") \cup Heard(o, "start") \cup Heard(o, "limit")
     \cup Heard(o, "fetch") \cup Heard(o, "timeout") \cup Heard(o, "version")
     \cup Heard(o, "json")
  <2>1. DOMAIN o \subseteq {"selection", "what", "where", "start", "limit", "fetch", "timeout", "version", "json"}
    BY NamesOfOptions DEF Slots
  <2> DEFINE D == {"selection", "what", "where", "start", "limit", "fetch", "timeout", "version", "json"}
  <2>2. DOMAIN o \subseteq D
    BY <2>1
  <2>3. UNION {Heard(o, s) : s \in D} = Heard(o, "selection") \cup Heard(o, "what")
       \cup Heard(o, "where") \cup Heard(o, "start") \cup Heard(o, "limit")
       \cup Heard(o, "fetch") \cup Heard(o, "timeout") \cup Heard(o, "version")
       \cup Heard(o, "json")
    OBVIOUS
  <2> HIDE DEF D
  <2> QED BY <2>2, <2>3, Gathered
<1>18. At(o, "json") \cup At(o, "retry") = Heard(o, "json")
  <2>1. {"retry"} \cap DOMAIN o = {}
    BY NamesOfOptions DEF Slots
  <2>2. \A s \in {"retry"} : At(o, s) = {}
    BY <2>1 DEF At
  <2>3. \A s \in {"json", "retry"} : Heard(o, s) = At(o, s)
    BY HeardAll DEF Words
  <2> QED BY <2>2, <2>3
<1>19. \A s \in {"selection", "what", "where", "fetch", "timeout", "version"} : Heard(o, s) = At(o, s)
  BY ZenonT(40), HeardAll DEF Words
<1> QED BY <1>16, <1>17, <1>18, <1>19, RequestOptions, HeardAll DEF SaysAll, SaysJust

LEMMA SaysCreate ==
  ASSUME kind = "create", kind \in BuilderKinds, NEW o \in Maps, Options(o) \subseteq Sayable
  PROVE  SaysAll(o)
<1>0. {"what", "mutation", "output", "timeout", "version"} \subseteq Words \ Builders!Keywords
  BY DEF Words, Builders!Keywords
<1>1. SaysJust(Builders!Clause(o, "what"), At(o, "what"))
  BY <1>0, ClauseSays
<1>2. SaysJust(Builders!Clause(o, "mutation"), At(o, "mutation"))
  BY <1>0, ClauseSays
<1>3. SaysJust(Builders!Clause(o, "output"), At(o, "output"))
  BY <1>0, ClauseSays
<1>4. SaysJust(Builders!Timeout(o), At(o, "timeout"))
  BY <1>0, TimeoutSays
<1>5. SaysJust(Builders!Clause(o, "version"), At(o, "version"))
  BY <1>0, ClauseSays
<1> DEFINE c2 == Builders!Clause(o, "what") \o Builders!Clause(o, "mutation")
           c3 == c2 \o Builders!Clause(o, "output")
           c4 == c3 \o Builders!Timeout(o)
           c5 == c4 \o Builders!Clause(o, "version")
           e2 == At(o, "what") \cup At(o, "mutation")
           e3 == e2 \cup At(o, "output")
           e4 == e3 \cup At(o, "timeout")
           e5 == e4 \cup At(o, "version")
<1>6. SaysJust(c2, e2)
  BY <1>1, <1>2, SaysBoth
<1>7. SaysJust(c3, e3)
  BY <1>6, <1>3, SaysBoth
<1>8. SaysJust(c4, e4)
  BY <1>7, <1>4, SaysBoth
<1>9. SaysJust(c5, e5)
  BY <1>8, <1>5, SaysBoth
<1>10. SaysJust(Builders!Statement(o), e5)
  BY <1>9 DEF Builders!Statement, Builders!CreateStatement
<1>11. Options(o) \ Builders!Unheard = Heard(o, "what") \cup Heard(o, "mutation")
     \cup Heard(o, "output") \cup Heard(o, "timeout") \cup Heard(o, "version")
     \cup Heard(o, "json") \cup Heard(o, "retry")
  <2>1. DOMAIN o \subseteq {"what", "mutation", "output", "timeout", "version", "json", "retry"}
    BY NamesOfOptions DEF Slots
  <2> DEFINE D == {"what", "mutation", "output", "timeout", "version", "json", "retry"}
  <2>2. DOMAIN o \subseteq D
    BY <2>1
  <2>3. UNION {Heard(o, s) : s \in D} = Heard(o, "what") \cup Heard(o, "mutation")
       \cup Heard(o, "output") \cup Heard(o, "timeout") \cup Heard(o, "version")
       \cup Heard(o, "json") \cup Heard(o, "retry")
    OBVIOUS
  <2> HIDE DEF D
  <2> QED BY <2>2, <2>3, Gathered
<1>12. At(o, "json") \cup At(o, "retry") = Heard(o, "json") \cup Heard(o, "retry")
  BY HeardAll DEF Words
<1>13. \A s \in {"what", "mutation", "output", "timeout", "version"} : Heard(o, s) = At(o, s)
  BY HeardAll DEF Words
<1> QED BY <1>10, <1>11, <1>12, <1>13, RequestOptions, HeardAll DEF SaysAll, SaysJust

LEMMA SaysUpdate ==
  ASSUME kind = "update", kind \in BuilderKinds, NEW o \in Maps, Options(o) \subseteq Sayable
  PROVE  SaysAll(o)
<1>0. {"what", "mutation", "where", "output", "timeout"} \subseteq Words \ Builders!Keywords
  BY DEF Words, Builders!Keywords
<1>1. SaysJust(Builders!Clause(o, "what"), At(o, "what"))
  BY <1>0, ClauseSays
<1>2. SaysJust(Builders!Clause(o, "mutation"), At(o, "mutation"))
  BY <1>0, ClauseSays
<1>3. SaysJust(Builders!Clause(o, "where"), At(o, "where"))
  BY <1>0, ClauseSays
<1>4. SaysJust(Builders!Clause(o, "output"), At(o, "output"))
  BY <1>0, ClauseSays
<1>5. SaysJust(Builders!Timeout(o), At(o, "timeout"))
  BY <1>0, TimeoutSays
<1> DEFINE c2 == Builders!Clause(o, "what") \o Builders!Clause(o, "mutation")
           c3 == c2 \o Builders!Clause(o, "where")
           c4 == c3 \o Builders!Clause(o, "output")
           c5 == c4 \o Builders!Timeout(o)
           e2 == At(o, "what") \cup At(o, "mutation")
           e3 == e2 \cup At(o, "where")
           e4 == e3 \cup At(o, "output")
           e5 == e4 \cup At(o, "timeout")
<1>6. SaysJust(c2, e2)
  BY <1>1, <1>2, SaysBoth
<1>7. SaysJust(c3, e3)
  BY <1>6, <1>3, SaysBoth
<1>8. SaysJust(c4, e4)
  BY <1>7, <1>4, SaysBoth
<1>9. SaysJust(c5, e5)
  BY <1>8, <1>5, SaysBoth
<1>10. SaysJust(Builders!Statement(o), e5)
  BY <1>9 DEF Builders!Statement, Builders!UpdateStatement
<1>11. Options(o) \ Builders!Unheard = Heard(o, "what") \cup Heard(o, "mutation")
     \cup Heard(o, "where") \cup Heard(o, "output") \cup Heard(o, "timeout")
     \cup Heard(o, "json") \cup Heard(o, "retry")
  <2>1. DOMAIN o \subseteq {"what", "mutation", "where", "output", "timeout", "json", "retry"}
    BY NamesOfOptions DEF Slots
  <2> DEFINE D == {"what", "mutation", "where", "output", "timeout", "json", "retry"}
  <2>2. DOMAIN o \subseteq D
    BY <2>1
  <2>3. UNION {Heard(o, s) : s \in D} = Heard(o, "what") \cup Heard(o, "mutation")
       \cup Heard(o, "where") \cup Heard(o, "output") \cup Heard(o, "timeout")
       \cup Heard(o, "json") \cup Heard(o, "retry")
    OBVIOUS
  <2> HIDE DEF D
  <2> QED BY <2>2, <2>3, Gathered
<1>12. At(o, "json") \cup At(o, "retry") = Heard(o, "json") \cup Heard(o, "retry")
  BY HeardAll DEF Words
<1>13. \A s \in {"what", "mutation", "where", "output", "timeout"} : Heard(o, s) = At(o, s)
  BY HeardAll DEF Words
<1> QED BY <1>10, <1>11, <1>12, <1>13, RequestOptions, HeardAll DEF SaysAll, SaysJust

LEMMA SaysUpsert ==
  ASSUME kind = "upsert", kind \in BuilderKinds, NEW o \in Maps, Options(o) \subseteq Sayable
  PROVE  SaysAll(o)
<1>0. {"what", "mutation", "where", "output", "timeout"} \subseteq Words \ Builders!Keywords
  BY DEF Words, Builders!Keywords
<1>1. SaysJust(Builders!Clause(o, "what"), At(o, "what"))
  BY <1>0, ClauseSays
<1>2. SaysJust(Builders!Clause(o, "mutation"), At(o, "mutation"))
  BY <1>0, ClauseSays
<1>3. SaysJust(Builders!Clause(o, "where"), At(o, "where"))
  BY <1>0, ClauseSays
<1>4. SaysJust(Builders!Clause(o, "output"), At(o, "output"))
  BY <1>0, ClauseSays
<1>5. SaysJust(Builders!Timeout(o), At(o, "timeout"))
  BY <1>0, TimeoutSays
<1> DEFINE c2 == Builders!Clause(o, "what") \o Builders!Clause(o, "mutation")
           c3 == c2 \o Builders!Clause(o, "where")
           c4 == c3 \o Builders!Clause(o, "output")
           c5 == c4 \o Builders!Timeout(o)
           e2 == At(o, "what") \cup At(o, "mutation")
           e3 == e2 \cup At(o, "where")
           e4 == e3 \cup At(o, "output")
           e5 == e4 \cup At(o, "timeout")
<1>6. SaysJust(c2, e2)
  BY <1>1, <1>2, SaysBoth
<1>7. SaysJust(c3, e3)
  BY <1>6, <1>3, SaysBoth
<1>8. SaysJust(c4, e4)
  BY <1>7, <1>4, SaysBoth
<1>9. SaysJust(c5, e5)
  BY <1>8, <1>5, SaysBoth
<1>10. SaysJust(Builders!Statement(o), e5)
  BY <1>9 DEF Builders!Statement, Builders!UpsertStatement, Builders!UpdateStatement
<1>11. Options(o) \ Builders!Unheard = Heard(o, "what") \cup Heard(o, "mutation")
     \cup Heard(o, "where") \cup Heard(o, "output") \cup Heard(o, "timeout")
     \cup Heard(o, "json") \cup Heard(o, "retry")
  <2>1. DOMAIN o \subseteq {"what", "mutation", "where", "output", "timeout", "json", "retry"}
    BY NamesOfOptions DEF Slots
  <2> DEFINE D == {"what", "mutation", "where", "output", "timeout", "json", "retry"}
  <2>2. DOMAIN o \subseteq D
    BY <2>1
  <2>3. UNION {Heard(o, s) : s \in D} = Heard(o, "what") \cup Heard(o, "mutation")
       \cup Heard(o, "where") \cup Heard(o, "output") \cup Heard(o, "timeout")
       \cup Heard(o, "json") \cup Heard(o, "retry")
    OBVIOUS
  <2> HIDE DEF D
  <2> QED BY <2>2, <2>3, Gathered
<1>12. At(o, "json") \cup At(o, "retry") = Heard(o, "json") \cup Heard(o, "retry")
  BY HeardAll DEF Words
<1>13. \A s \in {"what", "mutation", "where", "output", "timeout"} : Heard(o, s) = At(o, s)
  BY HeardAll DEF Words
<1> QED BY <1>10, <1>11, <1>12, <1>13, RequestOptions, HeardAll DEF SaysAll, SaysJust

LEMMA SaysInsert ==
  ASSUME kind = "insert", kind \in BuilderKinds, NEW o \in Maps, Options(o) \subseteq Sayable
  PROVE  SaysAll(o)
<1>0. {"relation", "ignore", "table", "what", "output", "timeout", "version"} \subseteq Words \ Builders!Keywords
  BY DEF Words, Builders!Keywords
<1>1. SaysJust(Builders!Clause(o, "relation"), At(o, "relation"))
  BY <1>0, ClauseSays
<1>2. SaysJust(Builders!Clause(o, "ignore"), At(o, "ignore"))
  BY <1>0, ClauseSays
<1>3. SaysJust(Builders!Clause(o, "table"), At(o, "table"))
  BY <1>0, ClauseSays
<1>4. SaysJust(Builders!Clause(o, "what"), At(o, "what"))
  BY <1>0, ClauseSays
<1>5. SaysJust(Builders!Clause(o, "output"), At(o, "output"))
  BY <1>0, ClauseSays
<1>6. SaysJust(Builders!Timeout(o), At(o, "timeout"))
  BY <1>0, TimeoutSays
<1>7. SaysJust(Builders!Clause(o, "version"), At(o, "version"))
  BY <1>0, ClauseSays
<1> DEFINE c2 == Builders!Clause(o, "relation") \o Builders!Clause(o, "ignore")
           c3 == c2 \o Builders!Clause(o, "table")
           c4 == c3 \o Builders!Clause(o, "what")
           c5 == c4 \o Builders!Clause(o, "output")
           c6 == c5 \o Builders!Timeout(o)
           c7 == c6 \o Builders!Clause(o, "version")
           e2 == At(o, "relation") \cup At(o, "ignore")
           e3 == e2 \cup At(o, "table")
           e4 == e3 \cup At(o, "what")
           e5 == e4 \cup At(o, "output")
           e6 == e5 \cup At(o, "timeout")
           e7 == e6 \cup At(o, "version")
<1>8. SaysJust(c2, e2)
  BY <1>1, <1>2, SaysBoth
<1>9. SaysJust(c3, e3)
  BY <1>8, <1>3, SaysBoth
<1>10. SaysJust(c4, e4)
  BY <1>9, <1>4, SaysBoth
<1>11. SaysJust(c5, e5)
  BY <1>10, <1>5, SaysBoth
<1>12. SaysJust(c6, e6)
  BY <1>11, <1>6, SaysBoth
<1>13. SaysJust(c7, e7)
  BY <1>12, <1>7, SaysBoth
<1>14. SaysJust(Builders!Statement(o), e7)
  BY <1>13 DEF Builders!Statement, Builders!InsertStatement
<1>15. Options(o) \ Builders!Unheard = Heard(o, "relation") \cup Heard(o, "ignore")
     \cup Heard(o, "table") \cup Heard(o, "what") \cup Heard(o, "output")
     \cup Heard(o, "timeout") \cup Heard(o, "version") \cup Heard(o, "json")
     \cup Heard(o, "retry")
  <2>1. DOMAIN o \subseteq {"relation", "ignore", "table", "what", "output", "timeout", "version", "json", "retry"}
    BY NamesOfOptions DEF Slots
  <2> DEFINE D == {"relation", "ignore", "table", "what", "output", "timeout", "version", "json", "retry"}
  <2>2. DOMAIN o \subseteq D
    BY <2>1
  <2>3. UNION {Heard(o, s) : s \in D} = Heard(o, "relation") \cup Heard(o, "ignore")
       \cup Heard(o, "table") \cup Heard(o, "what") \cup Heard(o, "output")
       \cup Heard(o, "timeout") \cup Heard(o, "version") \cup Heard(o, "json")
       \cup Heard(o, "retry")
    OBVIOUS
  <2> HIDE DEF D
  <2> QED BY <2>2, <2>3, Gathered
<1>16. At(o, "json") \cup At(o, "retry") = Heard(o, "json") \cup Heard(o, "retry")
  BY HeardAll DEF Words
<1>17. \A s \in {"relation", "ignore", "table", "what", "output", "timeout", "version"} : Heard(o, s) = At(o, s)
  BY ZenonT(40), HeardAll DEF Words
<1> QED BY <1>14, <1>15, <1>16, <1>17, RequestOptions, HeardAll DEF SaysAll, SaysJust

LEMMA SaysRelate ==
  ASSUME kind = "relate", kind \in BuilderKinds, NEW o \in Maps, Options(o) \subseteq Sayable
  PROVE  SaysAll(o)
<1> DEFINE only == IF o.what = "one" THEN << <<"ONLY", "">> >> ELSE << >>
<1>0. {"what", "data", "output", "timeout", "version"} \subseteq Words \ Builders!Keywords
  BY DEF Words, Builders!Keywords
<1>1. SaysJust(only, {})
  <2>1. {"ONLY", ""} \subseteq Words /\ "ONLY" \in Builders!Keywords
    BY DEF Words, Builders!Keywords
  <2> QED BY <2>1, SaysOne, SaysNothing
<1>2. SaysJust(Builders!Clause(o, "what"), At(o, "what"))
  BY <1>0, ClauseSays
<1>3. SaysJust(Builders!Clause(o, "data"), At(o, "data"))
  BY <1>0, ClauseSays
<1>4. SaysJust(Builders!Clause(o, "output"), At(o, "output"))
  BY <1>0, ClauseSays
<1>5. SaysJust(Builders!Timeout(o), At(o, "timeout"))
  BY <1>0, TimeoutSays
<1>6. SaysJust(Builders!Clause(o, "version"), At(o, "version"))
  BY <1>0, ClauseSays
<1> HIDE DEF only
<1> DEFINE c2 == only \o Builders!Clause(o, "what")
           c3 == c2 \o Builders!Clause(o, "data")
           c4 == c3 \o Builders!Clause(o, "output")
           c5 == c4 \o Builders!Timeout(o)
           c6 == c5 \o Builders!Clause(o, "version")
           e2 == {} \cup At(o, "what")
           e3 == e2 \cup At(o, "data")
           e4 == e3 \cup At(o, "output")
           e5 == e4 \cup At(o, "timeout")
           e6 == e5 \cup At(o, "version")
<1>7. SaysJust(c2, e2)
  BY <1>1, <1>2, SaysBoth
<1>8. SaysJust(c3, e3)
  BY <1>7, <1>3, SaysBoth
<1>9. SaysJust(c4, e4)
  BY <1>8, <1>4, SaysBoth
<1>10. SaysJust(c5, e5)
  BY <1>9, <1>5, SaysBoth
<1>11. SaysJust(c6, e6)
  BY <1>10, <1>6, SaysBoth
<1>12. SaysJust(Builders!Statement(o), e6)
  BY <1>11 DEF Builders!Statement, Builders!RelateStatement, Builders!None, only
<1>13. Options(o) \ Builders!Unheard = Heard(o, "what") \cup Heard(o, "data")
     \cup Heard(o, "output") \cup Heard(o, "timeout") \cup Heard(o, "version")
     \cup Heard(o, "json") \cup Heard(o, "retry") \cup Heard(o, "unique")
  <2>1. DOMAIN o \subseteq {"what", "data", "output", "timeout", "version", "json", "retry", "unique"}
    BY NamesOfOptions DEF Slots
  <2> DEFINE D == {"what", "data", "output", "timeout", "version", "json", "retry", "unique"}
  <2>2. DOMAIN o \subseteq D
    BY <2>1
  <2>3. UNION {Heard(o, s) : s \in D} = Heard(o, "what") \cup Heard(o, "data")
       \cup Heard(o, "output") \cup Heard(o, "timeout") \cup Heard(o, "version")
       \cup Heard(o, "json") \cup Heard(o, "retry") \cup Heard(o, "unique")
    OBVIOUS
  <2> HIDE DEF D
  <2> QED BY <2>2, <2>3, Gathered
<1>14. At(o, "json") \cup At(o, "retry") = Heard(o, "json") \cup Heard(o, "retry")
  BY HeardAll DEF Words
<1>15. \A s \in {"what", "data", "output", "timeout", "version"} : Heard(o, s) = At(o, s)
  BY HeardAll DEF Words
<1> QED BY <1>12, <1>13, <1>14, <1>15, RequestOptions, HeardAll DEF SaysAll, SaysJust

LEMMA SaysDelete ==
  ASSUME kind = "delete", kind \in BuilderKinds, NEW o \in Maps, Options(o) \subseteq Sayable
  PROVE  SaysAll(o)
<1>0. {"what", "output", "timeout", "version"} \subseteq Words \ Builders!Keywords
  BY DEF Words, Builders!Keywords
<1>1. SaysJust(Builders!Clause(o, "what"), At(o, "what"))
  BY <1>0, ClauseSays
<1>2. SaysJust(Builders!Clause(o, "output"), At(o, "output"))
  BY <1>0, ClauseSays
<1>3. SaysJust(Builders!Timeout(o), At(o, "timeout"))
  BY <1>0, TimeoutSays
<1>4. SaysJust(Builders!Clause(o, "version"), At(o, "version"))
  BY <1>0, ClauseSays
<1> DEFINE c2 == Builders!Clause(o, "what") \o Builders!Clause(o, "output")
           c3 == c2 \o Builders!Timeout(o)
           c4 == c3 \o Builders!Clause(o, "version")
           e2 == At(o, "what") \cup At(o, "output")
           e3 == e2 \cup At(o, "timeout")
           e4 == e3 \cup At(o, "version")
<1>5. SaysJust(c2, e2)
  BY <1>1, <1>2, SaysBoth
<1>6. SaysJust(c3, e3)
  BY <1>5, <1>3, SaysBoth
<1>7. SaysJust(c4, e4)
  BY <1>6, <1>4, SaysBoth
<1>8. SaysJust(Builders!Statement(o), e4)
  BY <1>7 DEF Builders!Statement, Builders!DeleteStatement
<1>9. Options(o) \ Builders!Unheard = Heard(o, "what") \cup Heard(o, "output")
     \cup Heard(o, "timeout") \cup Heard(o, "version") \cup Heard(o, "json")
     \cup Heard(o, "retry")
  <2>1. DOMAIN o \subseteq {"what", "output", "timeout", "version", "json", "retry"}
    BY NamesOfOptions DEF Slots
  <2> DEFINE D == {"what", "output", "timeout", "version", "json", "retry"}
  <2>2. DOMAIN o \subseteq D
    BY <2>1
  <2>3. UNION {Heard(o, s) : s \in D} = Heard(o, "what") \cup Heard(o, "output")
       \cup Heard(o, "timeout") \cup Heard(o, "version") \cup Heard(o, "json")
       \cup Heard(o, "retry")
    OBVIOUS
  <2> HIDE DEF D
  <2> QED BY <2>2, <2>3, Gathered
<1>10. At(o, "json") \cup At(o, "retry") = Heard(o, "json") \cup Heard(o, "retry")
  BY HeardAll DEF Words
<1>11. \A s \in {"what", "output", "timeout", "version"} : Heard(o, s) = At(o, s)
  BY HeardAll DEF Words
<1> QED BY <1>8, <1>9, <1>10, <1>11, RequestOptions, HeardAll DEF SaysAll, SaysJust

LEMMA SaysRun ==
  ASSUME kind = "run", kind \in BuilderKinds, NEW o \in Maps, Options(o) \subseteq Sayable
  PROVE  SaysAll(o)
<1>0. {"what", "version", "args"} \subseteq Words \ Builders!Keywords
  BY DEF Words, Builders!Keywords
<1>1. SaysJust(Builders!Clause(o, "what"), At(o, "what"))
  BY <1>0, ClauseSays
<1>2. SaysJust(Builders!Clause(o, "version"), At(o, "version"))
  BY <1>0, ClauseSays
<1>3. SaysJust(Builders!Clause(o, "args"), At(o, "args"))
  BY <1>0, ClauseSays
<1> DEFINE c2 == Builders!Clause(o, "what") \o Builders!Clause(o, "version")
           c3 == c2 \o Builders!Clause(o, "args")
           e2 == At(o, "what") \cup At(o, "version")
           e3 == e2 \cup At(o, "args")
<1>4. SaysJust(c2, e2)
  BY <1>1, <1>2, SaysBoth
<1>5. SaysJust(c3, e3)
  BY <1>4, <1>3, SaysBoth
<1>6. SaysJust(Builders!Statement(o), e3)
  BY <1>5 DEF Builders!Statement, Builders!RunStatement
<1>7. Options(o) \ Builders!Unheard = Heard(o, "what") \cup Heard(o, "version")
     \cup Heard(o, "args") \cup Heard(o, "json") \cup Heard(o, "retry")
  <2>1. DOMAIN o \subseteq {"what", "version", "args", "json", "retry"}
    BY NamesOfOptions DEF Slots
  <2> DEFINE D == {"what", "version", "args", "json", "retry"}
  <2>2. DOMAIN o \subseteq D
    BY <2>1
  <2>3. UNION {Heard(o, s) : s \in D} = Heard(o, "what") \cup Heard(o, "version")
       \cup Heard(o, "args") \cup Heard(o, "json") \cup Heard(o, "retry")
    OBVIOUS
  <2> HIDE DEF D
  <2> QED BY <2>2, <2>3, Gathered
<1>8. At(o, "json") \cup At(o, "retry") = Heard(o, "json") \cup Heard(o, "retry")
  BY HeardAll DEF Words
<1>9. \A s \in {"what", "version", "args"} : Heard(o, s) = At(o, s)
  BY HeardAll DEF Words
<1> QED BY <1>6, <1>7, <1>8, <1>9, RequestOptions, HeardAll DEF SaysAll, SaysJust

LEMMA SaysApi ==
  ASSUME kind = "api", kind \in BuilderKinds, NEW o \in Maps, Options(o) \subseteq Sayable
  PROVE  SaysAll(o)
<1>0. {"what", "header", "query"} \subseteq Words \ Builders!Keywords
  BY DEF Words, Builders!Keywords
<1>1. SaysJust(Builders!Clause(o, "what"), At(o, "what"))
  BY <1>0, ClauseSays
<1>2. SaysJust(Builders!Clause(o, "header"), At(o, "header"))
  BY <1>0, ClauseSays
<1>3. SaysJust(Builders!Clause(o, "query"), At(o, "query"))
  BY <1>0, ClauseSays
<1> DEFINE c2 == Builders!Clause(o, "what") \o Builders!Clause(o, "header")
           c3 == c2 \o Builders!Clause(o, "query")
           e2 == At(o, "what") \cup At(o, "header")
           e3 == e2 \cup At(o, "query")
<1>4. SaysJust(c2, e2)
  BY <1>1, <1>2, SaysBoth
<1>5. SaysJust(c3, e3)
  BY <1>4, <1>3, SaysBoth
<1>6. SaysJust(Builders!Statement(o), e3)
  BY <1>5 DEF Builders!Statement, Builders!ApiStatement
<1>7. Options(o) \ Builders!Unheard = Heard(o, "what") \cup Heard(o, "header")
     \cup Heard(o, "query") \cup Heard(o, "json")
  <2>1. DOMAIN o \subseteq {"what", "header", "query", "json"}
    BY NamesOfOptions DEF Slots
  <2> DEFINE D == {"what", "header", "query", "json"}
  <2>2. DOMAIN o \subseteq D
    BY <2>1
  <2>3. UNION {Heard(o, s) : s \in D} = Heard(o, "what") \cup Heard(o, "header")
       \cup Heard(o, "query") \cup Heard(o, "json")
    OBVIOUS
  <2> HIDE DEF D
  <2> QED BY <2>2, <2>3, Gathered
<1>8. At(o, "json") \cup At(o, "retry") = Heard(o, "json")
  <2>1. {"retry"} \cap DOMAIN o = {}
    BY NamesOfOptions DEF Slots
  <2>2. \A s \in {"retry"} : At(o, s) = {}
    BY <2>1 DEF At
  <2>3. \A s \in {"json", "retry"} : Heard(o, s) = At(o, s)
    BY HeardAll DEF Words
  <2> QED BY <2>2, <2>3
<1>9. \A s \in {"what", "header", "query"} : Heard(o, s) = At(o, s)
  BY HeardAll DEF Words
<1> QED BY <1>6, <1>7, <1>8, <1>9, RequestOptions, HeardAll DEF SaysAll, SaysJust

LEMMA SaysAuth ==
  ASSUME kind = "auth", kind \in BuilderKinds, NEW o \in Maps, Options(o) \subseteq Sayable
  PROVE  SaysAll(o)
<1>0. {"what"} \subseteq Words \ Builders!Keywords
  BY DEF Words, Builders!Keywords
<1>1. SaysJust(Builders!Clause(o, "what"), At(o, "what"))
  BY <1>0, ClauseSays
<1>2. SaysJust(Builders!Statement(o),
          At(o, "what"))
  BY <1>1 DEF Builders!Statement, Builders!AuthStatement
<1>3. Options(o) \ Builders!Unheard = Heard(o, "what") \cup Heard(o, "json")
  <2>1. DOMAIN o \subseteq {"what", "json"}
    BY NamesOfOptions DEF Slots
  <2> DEFINE D == {"what", "json"}
  <2>2. DOMAIN o \subseteq D
    BY <2>1
  <2>3. UNION {Heard(o, s) : s \in D} = Heard(o, "what") \cup Heard(o, "json")
    OBVIOUS
  <2> HIDE DEF D
  <2> QED BY <2>2, <2>3, Gathered
<1>4. At(o, "json") \cup At(o, "retry") = Heard(o, "json")
  <2>1. {"retry"} \cap DOMAIN o = {}
    BY NamesOfOptions DEF Slots
  <2>2. \A s \in {"retry"} : At(o, s) = {}
    BY <2>1 DEF At
  <2>3. \A s \in {"json", "retry"} : Heard(o, s) = At(o, s)
    BY HeardAll DEF Words
  <2> QED BY <2>2, <2>3
<1>5. \A s \in {"what"} : Heard(o, s) = At(o, s)
  BY HeardAll DEF Words
<1> QED BY <1>2, <1>3, <1>4, <1>5, RequestOptions, HeardAll DEF SaysAll, SaysJust

LEMMA SaysLive ==
  ASSUME kind = "live", kind \in BuilderKinds, NEW o \in Maps, Options(o) \subseteq Sayable
  PROVE  SaysAll(o)
<1>0. {"selection", "what", "where", "fetch"} \subseteq Words \ Builders!Keywords
  BY DEF Words, Builders!Keywords
<1>1. SaysJust(Builders!Selection(o), At(o, "selection"))
  BY <1>0, SelectionSays
<1>2. SaysJust(Builders!Clause(o, "what"), At(o, "what"))
  BY <1>0, ClauseSays
<1>3. SaysJust(Builders!Clause(o, "where"), At(o, "where"))
  BY <1>0, ClauseSays
<1>4. SaysJust(Builders!Clause(o, "fetch"), At(o, "fetch"))
  BY <1>0, ClauseSays
<1> DEFINE c2 == Builders!Selection(o) \o Builders!Clause(o, "what")
           c3 == c2 \o Builders!Clause(o, "where")
           c4 == c3 \o Builders!Clause(o, "fetch")
           e2 == At(o, "selection") \cup At(o, "what")
           e3 == e2 \cup At(o, "where")
           e4 == e3 \cup At(o, "fetch")
<1>5. SaysJust(c2, e2)
  BY <1>1, <1>2, SaysBoth
<1>6. SaysJust(c3, e3)
  BY <1>5, <1>3, SaysBoth
<1>7. SaysJust(c4, e4)
  BY <1>6, <1>4, SaysBoth
<1>8. SaysJust(Builders!Statement(o), e4)
  BY <1>7 DEF Builders!Statement, Builders!LiveStatement
<1>9. Options(o) \ Builders!Unheard = Heard(o, "selection") \cup Heard(o, "what")
     \cup Heard(o, "where") \cup Heard(o, "fetch")
  <2>1. DOMAIN o \subseteq {"selection", "what", "where", "fetch"}
    BY NamesOfOptions DEF Slots
  <2> DEFINE D == {"selection", "what", "where", "fetch"}
  <2>2. DOMAIN o \subseteq D
    BY <2>1
  <2>3. UNION {Heard(o, s) : s \in D} = Heard(o, "selection") \cup Heard(o, "what")
       \cup Heard(o, "where") \cup Heard(o, "fetch")
    OBVIOUS
  <2> HIDE DEF D
  <2> QED BY <2>2, <2>3, Gathered
<1>10. At(o, "json") \cup At(o, "retry") = {}
  <2>1. {"json", "retry"} \cap DOMAIN o = {}
    BY NamesOfOptions DEF Slots
  <2>2. \A s \in {"json", "retry"} : At(o, s) = {}
    BY <2>1 DEF At
  <2>3. \A s \in {"json", "retry"} : Heard(o, s) = At(o, s)
    BY HeardAll DEF Words
  <2> QED BY <2>2, <2>3
<1>11. \A s \in {"selection", "what", "where", "fetch"} : Heard(o, s) = At(o, s)
  BY HeardAll DEF Words
<1> QED BY <1>8, <1>9, <1>10, <1>11, RequestOptions, HeardAll DEF SaysAll, SaysJust

LEMMA SaysAllThatWasSet ==
  ASSUME kind \in BuilderKinds, NEW o \in Maps, Options(o) \subseteq Sayable
  PROVE  SaysAll(o)
<1>1. kind \in {"select", "create", "update", "upsert", "insert", "relate", "delete", "run", "api", "auth", "live"}
  BY DataAssumption
<1> QED BY <1>1, SaysSelect, SaysCreate, SaysUpdate, SaysUpsert, SaysInsert, SaysRelate,
   SaysDelete, SaysRun, SaysApi, SaysAuth, SaysLive

-----------------------------------------------------------------------------
(* The setters.                                                            *)

\* What is said last after one more call.
LEMMA LastAfter ==
  ASSUME NEW said \in Seq(Pairs), NEW c \in Pairs
  PROVE  LastOf(Append(said, c)) = {p \in LastOf(said) : p[1] # c[1]} \cup {c}
<1> DEFINE more == Append(said, c)
           n == Len(said)
<1>1. n \in Nat /\ DOMAIN said = 1..n
  OBVIOUS
<1>2. DOMAIN more = 1..(n + 1) /\ more[n + 1] = c /\ \A i \in 1..n : more[i] = said[i]
  OBVIOUS
<1> HIDE DEF more, n
<1>3. ASSUME NEW p \in LastOf(more) PROVE p \in {q \in LastOf(said) : q[1] # c[1]} \cup {c}
  <2>1. PICK i \in 1..(n + 1) : p = more[i] /\ \A k \in 1..(n + 1) : more[k][1] = more[i][1] => k <= i
    BY <1>2 DEF LastOf
  <2>2. CASE i = n + 1
    BY <1>2, <2>1, <2>2
  <2>3. CASE i \in 1..n
    <3>1. p = said[i] /\ \A k \in 1..n : said[k][1] = said[i][1] => k <= i
      BY <1>1, <1>2, <2>1, <2>3
    <3>2. p[1] # c[1]
      <4>1. more[n + 1][1] = more[i][1] => n + 1 <= i
        BY <1>1, <2>1
      <4> QED BY <1>1, <1>2, <2>1, <2>3, <4>1
    <3>3. p \in LastOf(said)
      BY <1>1, <2>3, <3>1 DEF LastOf
    <3> QED BY <3>2, <3>3
  <2> QED BY <1>1, <2>1, <2>2, <2>3
<1>4. c \in LastOf(more)
  <2>1. n + 1 \in 1..(n + 1) /\ \A k \in 1..(n + 1) : k <= n + 1
    BY <1>1
  <2> QED BY <1>2, <2>1 DEF LastOf
<1>5. ASSUME NEW p \in LastOf(said), p[1] # c[1] PROVE p \in LastOf(more)
  <2>1. PICK i \in 1..n : p = said[i] /\ \A k \in 1..n : said[k][1] = said[i][1] => k <= i
    BY <1>1 DEF LastOf
  <2>2. i \in 1..(n + 1) /\ more[i] = p
    BY <1>1, <1>2, <2>1
  <2>3. ASSUME NEW k \in 1..(n + 1), more[k][1] = more[i][1] PROVE k <= i
    <3>1. CASE k = n + 1
      BY <1>2, <1>5, <2>2, <2>3, <3>1
    <3>2. CASE k \in 1..n
      BY <1>2, <2>1, <2>2, <2>3, <3>2
    <3> QED BY <1>1, <3>1, <3>2
  <2> QED BY <1>2, <2>2, <2>3 DEF LastOf
<1> QED BY <1>3, <1>4, <1>5 DEF more

LEMMA SaidAfter ==
  ASSUME NEW r, NEW next, NEW c \in Pairs, r.calls \in Seq(Pairs),
         next.calls = Append(r.calls, c), next.root = r.root
  PROVE  SaidOf(next) = {p \in SaidOf(r) : p[1] # c[1]} \cup {c}
<1> DEFINE lately == LastOf(r.calls)
           later == LastOf(next.calls)
           quiet == {t \in DOMAIN r.root : \A p \in lately : p[1] # t}
           still == {t \in DOMAIN r.root : \A p \in later : p[1] # t}
<1>1. later = {p \in lately : p[1] # c[1]} \cup {c}
  BY LastAfter
<1> HIDE DEF lately, later
<1>2. still = {t \in quiet : t # c[1]}
  BY <1>1
<1>3. SaidOf(r) = lately \cup {<<s, r.root[s]>> : s \in quiet}
  BY DEF SaidOf, lately
<1>4. SaidOf(next) = later \cup {<<s, r.root[s]>> : s \in still}
  BY DEF SaidOf, later
<1> HIDE DEF quiet, still
<1>5. {<<s, r.root[s]>> : s \in still} = {p \in {<<s, r.root[s]>> : s \in quiet} : p[1] # c[1]}
  <2>1. \A s : <<s, r.root[s]>>[1] = s
    OBVIOUS
  <2> QED BY <1>2, <2>1
<1> QED BY <1>1, <1>3, <1>4, <1>5

LEMMA OptionsAfter ==
  ASSUME NEW o \in Maps, NEW c \in Pairs
  PROVE  /\ Builders!Updated(o, c) \in Maps
         /\ Options(Builders!Updated(o, c))
              = {p \in Options(o) : p[1] # c[1]} \cup ({c} \ {<<"where", "none">>})
<1>0. c = <<c[1], c[2]>> /\ c[1] \in Words /\ c[2] \in Words
  BY DEF Pairs
<1>1. PICK D \in SUBSET Words : o \in [D -> Words]
  BY DEF Maps
<1>2. CASE c = <<"where", "none">>
  <2> DEFINE u == [s \in D \ {"where"} |-> o[s]]
  <2>1. Builders!Updated(o, c) = u
    BY <1>1, <1>2 DEF Builders!Updated
  <2>2. u \in [D \ {"where"} -> Words] /\ D \ {"where"} \in SUBSET Words
    BY <1>1
  <2>3. u \in Maps
    BY <2>2 DEF Maps
  <2>4. DOMAIN u = D \ {"where"} /\ (\A s \in D \ {"where"} : u[s] = o[s]) /\ DOMAIN o = D
    BY <1>1
  <2> HIDE DEF u
  <2>5. Options(u) = {p \in Options(o) : p[1] # "where"}
    <3>1. \A s : <<s, o[s]>>[1] = s
      OBVIOUS
    <3> QED BY <2>4, <3>1 DEF Options
  <2>6. c[1] = "where" /\ {c} \ {<<"where", "none">>} = {}
    BY <1>2
  <2> QED BY <2>1, <2>3, <2>5, <2>6
<1>3. CASE c # <<"where", "none">>
  <2> DEFINE u == [t \in D \cup {c[1]} |-> IF t = c[1] THEN c[2] ELSE o[t]]
  <2>1. Builders!Updated(o, c) = u
    BY <1>1, <1>3 DEF Builders!Updated, Builders!With
  <2>2. u \in [D \cup {c[1]} -> Words] /\ D \cup {c[1]} \in SUBSET Words
    BY <1>0, <1>1
  <2>3. u \in Maps
    BY <2>2 DEF Maps
  <2>4. /\ DOMAIN u = D \cup {c[1]} /\ u[c[1]] = c[2] /\ DOMAIN o = D
        /\ \A s \in D : s # c[1] => u[s] = o[s]
    BY <1>1
  <2> HIDE DEF u
  <2>5. Options(u) = {p \in Options(o) : p[1] # c[1]} \cup {c}
    <3>1. \A s : <<s, o[s]>>[1] = s
      OBVIOUS
    <3>2. ASSUME NEW s \in DOMAIN u
          PROVE  <<s, u[s]>> \in {p \in Options(o) : p[1] # c[1]} \cup {c}
      <4>1. CASE s = c[1]
        BY <1>0, <2>4, <4>1
      <4>2. CASE s # c[1]
        <5>1. s \in DOMAIN o /\ u[s] = o[s]
          BY <2>4, <4>2
        <5> QED BY <3>1, <4>2, <5>1 DEF Options
      <4> QED BY <4>1, <4>2
    <3>3. ASSUME NEW s \in DOMAIN o, s # c[1] PROVE <<s, o[s]>> \in Options(u)
      <4>1. s \in DOMAIN u /\ u[s] = o[s]
        BY <2>4, <3>3
      <4> QED BY <4>1 DEF Options
    <3>4. c \in Options(u)
      BY <1>0, <2>4 DEF Options
    <3>5. Options(u) = {<<s, u[s]>> : s \in DOMAIN u} /\ Options(o) = {<<s, o[s]>> : s \in DOMAIN o}
      BY DEF Options
    <3> QED BY <3>1, <3>2, <3>3, <3>4, <3>5
  <2> QED BY <1>3, <2>1, <2>3, <2>5
<1> QED BY <1>2, <1>3

\* A setter says one thing more, of the copy alone.
LEMMA SetFaithful ==
  ASSUME NEW r, Faithful(r), kind \in BuilderKinds, NEW c \in Builders!Setters
  PROVE  Faithful([r EXCEPT !.options = Builders!Updated(@, c), !.calls = Append(@, c)])
<1> DEFINE next == [r EXCEPT !.options = Builders!Updated(@, c), !.calls = Append(@, c)]
           gone == {<<"where", "none">>}
<1>1. r \in [options : Maps, calls : Seq(Pairs), root : Maps]
  BY DEF Faithful
<1>2. r.options \in Maps /\ r.calls \in Seq(Pairs) /\ r.root \in Maps
  BY <1>1
<1>3. c \in Pairs
  <2>1. c \in Sayable \/ c = <<"where", "none">>
    BY DEF Sayable
  <2> QED BY <2>1, SayableNames, PairsOfWords, ZenonT(40) DEF Words
<1>4. /\ next.options = Builders!Updated(r.options, c) /\ next.calls = Append(r.calls, c)
      /\ next.root = r.root
  <2>1. r = [options |-> r.options, calls |-> r.calls, root |-> r.root]
    BY <1>1
  <2>2. next.options = Builders!Updated(r.options, c)
    BY <2>1
  <2>3. next.calls = Append(r.calls, c)
    BY <2>1
  <2>4. next.root = r.root
    BY <2>1
  <2> QED BY <2>2, <2>3, <2>4
<1>5. /\ Builders!Updated(r.options, c) \in Maps
      /\ Options(Builders!Updated(r.options, c))
           = {p \in Options(r.options) : p[1] # c[1]} \cup ({c} \ gone)
  BY <1>2, <1>3, OptionsAfter
<1>6. next \in [options : Maps, calls : Seq(Pairs), root : Maps]
  <2>1. Append(r.calls, c) \in Seq(Pairs)
    BY <1>2, <1>3
  <2> QED BY <1>1, <1>5, <2>1
<1> HIDE DEF next
<1>7. SaidOf(next) = {p \in SaidOf(r) : p[1] # c[1]} \cup {c}
  BY <1>2, <1>3, <1>4, SaidAfter
<1>8. Options(r.options) \subseteq Sayable /\ Options(r.options) = SaidOf(r) \ gone
  BY DEF Faithful
<1>9. {c} \ gone \subseteq Sayable
  BY DEF Sayable
<1> HIDE DEF gone
<1>10. Options(next.options) = SaidOf(next) \ gone /\ Options(next.options) \subseteq Sayable
  BY <1>4, <1>5, <1>7, <1>8, <1>9
<1>11. Faithful(next)
  BY <1>6, <1>10 DEF Faithful, gone
<1> QED BY <1>11 DEF next

\* What a builder starts with.
LEMMA RootIsMap ==
  ASSUME NEW o, NEW D \in SUBSET Words, o = [s \in D |-> o[s]],
         \A s \in D : o[s] \in Words /\ <<s, o[s]>> \in RootSays
  PROVE  o \in Maps /\ Options(o) \subseteq RootSays
<1>1. o \in [D -> Words]
  OBVIOUS
<1>2. o \in Maps
  BY <1>1 DEF Maps
<1>3. DOMAIN o = D
  BY <1>1
<1> QED BY <1>2, <1>3 DEF Options

LEMMA RootsAreMaps ==
  ASSUME kind \in BuilderKinds, headers \in {<< >>, [header |-> "1"], [header |-> "2"]},
         NEW o \in Builders!Roots
  PROVE  o \in Maps /\ Options(o) \subseteq RootSays
<1>0. {"what", "output", "before", "table", "data", "record", "one", "many", "name", "version",
       "1", "2", "args", "path", "header", "auth"} \subseteq Words
  BY DEF Words
<1>1. CASE kind = "delete"
  <2>1. RootSays = {<<"what", "record">>, <<"what", "table">>, <<"output", "before">>}
    BY <1>1 DEF RootSays
  <2>2. PICK w \in {"record", "table"} : o = [what |-> w, output |-> "before"]
    BY <1>1 DEF Builders!Roots
  <2>3. o \in Maps /\ Options(o) \subseteq RootSays
    <3>1. DOMAIN o = {"what", "output"} /\ o["what"] = w /\ o["output"] = "before"
      BY <2>2
    <3>2. o = [s \in {"what", "output"} |-> o[s]]
      BY <2>2
    <3>3. {"what", "output"} \in SUBSET Words /\ \A s \in {"what", "output"} : o[s] \in Words
      BY <1>0, <3>1
    <3>4. \A s \in {"what", "output"} : <<s, o[s]>> \in RootSays
      BY <2>1, <3>1
    <3> QED BY <3>2, <3>3, <3>4, RootIsMap
  <2> QED BY <2>3
<1>2. CASE kind = "insert"
  <2>1. RootSays = {<<"what", "data">>, <<"table", "table">>}
    BY <1>2 DEF RootSays
  <2>2. CASE o = [what |-> "data"]
    <3>1. DOMAIN o = {"what"} /\ o["what"] = "data"
      BY <2>2
    <3>2. o = [s \in {"what"} |-> o[s]]
      BY <2>2
    <3>3. {"what"} \in SUBSET Words /\ \A s \in {"what"} : o[s] \in Words
      BY <1>0, <3>1
    <3>4. \A s \in {"what"} : <<s, o[s]>> \in RootSays
      BY <2>1, <3>1
    <3> QED BY <3>2, <3>3, <3>4, RootIsMap
  <2>3. CASE o = [what |-> "data", table |-> "table"]
    <3>1. DOMAIN o = {"what", "table"} /\ o["what"] = "data" /\ o["table"] = "table"
      BY <2>3
    <3>2. o = [s \in {"what", "table"} |-> o[s]]
      BY <2>3
    <3>3. {"what", "table"} \in SUBSET Words /\ \A s \in {"what", "table"} : o[s] \in Words
      BY <1>0, <3>1
    <3>4. \A s \in {"what", "table"} : <<s, o[s]>> \in RootSays
      BY <2>1, <3>1
    <3> QED BY <3>2, <3>3, <3>4, RootIsMap
  <2> QED BY <1>2, <2>2, <2>3 DEF Builders!Roots
<1>3. CASE kind = "relate"
  <2>1. RootSays = {<<"what", "one">>, <<"what", "many">>, <<"data", "data">>}
    BY <1>3 DEF RootSays
  <2>2. CASE o = [what |-> "one"]
    <3>1. DOMAIN o = {"what"} /\ o["what"] = "one"
      BY <2>2
    <3>2. o = [s \in {"what"} |-> o[s]]
      BY <2>2
    <3>3. {"what"} \in SUBSET Words /\ \A s \in {"what"} : o[s] \in Words
      BY <1>0, <3>1
    <3>4. \A s \in {"what"} : <<s, o[s]>> \in RootSays
      BY <2>1, <3>1
    <3> QED BY <3>2, <3>3, <3>4, RootIsMap
  <2>3. CASE o = [what |-> "many"]
    <3>1. DOMAIN o = {"what"} /\ o["what"] = "many"
      BY <2>3
    <3>2. o = [s \in {"what"} |-> o[s]]
      BY <2>3
    <3>3. {"what"} \in SUBSET Words /\ \A s \in {"what"} : o[s] \in Words
      BY <1>0, <3>1
    <3>4. \A s \in {"what"} : <<s, o[s]>> \in RootSays
      BY <2>1, <3>1
    <3> QED BY <3>2, <3>3, <3>4, RootIsMap
  <2>4. CASE o = [what |-> "one", data |-> "data"]
    <3>1. DOMAIN o = {"what", "data"} /\ o["what"] = "one" /\ o["data"] = "data"
      BY <2>4
    <3>2. o = [s \in {"what", "data"} |-> o[s]]
      BY <2>4
    <3>3. {"what", "data"} \in SUBSET Words /\ \A s \in {"what", "data"} : o[s] \in Words
      BY <1>0, <3>1
    <3>4. \A s \in {"what", "data"} : <<s, o[s]>> \in RootSays
      BY <2>1, <3>1
    <3> QED BY <3>2, <3>3, <3>4, RootIsMap
  <2> QED BY <1>3, <2>2, <2>3, <2>4 DEF Builders!Roots
<1>4. CASE kind = "run"
  <2>1. RootSays = {<<"what", "name">>, <<"version", "1">>, <<"args", "1">>}
    BY <1>4 DEF RootSays
  <2>2. CASE o = [what |-> "name"]
    <3>1. DOMAIN o = {"what"} /\ o["what"] = "name"
      BY <2>2
    <3>2. o = [s \in {"what"} |-> o[s]]
      BY <2>2
    <3>3. {"what"} \in SUBSET Words /\ \A s \in {"what"} : o[s] \in Words
      BY <1>0, <3>1
    <3>4. \A s \in {"what"} : <<s, o[s]>> \in RootSays
      BY <2>1, <3>1
    <3> QED BY <3>2, <3>3, <3>4, RootIsMap
  <2>3. CASE o = [what |-> "name", version |-> "1"]
    <3>1. DOMAIN o = {"what", "version"} /\ o["what"] = "name" /\ o["version"] = "1"
      BY <2>3
    <3>2. o = [s \in {"what", "version"} |-> o[s]]
      BY <2>3
    <3>3. {"what", "version"} \in SUBSET Words /\ \A s \in {"what", "version"} : o[s] \in Words
      BY <1>0, <3>1
    <3>4. \A s \in {"what", "version"} : <<s, o[s]>> \in RootSays
      BY <2>1, <3>1
    <3> QED BY <3>2, <3>3, <3>4, RootIsMap
  <2>4. CASE o = [what |-> "name", args |-> "1"]
    <3>1. DOMAIN o = {"what", "args"} /\ o["what"] = "name" /\ o["args"] = "1"
      BY <2>4
    <3>2. o = [s \in {"what", "args"} |-> o[s]]
      BY <2>4
    <3>3. {"what", "args"} \in SUBSET Words /\ \A s \in {"what", "args"} : o[s] \in Words
      BY <1>0, <3>1
    <3>4. \A s \in {"what", "args"} : <<s, o[s]>> \in RootSays
      BY <2>1, <3>1
    <3> QED BY <3>2, <3>3, <3>4, RootIsMap
  <2> QED BY <1>4, <2>2, <2>3, <2>4 DEF Builders!Roots
<1>5. CASE kind = "auth"
  <2>1. RootSays = {<<"what", "auth">>}
    BY <1>5 DEF RootSays
  <2>2. o = [what |-> "auth"]
    BY <1>5 DEF Builders!Roots
  <2>3. o \in Maps /\ Options(o) \subseteq RootSays
    <3>1. DOMAIN o = {"what"} /\ o["what"] = "auth"
      BY <2>2
    <3>2. o = [s \in {"what"} |-> o[s]]
      BY <2>2
    <3>3. {"what"} \in SUBSET Words /\ \A s \in {"what"} : o[s] \in Words
      BY <1>0, <3>1
    <3>4. \A s \in {"what"} : <<s, o[s]>> \in RootSays
      BY <2>1, <3>1
    <3> QED BY <3>2, <3>3, <3>4, RootIsMap
  <2> QED BY <2>3
<1>6. CASE kind = "api"
  <2>1. RootSays = {<<"what", "path">>, <<"header", "1">>, <<"header", "2">>}
    BY <1>6 DEF RootSays
  <2>2. o = [t \in DOMAIN headers \cup {"what"} |-> IF t = "what" THEN "path" ELSE headers[t]]
    BY <1>6 DEF Builders!Roots, Builders!With
  <2>3. CASE headers = << >>
    <3>0. DOMAIN headers \cup {"what"} = {"what"}
      BY <2>3
    <3>1. DOMAIN o = {"what"} /\ o["what"] = "path" /\ o = [s \in {"what"} |-> o[s]]
      BY <2>2, <3>0
    <3>2. {"what"} \in SUBSET Words /\ \A s \in {"what"} : o[s] \in Words
      BY <1>0, <3>1
    <3>3. \A s \in {"what"} : <<s, o[s]>> \in RootSays
      BY <2>1, <3>1
    <3> QED BY <3>1, <3>2, <3>3, RootIsMap
  <2>4. ASSUME NEW v \in {"1", "2"}, headers = [header |-> v]
        PROVE  o \in Maps /\ Options(o) \subseteq RootSays
    <3> DEFINE D == {"what", "header"}
    <3>0. DOMAIN headers \cup {"what"} = D /\ headers["header"] = v
      BY <2>4
    <3>1. o["what"] = "path" /\ o["header"] = v /\ o = [s \in D |-> o[s]]
      BY <2>2, <3>0
    <3>2. D \in SUBSET Words /\ \A s \in D : o[s] \in Words
      BY <1>0, <3>1
    <3>3. \A s \in D : <<s, o[s]>> \in RootSays
      BY <2>1, <3>1
    <3> HIDE DEF D
    <3> QED BY <3>1, <3>2, <3>3, RootIsMap
  <2> QED BY <2>3, <2>4
<1>7. CASE kind \notin {"delete", "insert", "relate", "run", "api", "auth"}
  <2>1. RootSays = {<<"what", "record">>, <<"what", "table">>}
    BY <1>7 DEF RootSays
  <2>2. PICK w \in {"record", "table"} : o = [what |-> w]
    BY <1>7 DEF Builders!Roots
  <2>3. o \in Maps /\ Options(o) \subseteq RootSays
    <3>1. DOMAIN o = {"what"} /\ o["what"] = w
      BY <2>2
    <3>2. o = [s \in {"what"} |-> o[s]]
      BY <2>2
    <3>3. {"what"} \in SUBSET Words /\ \A s \in {"what"} : o[s] \in Words
      BY <1>0, <3>1
    <3>4. \A s \in {"what"} : <<s, o[s]>> \in RootSays
      BY <2>1, <3>1
    <3> QED BY <3>2, <3>3, <3>4, RootIsMap
  <2> QED BY <2>3
<1> QED BY <1>1, <1>2, <1>3, <1>4, <1>5, <1>6, <1>7

-----------------------------------------------------------------------------
(* The steps.                                                              *)

LEMMA BeginFaithful ==
  ASSUME kind \in BuilderKinds, headers \in {<< >>, [header |-> "1"], [header |-> "2"]},
         NEW o \in Builders!Roots
  PROVE  [options |-> o, calls |-> << >>, root |-> o] \in FaithfulBuilders
<1> DEFINE r == [options |-> o, calls |-> << >>, root |-> o]
<1>1. o \in Maps /\ Options(o) \subseteq RootSays
  BY RootsAreMaps
<1>2. r \in [options : Maps, calls : Seq(Pairs), root : Maps]
  BY <1>1
<1>3. r.options = o /\ r.calls = << >> /\ r.root = o
  OBVIOUS
<1> HIDE DEF r
<1>4. LastOf(r.calls) = {}
  BY <1>3 DEF LastOf
<1>5. SaidOf(r) = Options(o)
  BY <1>3, <1>4 DEF SaidOf, Options
<1>6. <<"where", "none">> \notin RootSays
  BY DEF RootSays
<1>7. Options(o) \subseteq Sayable
  BY <1>1 DEF Sayable
<1>8. Faithful(r)
  BY <1>1, <1>2, <1>3, <1>5, <1>6, <1>7 DEF Faithful
<1> QED BY <1>2, <1>8 DEF FaithfulBuilders, r

\* What a builder is compiled to is a query whose parameters are kept, and the
\* server reads the statement of it.
LEMMA CompiledIsKept ==
  ASSUME kind \in BuilderKinds, NEW r \in FaithfulBuilders, fresh \in Nat
  PROVE  /\ Builders!Bound(Builders!Statement(r.options)) \in KeptQueries
         /\ Builders!Clauses(Builders!Read(Builders!Bound(Builders!Statement(r.options))))
              \cup Builders!Options(r.options) = SaidOf(r) \ Builders!Unheard
<1> DEFINE s == Builders!Statement(r.options)
           q == Builders!Bound(s)
<1>1. /\ r.options \in Maps /\ Options(r.options) \subseteq Sayable
      /\ Options(r.options) = SaidOf(r) \ {<<"where", "none">>}
  BY DEF FaithfulBuilders, Faithful
<1>2. SaysAll(r.options)
  BY <1>1, SaysAllThatWasSet
<1>3. /\ s \in Seq(Pairs)
      /\ Builders!Clauses(s) \cup Builders!Options(r.options) = Options(r.options) \ Builders!Unheard
  BY <1>2 DEF SaysAll
<1> HIDE DEF s
<1>4. q \in Queries /\ ParametersKept(q)
  BY <1>3, BoundIsKept
<1>5. q.meant = s
  BY DEF Builders!Bound
<1> HIDE DEF q
<1>6. Builders!Read(q) = s
  BY <1>4, <1>5, KeptIsRead
<1>7. Options(r.options) \ Builders!Unheard = SaidOf(r) \ Builders!Unheard
  <2>1. <<"where", "none">> \in Builders!Unheard
    BY DEF Builders!Unheard
  <2> QED BY <1>1, <2>1
<1> QED BY <1>3, <1>4, <1>6, <1>7 DEF KeptQueries, q, s

LEMMA FaithfulStays ==
  ASSUME kind' = kind
  PROVE  FaithfulBuilders' = FaithfulBuilders
<1>1. Builders!Setters' = Builders!Setters
  BY DEF Builders!Setters, Builders!SelectSetters, Builders!CreateSetters, Builders!UpdateSetters,
    Builders!UpsertSetters, Builders!InsertSetters, Builders!RelateSetters,
    Builders!DeleteSetters,
    Builders!RunSetters, Builders!ApiSetters, Builders!AuthSetters, Builders!LiveSetters,
    Builders!Common, Builders!Output, Builders!Timed, Builders!Versioned, Builders!Where
<1>2. RootSays' = RootSays
  BY DEF RootSays
<1>3. Sayable' = Sayable
  BY <1>1, <1>2 DEF Sayable
<1> QED BY <1>3 DEF FaithfulBuilders, Faithful, Maps, Pairs, Words, Options, SaidOf, LastOf

LEMMA BuildersInit ==
  ASSUME Builders!Init
  PROVE  BuildInv
<1>1. << >> \in Seq(KeptQueries) /\ << >> \in Seq(FaithfulBuilders)
  OBVIOUS
<1>2. BoundInv
  BY <1>1 DEF Builders!Init, BoundInv
<1>3. BuilderInv
  BY <1>1 DEF Builders!Init, BuilderInv
<1>4. SentInv
  BY DEF Builders!Init, SentInv
<1> QED BY <1>2, <1>3, <1>4 DEF BuildInv

\* New builders do not change what was sent, nor what those before were told.
LEMMA SentStays ==
  ASSUME BuilderInv, SentInv, NEW r, builders' = Append(builders, r), UNCHANGED sent
  PROVE  SentInv'
<1>1. builders \in Seq(FaithfulBuilders) /\ Len(builders) \in Nat
  BY DEF BuilderInv
<1>2. Len(builders') = Len(builders) + 1 /\ \A b \in 1..Len(builders) : builders'[b] = builders[b]
  BY <1>1
<1>3. sent.by \in 0..(Len(builders) + 1)
  BY <1>1 DEF SentInv
<1>4. sent.by # 0 => sent.by \in 1..Len(builders)
  BY <1>1 DEF SentInv
<1>5. ASSUME sent.by # 0 PROVE sent.says = SaidOf(builders'[sent.by]) \ Builders!Unheard
  BY <1>2, <1>4, <1>5 DEF SentInv
<1> QED BY <1>2, <1>3, <1>5 DEF SentInv, Builders!Unheard

LEMMA BuildersStep ==
  ASSUME BuildInv, Builders!Next
  PROVE  BuildInv'
<1>0. /\ kind \in BuilderKinds /\ headers \in {<< >>, [header |-> "1"], [header |-> "2"]}
      /\ builders \in Seq(FaithfulBuilders) /\ Len(builders) \in Nat
      /\ DOMAIN builders = 1..Len(builders)
      /\ fresh \in Nat /\ bound \in Seq(KeptQueries) /\ Len(bound) \in Nat
      /\ DOMAIN bound = 1..Len(bound)
  BY DEF BuildInv, BuilderInv, BoundInv
<1>00. kind' = kind
  BY DEF Builders!Next, Builders!Header, Builders!Begin, Builders!Set, Builders!Compile,
    Builders!Create, Builders!AppendTo, Builders!Interpolate, Builders!Dispatch
<1>1. FaithfulBuilders' = FaithfulBuilders
  BY <1>00, FaithfulStays
<1>2. ASSUME builders' \in Seq(FaithfulBuilders), headers' = headers PROVE BuilderInv'
  BY <1>0, <1>00, <1>1, <1>2 DEF BuilderInv
<1>3. ASSUME UNCHANGED <<builders, sent>> PROVE SentInv'
  BY <1>3 DEF BuildInv, SentInv, SaidOf, LastOf, Builders!Unheard
<1>4. ASSUME fresh' \in Nat, bound' \in Seq(KeptQueries) PROVE BoundInv'
  BY <1>4 DEF BoundInv, KeptQueries, Queries, Texts, Words, Pairs, BindNames, ParametersKept,
     ClauseKept
<1>5. ASSUME NEW v \in {"1", "2"}, Builders!Header(v)
      PROVE  BuildInv'
  <2>1. headers' \in {<< >>, [header |-> "1"], [header |-> "2"]}
    BY <1>5 DEF Builders!Header
  <2>2. UNCHANGED <<kind, builders, bound, fresh, sent>>
    BY <1>5 DEF Builders!Header
  <2>3. BuilderInv'
    BY <1>0, <1>1, <2>1, <2>2 DEF BuilderInv
  <2> QED BY <1>0, <1>3, <1>4, <2>2, <2>3 DEF BuildInv
<1>6. CASE Builders!Begin
  <2>1. PICK o \in Builders!Roots :
          builders' = Append(builders, [options |-> o, calls |-> << >>, root |-> o])
    BY <1>6 DEF Builders!Begin
  <2>2. UNCHANGED <<headers, bound, fresh, sent>>
    BY <1>6 DEF Builders!Begin
  <2>3. [options |-> o, calls |-> << >>, root |-> o] \in FaithfulBuilders
    BY <1>0, BeginFaithful
  <2>4. builders' \in Seq(FaithfulBuilders)
    BY <1>0, <2>1, <2>3
  <2>5. SentInv'
    BY <2>1, <2>2, SentStays DEF BuildInv
  <2> QED BY <1>0, <1>2, <1>4, <2>2, <2>4, <2>5 DEF BuildInv
<1>7. CASE Builders!Set
  <2>1. PICK b \in DOMAIN builders, c \in Builders!Setters : Builders!Sets(b, c)
    BY <1>7 DEF Builders!Set
  <2>2. UNCHANGED <<headers, bound, fresh, sent>>
    BY <1>7 DEF Builders!Set
  <2> DEFINE r == builders[b]
             next == [r EXCEPT !.options = Builders!Updated(@, c), !.calls = Append(@, c)]
  <2>3. r \in [options : Maps, calls : Seq(Pairs), root : Maps] /\ Faithful(r)
    BY <1>0 DEF FaithfulBuilders
  <2>4. builders' = Append(builders, next)
    BY <2>1 DEF Builders!Sets
  <2> HIDE DEF r
  <2>5. Faithful(next)
    BY <1>0, <2>3, SetFaithful
  <2> HIDE DEF next
  <2>6. next \in FaithfulBuilders
    BY <2>5 DEF FaithfulBuilders, Faithful
  <2>7. builders' \in Seq(FaithfulBuilders)
    BY <1>0, <2>4, <2>6
  <2>8. SentInv'
    BY <2>2, <2>4, SentStays DEF BuildInv
  <2> QED BY <1>0, <1>2, <1>4, <2>2, <2>7, <2>8 DEF BuildInv
<1>8. CASE Builders!Compile
  <2>1. PICK b \in DOMAIN builders :
          bound' = Append(bound, Builders!Bound(Builders!Statement(builders[b].options)))
    BY <1>8 DEF Builders!Compile
  <2>2. UNCHANGED <<headers, builders, sent>> /\ fresh' = fresh + 12
    BY <1>8 DEF Builders!Compile
  <2>3. builders[b] \in FaithfulBuilders
    BY <1>0
  <2>4. Builders!Bound(Builders!Statement(builders[b].options)) \in KeptQueries
    BY <1>0, <2>3, CompiledIsKept
  <2>5. bound' \in Seq(KeptQueries) /\ fresh' \in Nat
    BY <1>0, <2>1, <2>2, <2>4
  <2> QED BY <1>0, <1>2, <1>3, <1>4, <2>2, <2>5 DEF BuildInv
<1>9. CASE Builders!Create
  <2>1. UNCHANGED <<headers, builders, fresh, sent>>
    BY <1>9 DEF Builders!Create
  <2>2. bound' \in Seq(KeptQueries)
    <3>1. ASSUME NEW v \in {"1", "2"}, bound' = Append(bound, Builders!Written(v))
          PROVE  bound' \in Seq(KeptQueries)
      <4>1. Builders!Written(v) \in KeptQueries
        BY WrittenIsKept DEF KeptQueries
      <4> QED BY <1>0, <3>1, <4>1
    <3>2. ASSUME NEW q \in DOMAIN bound, bound' = Append(bound, bound[q])
          PROVE  bound' \in Seq(KeptQueries)
      BY <1>0, <3>2
    <3> QED BY <1>9, <3>1, <3>2 DEF Builders!Create
  <2> QED BY <1>0, <1>2, <1>3, <1>4, <2>1, <2>2 DEF BuildInv
<1>10. CASE Builders!AppendTo
  <2>1. UNCHANGED <<headers, builders, fresh, sent>>
    BY <1>10 DEF Builders!AppendTo
  <2>2. PICK q \in DOMAIN bound,
             other \in {bound[r] : r \in DOMAIN bound} \cup {Builders!Written("1"), Builders!Written("2")} :
          bound' = [bound EXCEPT ![q] = Builders!Merge(@, other)]
    BY <1>10 DEF Builders!AppendTo
  <2>3. Builders!Written("1") \in KeptQueries /\ Builders!Written("2") \in KeptQueries
    BY WrittenIsKept DEF KeptQueries
  <2>4. other \in KeptQueries /\ bound[q] \in KeptQueries
    BY <1>0, <2>3
  <2>5. Builders!Merge(bound[q], other) \in KeptQueries
    BY <2>4, MergeIsKept DEF KeptQueries
  <2>6. bound' \in Seq(KeptQueries)
    BY <1>0, <2>2, <2>5
  <2> QED BY <1>0, <1>2, <1>3, <1>4, <2>1, <2>6 DEF BuildInv
<1>11. CASE Builders!Interpolate
  <2>1. UNCHANGED <<headers, builders, fresh, sent>>
    BY <1>11 DEF Builders!Interpolate
  <2>2. PICK q \in DOMAIN bound, r \in DOMAIN bound :
          bound' = Append(bound, Builders!Merge(bound[q], bound[r]))
    BY <1>11 DEF Builders!Interpolate
  <2>3. bound[q] \in KeptQueries /\ bound[r] \in KeptQueries
    BY <1>0
  <2>4. Builders!Merge(bound[q], bound[r]) \in KeptQueries
    BY <2>3, MergeIsKept DEF KeptQueries
  <2>5. bound' \in Seq(KeptQueries)
    BY <1>0, <2>2, <2>4
  <2> QED BY <1>0, <1>2, <1>3, <1>4, <2>1, <2>5 DEF BuildInv
<1>12. CASE Builders!Dispatch
  <2>1. PICK b \in DOMAIN builders :
          sent' = [by |-> b,
                   says |-> Builders!Clauses(Builders!Read(Builders!Bound(
                              Builders!Statement(builders[b].options))))
                            \cup Builders!Options(builders[b].options)]
    BY <1>12 DEF Builders!Dispatch
  <2>2. UNCHANGED <<headers, builders, bound>> /\ fresh' = fresh + 12
    BY <1>12 DEF Builders!Dispatch
  <2>3. builders[b] \in FaithfulBuilders
    BY <1>0
  <2>4. sent'.by = b /\ sent'.says = SaidOf(builders[b]) \ Builders!Unheard
    BY <1>0, <2>1, <2>3, CompiledIsKept
  <2>5. SentInv'
    BY <1>0, <2>2, <2>4 DEF SentInv, Builders!Unheard, SaidOf, LastOf
  <2> QED BY <1>0, <1>2, <1>4, <2>2, <2>5 DEF BuildInv
<1> QED BY <1>5, <1>6, <1>7, <1>8, <1>9, <1>10, <1>11, <1>12 DEF Builders!Next

LEMMA BuildersRest ==
  ASSUME BuildInv, UNCHANGED builderVars
  PROVE  BuildInv'
<1>1. UNCHANGED <<kind, headers, builders, bound, fresh, sent>>
  BY DEF builderVars
<1>2. FaithfulBuilders' = FaithfulBuilders
  BY <1>1, FaithfulStays
<1>3. BuilderInv'
  BY <1>1, <1>2 DEF BuildInv, BuilderInv
<1>4. SentInv'
  BY <1>1 DEF BuildInv, SentInv, SaidOf, LastOf, Builders!Unheard
<1>5. BoundInv'
  BY <1>1 DEF BuildInv, BoundInv, KeptQueries, Queries, Texts, Words, Pairs, BindNames,
    ParametersKept, ClauseKept
<1> QED BY <1>3, <1>4, <1>5 DEF BuildInv

LEMMA FaithfulIsSaid ==
  ASSUME BuildInv
  PROVE  Builders!SaysWhatWasSaid /\ Builders!ReadAsMeant
<1>1. ASSUME sent.by # 0
      PROVE  sent.says = Builders!Said(sent.by) \ Builders!Unheard
  BY <1>1 DEF BuildInv, SentInv, SaidOf, LastOf, Builders!Said
<1>2. ASSUME NEW q \in DOMAIN bound
      PROVE  Builders!Read(bound[q]) = bound[q].meant
  <2>1. bound[q] \in KeptQueries
    BY DEF BuildInv, BoundInv
  <2> QED BY <2>1, KeptIsRead DEF KeptQueries
<1> QED BY <1>1, <1>2 DEF Builders!SaysWhatWasSaid, Builders!ReadAsMeant

(* Whatever builders are made of one another, set, compiled and sent in    *)
(* whatever order, and however queries are appended and interpolated, what *)
(* is sent is what was said last, and every parameter has its value        *)
(* (query/*.ts, bound-query.ts, tagged-template.ts).                       *)
THEOREM StatementsSay == DataSpec => []BuildersSay
<1> DEFINE I == part = "builders" => BuildInv
<1>1. DataInit => I
  BY BuildersInit DEF DataInit
<1>2. I /\ [DataNext]_dataVars => I'
  <2>1. ASSUME I, DataNext, part = "builders" PROVE I'
    <3>1. Builders!Next /\ BuildInv
      BY <2>1 DEF DataNext
    <3> QED BY <3>1, BuildersStep
  <2>2. ASSUME I, part # "builders", part' = part PROVE I'
    BY <2>2
  <2>3. ASSUME I, UNCHANGED dataVars PROVE I'
    <3>1. UNCHANGED builderVars /\ part' = part
      BY <2>3 DEF dataVars
    <3> QED BY <2>3, <3>1, BuildersRest
  <2> QED BY <2>1, <2>2, <2>3 DEF DataNext
<1>3. I => BuildersSay
  BY FaithfulIsSaid DEF BuildersSay
<1> QED BY <1>1, <1>2, <1>3, PTL DEF DataSpec

(* The server is told what the application meant, and the application what *)
(* the server meant (query/*.ts, parse-error.ts).                          *)
THEOREM MeantIsSaid == DataSpec => []SaysWhatWasMeant
<1>1. BuildersSay /\ ErrorsAreTold => SaysWhatWasMeant
  BY DEF SaysWhatWasMeant
<1> QED BY <1>1, StatementsSay, ErrorsTold, PTL

-----------------------------------------------------------------------------
(* Durations and dates: the arithmetic of whole parts.                     *)

\* A multiple of a number that is less than the number is none.
LEMMA NoMultiple ==
  ASSUME NEW b \in Nat \ {0}, NEW k \in Int, b * k < b, -b < b * k
  PROVE  k = 0
<1>1. CASE k >= 1
  <2>1. b * k >= b
    BY <1>1
  <2> QED BY <2>1
<1>2. CASE k <= -1
  <2>1. b * k <= -b
    BY <1>2
  <2> QED BY <2>1
<1> QED BY <1>1, <1>2

LEMMA Divides ==
  ASSUME NEW a \in Nat, NEW b \in Nat \ {0}
  PROVE  \E q \in Nat, r \in Nat :
           a \div b = q /\ a % b = r /\ r < b /\ b * q \in Nat /\ a = b * q + r
<1>1. a \div b \in Int /\ a \div b >= 0
  OBVIOUS
<1>2. a % b \in Nat /\ a % b < b
  OBVIOUS
<1>3. a % b = a - b * (a \div b)
  OBVIOUS
<1> DEFINE q == a \div b
           r == a % b
           p == b * q
<1>4. q \in Nat /\ r \in Nat /\ r < b /\ r = a - p
  BY <1>1, <1>2, <1>3
<1> HIDE DEF q, r
<1>5. p \in Nat
  BY <1>4
<1> HIDE DEF p
<1>6. a = p + r
  BY <1>4, <1>5
<1>7. p = b * q /\ a \div b = q /\ a % b = r
  BY DEF p, q, r
<1> QED BY <1>4, <1>5, <1>6, <1>7

LEMMA QuotOfNat ==
  ASSUME NEW a \in Nat, NEW b \in Nat \ {0}
  PROVE  Times!Quot(a, b) = a \div b
<1>1. ~(a < 0) /\ ~(b < 0)
  OBVIOUS
<1>2. Times!Abs(a) = a /\ Times!Abs(b) = b
  BY <1>1 DEF Times!Abs
<1> QED BY <1>1, <1>2 DEF Times!Quot

LEMMA QuotOfNegative ==
  ASSUME NEW a \in Nat \ {0}, NEW b \in Nat \ {0}
  PROVE  Times!Quot(-a, b) = -(a \div b)
<1>1. -a < 0 /\ ~(b < 0)
  OBVIOUS
<1>2. Times!Abs(-a) = a /\ Times!Abs(b) = b
  BY <1>1 DEF Times!Abs
<1>3. (-a < 0) # (b < 0)
  BY <1>1
<1> QED BY <1>2, <1>3 DEF Times!Quot

\* The whole part and the rest make the number up, and have its sign.
LEMMA QuotAndRem ==
  ASSUME NEW a \in Int, NEW b \in Nat \ {0}
  PROVE  /\ Times!Quot(a, b) \in Int /\ Times!Rem(a, b) \in Int
         /\ b * Times!Quot(a, b) \in Int
         /\ a = b * Times!Quot(a, b) + Times!Rem(a, b)
         /\ a >= 0 => Times!Quot(a, b) >= 0 /\ 0 <= Times!Rem(a, b) /\ Times!Rem(a, b) < b
         /\ a <= 0 => Times!Quot(a, b) <= 0 /\ -b < Times!Rem(a, b) /\ Times!Rem(a, b) <= 0
<1>2. CASE a >= 0
  <2>0. PICK q \in Nat, r \in Nat :
          a \div b = q /\ r < b /\ b * q \in Nat /\ a = b * q + r
    BY <1>2, Divides
  <2> DEFINE p == b * q
  <2>1. q \in Nat /\ p \in Nat /\ r \in Nat /\ r < b /\ a = p + r
    BY <2>0
  <2>2. Times!Quot(a, b) = q
    BY <1>2, <2>0, QuotOfNat
  <2>3. Times!Rem(a, b) = a - p
    BY <2>2 DEF Times!Rem
  <2>4. b * Times!Quot(a, b) = p
    BY <2>2
  <2>5. a = 0 => q = 0
    <3>1. ASSUME a = 0, q >= 1 PROVE FALSE
      <4>1. b * q >= b
        BY <2>1, <3>1
      <4> HIDE DEF p
      <4>2. p >= b
        BY <4>1 DEF p
      <4> QED BY <2>1, <3>1, <4>2
    <3> QED BY <2>1, <3>1
  <2> HIDE DEF p
  <2>6. Times!Rem(a, b) = r
    BY <2>1, <2>3
  <2>7. a <= 0 => q <= 0 /\ -b < r /\ r <= 0
    BY <1>2, <2>1, <2>5
  <2> QED BY <1>2, <2>1, <2>2, <2>4, <2>6, <2>7
<1>3. CASE a < 0
  <2> DEFINE m == -a
  <2>1. m \in Nat \ {0} /\ a = -m
    BY <1>3
  <2> HIDE DEF m
  <2>0. PICK q \in Nat, r \in Nat :
          m \div b = q /\ r < b /\ b * q \in Nat /\ m = b * q + r
    BY <2>1, Divides
  <2> DEFINE p == b * q
  <2>2. q \in Nat /\ p \in Nat /\ r \in Nat /\ r < b /\ m = p + r
    BY <2>0
  <2>3. Times!Quot(a, b) = -q
    BY <2>0, <2>1, QuotOfNegative
  <2>4. b * Times!Quot(a, b) = -p
    BY <2>2, <2>3
  <2>5. Times!Rem(a, b) = a - (-p)
    BY <2>4 DEF Times!Rem
  <2> HIDE DEF p
  <2>6. Times!Rem(a, b) = -r
    BY <2>1, <2>2, <2>5
  <2> QED BY <1>3, <2>1, <2>2, <2>3, <2>4, <2>6
<1> QED BY <1>2, <1>3

\* There is one such part and one such rest.
LEMMA OneQuotAndRem ==
  ASSUME NEW a \in Int, NEW b \in Nat \ {0}, NEW q \in Int, NEW r \in Int, a = b * q + r,
         (a >= 0 /\ 0 <= r /\ r < b) \/ (a <= 0 /\ -b < r /\ r <= 0)
  PROVE  Times!Quot(a, b) = q /\ Times!Rem(a, b) = r
<1> DEFINE p == Times!Quot(a, b)
           s == Times!Rem(a, b)
<1>1. p \in Int /\ s \in Int /\ a = b * p + s
  BY QuotAndRem
<1>2. -b < s - r /\ s - r < b
  <2>1. a >= 0 => 0 <= s /\ s < b
    BY QuotAndRem
  <2>2. a <= 0 => -b < s /\ s <= 0
    BY QuotAndRem
  <2>3. CASE a >= 0 /\ 0 <= r /\ r < b
    <3> HIDE DEF s
    <3> QED BY <1>1, <2>1, <2>3
  <2>4. CASE a <= 0 /\ -b < r /\ r <= 0
    <3> HIDE DEF s
    <3> QED BY <1>1, <2>2, <2>4
  <2> QED BY <2>3, <2>4
<1> HIDE DEF p, s
<1>3. b * (q - p) = b * q - b * p
  BY <1>1
<1>4. b * q \in Int /\ b * p \in Int
  BY <1>1
<1>5. b * (q - p) = s - r
  BY <1>1, <1>3, <1>4
<1>6. q - p = 0
  BY <1>1, <1>2, <1>5, NoMultiple
<1>7. p = q
  BY <1>1, <1>6
<1>8. s = r
  BY <1>1, <1>4, <1>7
<1> QED BY <1>7, <1>8 DEF p, s

\* A number of nanoseconds in its one form.
Canon(n) == Times!Parts(Times!Quot(n, Times!SECOND), Times!Rem(n, Times!SECOND))

LEMMA ProductOfNats ==
  ASSUME NEW a \in Nat \ {0}, NEW b \in Nat \ {0}
  PROVE  a * b \in Nat \ {0}
<1>1. a * b >= a
  OBVIOUS
<1>2. a * b \in Nat
  OBVIOUS
<1> QED BY <1>1, <1>2

\* Every unit is a part of a second, or a number of seconds.
LEMMA UnitsAndSeconds ==
  /\ Times!SECOND \in Nat \ {0} /\ Times!MILLISECOND \in Nat \ {0} /\ Thousand \in Nat \ {0}
  /\ Times!SECOND = Thousand * Times!MILLISECOND
  /\ \A i \in 1..9 :
       /\ Times!UNITS[i] \in Nat \ {0}
       /\ i <= 4 => \E k \in Nat \ {0} : Times!SECOND = Times!UNITS[i] * k
       /\ i >= 4 => \E k \in Nat \ {0} : Times!UNITS[i] = Times!SECOND * k
<1> DEFINE m == Times!MICROSECOND
           l == Times!MILLISECOND
           s == Times!SECOND
<1>0. {Thousand, Sixty, HoursPerDay, DaysPerWeek, DaysPerYear} \subseteq Nat \ {0}
  BY DataAssumption
<1>1. m = Thousand /\ l = Thousand * m /\ s = Thousand * l
  BY DEF Times!MICROSECOND, Times!MILLISECOND, Times!SECOND
<1> HIDE DEF m, l, s
<1>2. m \in Nat \ {0} /\ l \in Nat \ {0} /\ s \in Nat \ {0}
  BY <1>0, <1>1, ProductOfNats
<1>3. Times!UNITS[1] = 1 /\ Times!UNITS[2] = m /\ Times!UNITS[3] = l /\ Times!UNITS[4] = s
  BY DEF Times!UNITS, Times!NANOSECOND, m, l, s
<1>4. /\ Times!UNITS[5] = Sixty * s /\ Times!UNITS[6] = Sixty * Times!UNITS[5]
      /\ Times!UNITS[7] = HoursPerDay * Times!UNITS[6]
      /\ Times!UNITS[8] = DaysPerWeek * Times!UNITS[7]
      /\ Times!UNITS[9] = DaysPerYear * Times!UNITS[7]
  BY DEF Times!UNITS, Times!MINUTE, Times!HOUR, Times!DAY, Times!WEEK, Times!YEAR, s
<1>5. \A k, n \in Nat \ {0} : k * (s * n) = s * (k * n)
  BY <1>2
<1>6. ASSUME NEW u, NEW v, NEW k \in Nat \ {0}, v = k * u,
             \E n \in Nat \ {0} : u = s * n
      PROVE  \E n \in Nat \ {0} : v = s * n
  <2>1. PICK n \in Nat \ {0} : u = s * n
    BY <1>6
  <2>2. k * n \in Nat \ {0} /\ v = s * (k * n)
    BY <1>5, <1>6, <2>1, ProductOfNats
  <2> QED BY <2>2
<1>7. \E n \in Nat \ {0} : Times!UNITS[4] = s * n
  <2>1. s = s * 1
    BY <1>2
  <2> QED BY <1>3, <2>1
<1>8. \E n \in Nat \ {0} : Times!UNITS[5] = s * n
  BY <1>0, <1>3, <1>4, <1>6, <1>7
<1>9. \E n \in Nat \ {0} : Times!UNITS[6] = s * n
  BY <1>0, <1>4, <1>6, <1>8
<1>10. \E n \in Nat \ {0} : Times!UNITS[7] = s * n
  BY <1>0, <1>4, <1>6, <1>9
<1>11. \E n \in Nat \ {0} : Times!UNITS[8] = s * n
  BY <1>0, <1>4, <1>6, <1>10
<1>12. \E n \in Nat \ {0} : Times!UNITS[9] = s * n
  BY <1>0, <1>4, <1>6, <1>10
<1>13. \E n \in Nat \ {0} : s = Times!UNITS[1] * n
  BY <1>2, <1>3
<1>14. \E n \in Nat \ {0} : s = Times!UNITS[2] * n
  <2>1. s = m * l /\ l \in Nat \ {0}
    BY <1>1, <1>2
  <2> QED BY <1>3, <2>1
<1>15. \E n \in Nat \ {0} : s = Times!UNITS[3] * n
  <2>1. s = l * m
    BY <1>1, <1>2
  <2> QED BY <1>2, <1>3, <2>1
<1>16. \E n \in Nat \ {0} : s = Times!UNITS[4] * n
  <2>1. s = s * 1
    BY <1>2
  <2> QED BY <1>3, <2>1
<1>17. ASSUME NEW i \in 4..9 PROVE \E n \in Nat \ {0} : Times!UNITS[i] = s * n
  <2>1. i = 4 \/ i = 5 \/ i = 6 \/ i = 7 \/ i = 8 \/ i = 9
    OBVIOUS
  <2> QED BY <1>7, <1>8, <1>9, <1>10, <1>11, <1>12, <2>1
<1>18. ASSUME NEW i \in 1..4 PROVE \E n \in Nat \ {0} : s = Times!UNITS[i] * n
  <2>1. i = 1 \/ i = 2 \/ i = 3 \/ i = 4
    OBVIOUS
  <2> QED BY <1>13, <1>14, <1>15, <1>16, <2>1
<1>19. ASSUME NEW i \in 1..9 PROVE Times!UNITS[i] \in Nat \ {0}
  <2>1. CASE i >= 4
    <3>1. i \in 4..9
      BY <2>1
    <3>2. PICK n \in Nat \ {0} : Times!UNITS[i] = s * n
      BY <1>17, <3>1
    <3> QED BY <1>2, <3>2, ProductOfNats
  <2>2. CASE i < 4
    <3>1. i = 1 \/ i = 2 \/ i = 3
      BY <2>2
    <3> QED BY <1>2, <1>3, <3>1
  <2> QED BY <2>1, <2>2
<1>20. \A i \in 1..9 : (i <= 4 => i \in 1..4) /\ (i >= 4 => i \in 4..9)
  OBVIOUS
<1> QED BY <1>0, <1>1, <1>2, <1>17, <1>18, <1>19, <1>20 DEF l, s

LEMMA TotalOfCanon ==
  ASSUME NEW n \in Int
  PROVE  /\ Times!Total(Canon(n)) = n
         /\ Canon(n).s \in Int /\ Canon(n).ns \in Int /\ Canon(n).s * Times!SECOND \in Int
         /\ Canon(n).s = Times!Quot(n, Times!SECOND) /\ Canon(n).ns = Times!Rem(n, Times!SECOND)
         /\ Canon(n) = [s |-> Canon(n).s, ns |-> Canon(n).ns]
<1> DEFINE q == Times!Quot(n, Times!SECOND)
           r == Times!Rem(n, Times!SECOND)
           s == Times!SECOND
<1>1. s \in Nat \ {0}
  BY UnitsAndSeconds
<1>2. q \in Int /\ r \in Int /\ s * q \in Int /\ n = s * q + r
  BY <1>1, QuotAndRem
<1>3. Canon(n) = [s |-> q, ns |-> r]
  BY DEF Canon, Times!Parts
<1> HIDE DEF q, r, s
<1>4. q * s = s * q
  BY <1>1, <1>2
<1>5. Times!Total([s |-> q, ns |-> r]) = q * s + r
  BY DEF Times!Total, s
<1>6. q * s + r = n
  BY <1>2, <1>4
<1> QED BY <1>2, <1>3, <1>4, <1>5, <1>6 DEF q, r, s

LEMMA DurationIs ==
  ASSUME NEW sec, NEW ns
  PROVE  Times!Duration(sec, ns) = Canon(sec * Times!SECOND + ns)
  BY DEF Times!Duration, Canon

LEMMA OfNanosecondsIs ==
  ASSUME NEW n \in Int
  PROVE  Times!OfNanoseconds(n) = Canon(n)
<1>1. Times!OfNanoseconds(n) = Canon(Times!Quot(n, Times!SECOND) * Times!SECOND + Times!Rem(n, Times!SECOND))
  BY DurationIs DEF Times!OfNanoseconds
<1>2. Times!Quot(n, Times!SECOND) * Times!SECOND + Times!Rem(n, Times!SECOND) = n
  <2>1. Times!Total(Canon(n)) = n
    BY TotalOfCanon
  <2> QED BY <2>1 DEF Times!Total, Canon, Times!Parts
<1> QED BY <1>1, <1>2

LEMMA ExactQuotient ==
  ASSUME NEW b \in Nat \ {0}, NEW k \in Nat
  PROVE  (b * k) \div b = k
<1>1. b * k \in Nat /\ b * k = b * k + 0
  OBVIOUS
<1>2. Times!Quot(b * k, b) = k
  BY <1>1, OneQuotAndRem
<1> QED BY <1>1, <1>2, QuotOfNat

\* Units of at least a second are numbers of seconds.
LEMMA LargeUnits ==
  ASSUME NEW i \in 1..9, Times!UNITS[i] >= Times!SECOND
  PROVE  \E k \in Nat \ {0} : Times!UNITS[i] = Times!SECOND * k /\ Times!UNITS[i] \div Times!SECOND = k
<1> DEFINE s == Times!SECOND
           u == Times!UNITS[i]
<1>1. s \in Nat \ {0} /\ u \in Nat \ {0}
  BY UnitsAndSeconds
<1>2. \E k \in Nat \ {0} : u = s * k
  <2>1. CASE i >= 4
    BY <2>1, UnitsAndSeconds
  <2>2. CASE i < 4
    <3>1. PICK k \in Nat \ {0} : s = u * k
      BY <2>2, UnitsAndSeconds
    <3> HIDE DEF s, u
    <3>2. u * k >= u
      BY <1>1
    <3>3. s = u
      BY <1>1, <3>1, <3>2 DEF s, u
    <3>4. u = s * 1
      BY <1>1, <3>3
    <3> QED BY <3>4
  <2> QED BY <2>1, <2>2
<1> HIDE DEF s, u
<1>3. PICK k \in Nat \ {0} : u = s * k
  BY <1>2
<1>4. u \div s = k
  BY <1>1, <1>3, ExactQuotient
<1> QED BY <1>3, <1>4 DEF s, u

\* Units of at most a second make it up.
LEMMA OfUnitIs ==
  ASSUME NEW n \in Int, NEW i \in 1..9
  PROVE  Times!OfUnit(n, Times!UNITS[i]) = Canon(n * Times!UNITS[i])
<1> DEFINE s == Times!SECOND
           u == Times!UNITS[i]
<1>1. s \in Nat \ {0} /\ u \in Nat \ {0}
  BY UnitsAndSeconds
<1>2. CASE u >= s
  <2>1. PICK k \in Nat \ {0} : u = s * k /\ u \div s = k
    BY <1>2, LargeUnits
  <2>2. Times!OfUnit(n, u) = Canon((n * k) * s + 0)
    BY <1>2, <2>1, DurationIs DEF Times!OfUnit
  <2> HIDE DEF s, u
  <2>3. (n * k) * s + 0 = n * (s * k)
    BY <1>1
  <2> QED BY <2>1, <2>2, <2>3 DEF u
<1>3. CASE ~(u >= s)
  <2>1. n * u \in Int
    BY <1>1
  <2> QED BY <1>3, <2>1, OfNanosecondsIs DEF Times!OfUnit
<1> QED BY <1>2, <1>3

LEMMA OfFloatIs ==
  ASSUME NEW n \in Nat, NEW f \in Nat, NEW scale \in Nat \ {0}, NEW u \in Nat \ {0}
  PROVE  /\ Times!OfFloat(n, f, scale, u) = Canon(((n * scale + f) * u) \div scale)
         /\ ((n * scale + f) * u) \div scale \in Nat
<1> DEFINE m == (n * scale + f) * u
<1>1. m \in Nat
  <2>1. n * scale + f \in Nat
    OBVIOUS
  <2> QED BY <2>1
<1> HIDE DEF m
<1>2. m \div scale \in Nat /\ Times!Quot(m, scale) = m \div scale
  BY <1>1, QuotOfNat, Divides
<1> QED BY <1>2, OfNanosecondsIs DEF Times!OfFloat, m

\* Adding and carrying a second; subtracting and borrowing one.
LEMMA Carried ==
  ASSUME NEW s \in Int, NEW i \in Int, NEW j \in Int, NEW k \in Int, NEW l \in Int
  PROVE  /\ (i + j + 1) * s + (k + l - s) = (i * s + k) + (j * s + l)
         /\ (i + j) * s + (k + l) = (i * s + k) + (j * s + l)
         /\ (i - j - 1) * s + (k - l + s) = (i * s + k) - (j * s + l)
         /\ (i - j) * s + (k - l) = (i * s + k) - (j * s + l)
<1>1. i * s \in Int /\ j * s \in Int
  OBVIOUS
<1>2. (i + j + 1) * s = i * s + j * s + s /\ (i + j) * s = i * s + j * s
  OBVIOUS
<1>3. (i - j - 1) * s = i * s - j * s - s /\ (i - j) * s = i * s - j * s
  OBVIOUS
<1> QED BY <1>1, <1>2, <1>3

LEMMA PartsAdded ==
  ASSUME NEW i \in Int, NEW j \in Int, NEW k \in Int, NEW l \in Int
  PROVE  LET s == Times!SECOND  a == [s |-> i, ns |-> k]  b == [s |-> j, ns |-> l] IN
         /\ Times!AddSpans(a, b) = Canon((i * s + k) + (j * s + l))
         /\ Times!SubSpans(a, b) = Canon((i * s + k) - (j * s + l))
<1> DEFINE s == Times!SECOND
           a == [s |-> i, ns |-> k]
           b == [s |-> j, ns |-> l]
<1>1. s \in Int
  BY UnitsAndSeconds
<1>2. a.s = i /\ a.ns = k /\ b.s = j /\ b.ns = l
  OBVIOUS
<1> HIDE DEF s, a, b
<1>3. \A x, y : Times!Duration(x, y) = Canon(x * s + y)
  BY DurationIs DEF s
<1>4. Times!AddSpans(a, b) = IF k + l >= s THEN Times!Duration(i + j + 1, k + l - s)
                             ELSE Times!Duration(i + j, k + l)
  BY <1>1, <1>2 DEF Times!AddSpans, s
<1>5. Times!SubSpans(a, b) = IF k - l < 0 THEN Times!Duration(i - j - 1, k - l + s)
                             ELSE Times!Duration(i - j, k - l)
  BY <1>2 DEF Times!SubSpans, s
<1>6. Times!AddSpans(a, b) = Canon((i * s + k) + (j * s + l))
  <2>1. (i + j + 1) * s + (k + l - s) = (i * s + k) + (j * s + l)
    BY <1>1, Carried
  <2>2. (i + j) * s + (k + l) = (i * s + k) + (j * s + l)
    BY <1>1, Carried
  <2> QED BY <1>3, <1>4, <2>1, <2>2, Zenon
<1>7. Times!SubSpans(a, b) = Canon((i * s + k) - (j * s + l))
  <2>1. (i - j - 1) * s + (k - l + s) = (i * s + k) - (j * s + l)
    BY <1>1, Carried
  <2>2. (i - j) * s + (k - l) = (i * s + k) - (j * s + l)
    BY <1>1, Carried
  <2> QED BY <1>3, <1>5, <2>1, <2>2, Zenon
<1> QED BY <1>6, <1>7 DEF s, a, b

LEMMA AddSpansIs ==
  ASSUME NEW m \in Int, NEW n \in Int
  PROVE  /\ Times!AddSpans(Canon(m), Canon(n)) = Canon(m + n)
         /\ Times!SubSpans(Canon(m), Canon(n)) = Canon(m - n)
<1> DEFINE s == Times!SECOND
           i == Canon(m).s  k == Canon(m).ns
           j == Canon(n).s  l == Canon(n).ns
<1>1. i \in Int /\ k \in Int /\ j \in Int /\ l \in Int
  BY TotalOfCanon
<1>2. i * s + k = m /\ j * s + l = n
  BY TotalOfCanon DEF Times!Total
<1>3. Canon(m) = [s |-> i, ns |-> k] /\ Canon(n) = [s |-> j, ns |-> l]
  BY TotalOfCanon
<1> HIDE DEF i, j, k, l
<1>4. /\ Times!AddSpans(Canon(m), Canon(n)) = Canon((i * s + k) + (j * s + l))
      /\ Times!SubSpans(Canon(m), Canon(n)) = Canon((i * s + k) - (j * s + l))
  BY <1>1, <1>3, PartsAdded
<1> QED BY <1>2, <1>4

LEMMA OtherSpansAre ==
  ASSUME NEW m \in Int, NEW n \in Nat
  PROVE  /\ Times!Times(Canon(m), n) = Canon(m * n)
         /\ n # 0 => Times!Divided(Canon(m), n) = Canon(Times!Quot(m, n))
         /\ n # 0 => Times!Modulo(Canon(m), Canon(n)) = Canon(Times!Rem(m, n))
         /\ n # 0 => Times!Ratio(Canon(m), Canon(n)) = Times!Quot(m, n)
<1>1. Times!Total(Canon(m)) = m /\ Times!Total(Canon(n)) = n /\ m * n \in Int
  BY TotalOfCanon
<1>2. n # 0 => Times!Quot(m, n) \in Int /\ Times!Rem(m, n) \in Int
  BY QuotAndRem
<1>3. Times!Times(Canon(m), n) = Canon(m * n)
  BY <1>1, OfNanosecondsIs DEF Times!Times
<1>4. n # 0 => Times!Divided(Canon(m), n) = Canon(Times!Quot(m, n))
  BY <1>1, <1>2, OfNanosecondsIs DEF Times!Divided
<1>5. n # 0 => Times!Modulo(Canon(m), Canon(n)) = Canon(Times!Rem(m, n))
  BY <1>1, <1>2, OfNanosecondsIs DEF Times!Modulo
<1>6. n # 0 => Times!Ratio(Canon(m), Canon(n)) = Times!Quot(m, n)
  BY <1>1 DEF Times!Ratio
<1> QED BY <1>3, <1>4, <1>5, <1>6

\* A sum of nonnegative instants whose nanoseconds may exceed a second.
LEMMA DateTimeIs ==
  ASSUME NEW sec \in Int, NEW ns \in Nat, sec * Times!SECOND + ns >= 0
  PROVE  Times!DateTime(sec, ns) = Canon(sec * Times!SECOND + ns)
<1> DEFINE s == Times!SECOND
           q == Times!Quot(ns, s)
           r == Times!Rem(ns, s)
           n == sec * s + ns
<1>1. s \in Nat \ {0}
  BY UnitsAndSeconds
<1>2. q \in Int /\ r \in Int /\ ns = s * q + r /\ 0 <= r /\ r < s
  BY <1>1, QuotAndRem
<1>3. Times!DateTime(sec, ns) = Times!Parts(sec + q, r)
  BY DEF Times!DateTime
<1>4. n >= 0
  OBVIOUS
<1> HIDE DEF s, q, r
<1>5. n \in Int /\ n = s * (sec + q) + r
  BY <1>1, <1>2
<1> HIDE DEF n
<1>6. Times!Quot(n, s) = sec + q /\ Times!Rem(n, s) = r
  BY <1>1, <1>2, <1>4, <1>5, OneQuotAndRem
<1> QED BY <1>3, <1>6 DEF Canon, n, s

\* The parts of an instant are not negative.
LEMMA PartsOfNat ==
  ASSUME NEW n \in Nat
  PROVE  /\ Canon(n).s \in Nat /\ Canon(n).ns \in Nat /\ Canon(n).ns < Times!SECOND
         /\ Canon(n) = [s |-> Canon(n).s, ns |-> Canon(n).ns]
         /\ Canon(n).s * Times!SECOND + Canon(n).ns = n
<1>1. Times!SECOND \in Nat \ {0}
  BY UnitsAndSeconds
<1>2. /\ Times!Quot(n, Times!SECOND) \in Int /\ Times!Rem(n, Times!SECOND) \in Int
      /\ Times!Quot(n, Times!SECOND) >= 0 /\ 0 <= Times!Rem(n, Times!SECOND)
      /\ Times!Rem(n, Times!SECOND) < Times!SECOND
  BY <1>1, QuotAndRem
<1>3. Canon(n).s * Times!SECOND + Canon(n).ns = n
  BY TotalOfCanon DEF Times!Total
<1> QED BY <1>2, <1>3, TotalOfCanon

LEMMA OfDateIs ==
  ASSUME NEW ms \in Nat
  PROVE  Times!OfDate(ms) = Canon(ms * Times!MILLISECOND)
<1> DEFINE s == Times!SECOND
           l == Times!MILLISECOND
           q == Times!Quot(ms, Thousand)
           r == Times!Rem(ms, Thousand)
           n == ms * l
<1>1. s \in Nat \ {0} /\ l \in Nat \ {0} /\ Thousand \in Nat \ {0} /\ s = Thousand * l
  BY UnitsAndSeconds
<1>2. q \in Int /\ r \in Int /\ ms = Thousand * q + r /\ 0 <= r /\ r < Thousand
  BY <1>1, QuotAndRem
<1>3. Times!OfDate(ms) = Times!Parts(q, r * l)
  BY <1>1, QuotOfNat DEF Times!OfDate
<1> HIDE DEF s, l, q, r
<1>4. r * l \in Int /\ 0 <= r * l /\ r * l < Thousand * l
  BY <1>1, <1>2
<1>5. ms * l = (Thousand * q) * l + r * l
  BY <1>1, <1>2
<1>6. (Thousand * q) * l = (Thousand * l) * q
  BY <1>1, <1>2
<1>7. n = s * q + r * l /\ n \in Nat
  <2>1. n = (Thousand * l) * q + r * l
    BY <1>5, <1>6
  <2> HIDE DEF n
  <2>2. n = s * q + r * l
    BY <1>1, <2>1
  <2>3. n \in Nat
    BY <1>1 DEF n
  <2> QED BY <2>2, <2>3
<1>8. Times!Quot(n, s) = q /\ Times!Rem(n, s) = r * l
  <2> DEFINE t == r * l
  <2>1. t \in Int /\ 0 <= t /\ t < s /\ n = s * q + t /\ n >= 0 /\ n \in Int
    BY <1>1, <1>4, <1>7
  <2> HIDE DEF n, t
  <2>2. Times!Quot(n, s) = q /\ Times!Rem(n, s) = t
    BY <1>1, <1>2, <2>1, OneQuotAndRem
  <2> QED BY <2>2 DEF t
<1> QED BY <1>3, <1>8 DEF Canon, n, s, l

LEMMA OfEpochIs ==
  ASSUME NEW n \in Nat
  PROVE  /\ Times!OfEpochNanoseconds(n) = Canon(n)
         /\ \A i \in 1..4 : Times!OfEpochUnit(n, Times!UNITS[i]) = Canon(n * Times!UNITS[i])
<1>1. ASSUME NEW m \in Nat PROVE Times!OfEpochNanoseconds(m) = Canon(m)
  <2>1. /\ Times!OfEpochNanoseconds(m) = Times!DateTime(Canon(m).s, Canon(m).ns)
    BY TotalOfCanon DEF Times!OfEpochNanoseconds
  <2>2. Times!DateTime(Canon(m).s, Canon(m).ns) = Canon(Canon(m).s * Times!SECOND + Canon(m).ns)
    BY PartsOfNat, DateTimeIs
  <2> QED BY <2>1, <2>2, PartsOfNat
<1>2. ASSUME NEW i \in 1..4
      PROVE  Times!OfEpochUnit(n, Times!UNITS[i]) = Canon(n * Times!UNITS[i])
  <2> DEFINE u == Times!UNITS[i]
             s == Times!SECOND
  <2>1. u \in Nat \ {0} /\ s \in Nat \ {0}
    BY UnitsAndSeconds
  <2>2. CASE u = s
    <3>1. n * s + 0 \in Nat /\ n * s + 0 = n * s
      BY <2>1
    <3>2. Times!DateTime(n, 0) = Canon(n * s + 0)
      BY <3>1, DateTimeIs
    <3> QED BY <2>2, <3>1, <3>2 DEF Times!OfEpochUnit
  <2>3. CASE u # s
    <3>1. n * u \in Nat
      BY <2>1
    <3> QED BY <1>1, <2>3, <3>1 DEF Times!OfEpochUnit
  <2> QED BY <2>2, <2>3
<1> QED BY <1>1, <1>2

\* The compact tuple leaves out zeros, which reading it puts back.
LEMMA CompactHas ==
  ASSUME NEW n \in Nat
  PROVE  /\ Times!Get(Times!ToCompact(Canon(n)), 1) = Canon(n).s
         /\ Times!Get(Times!ToCompact(Canon(n)), 2) = Canon(n).ns
         /\ Times!OfCompact(Times!ToCompact(Canon(n))) = Canon(n)
<1> DEFINE d == Canon(n)
           t == Times!ToCompact(d)
<1>1. d.s \in Nat /\ d.ns \in Nat
  BY PartsOfNat
<1>2. Times!Get(t, 1) = d.s /\ Times!Get(t, 2) = d.ns /\ Times!OfCompact(t) = Times!Duration(d.s, d.ns)
  <2> HIDE DEF d
  <2>1. CASE d.ns > 0
    <3>1. t = <<d.s, d.ns>>
      BY <2>1 DEF Times!ToCompact
    <3> HIDE DEF t
    <3> QED BY <3>1 DEF Times!Get, Times!OfCompact
  <2>2. CASE ~(d.ns > 0) /\ d.s > 0
    <3>1. t = <<d.s>> /\ d.ns = 0
      BY <1>1, <2>2 DEF Times!ToCompact
    <3> HIDE DEF t
    <3> QED BY <3>1 DEF Times!Get, Times!OfCompact
  <2>3. CASE ~(d.ns > 0) /\ ~(d.s > 0)
    <3>1. t = << >> /\ d.ns = 0 /\ d.s = 0
      BY <1>1, <2>3 DEF Times!ToCompact
    <3> HIDE DEF t
    <3> QED BY <3>1 DEF Times!Get, Times!OfCompact
  <2> QED BY <2>1, <2>2, <2>3
<1>3. Times!Duration(d.s, d.ns) = Canon(d.s * Times!SECOND + d.ns)
  BY DurationIs
<1>4. d.s * Times!SECOND + d.ns = n
  BY PartsOfNat
<1> QED BY <1>2, <1>3, <1>4

\* Moving an instant by a duration.
LEMMA AddTimeIs ==
  ASSUME NEW m \in Nat, NEW n \in Nat
  PROVE  /\ Times!AddTime(Canon(m), Canon(n)) = Canon(m + n)
         /\ m - n >= 0 => Times!SubTime(Canon(m), Canon(n)) = Canon(m - n)
<1> DEFINE s == Times!SECOND
           i == Canon(m).s  k == Canon(m).ns
           j == Canon(n).s  l == Canon(n).ns
<1>1. /\ s \in Nat \ {0} /\ i \in Nat /\ k \in Nat /\ k < s /\ i * s + k = m
      /\ j \in Nat /\ l \in Nat /\ l < s /\ j * s + l = n
  BY PartsOfNat, UnitsAndSeconds
<1>2. /\ Times!AddTime(Canon(m), Canon(n)) = Times!Later(Canon(m), j, l)
      /\ Times!SubTime(Canon(m), Canon(n)) = Times!Earlier(Canon(m), j, l)
  BY CompactHas DEF Times!AddTime, Times!SubTime
<1>3. Times!Later(Canon(m), j, l) = IF k + l >= s THEN Times!DateTime(i + j + 1, k + l - s)
                                    ELSE Times!DateTime(i + j, k + l)
  <2> HIDE DEF j, l
  <2> QED BY DEF Times!Later
<1>4. Times!Earlier(Canon(m), j, l) = IF k - l < 0 THEN Times!DateTime(i - j - 1, k - l + s)
                                      ELSE Times!DateTime(i - j, k - l)
  <2> HIDE DEF j, l
  <2> QED BY DEF Times!Earlier
<1> HIDE DEF i, j, k, l
<1>5. \A x \in Int, y \in Nat : x * s + y >= 0 => Times!DateTime(x, y) = Canon(x * s + y)
  BY DateTimeIs
<1> HIDE DEF s
<1>6. /\ (i + j + 1) * s + (k + l - s) = m + n
      /\ (i + j) * s + (k + l) = m + n
      /\ (i - j - 1) * s + (k - l + s) = m - n
      /\ (i - j) * s + (k - l) = m - n
  <2>1. (i + j + 1) * s + (k + l - s) = (i * s + k) + (j * s + l)
    BY <1>1, Carried
  <2>2. (i + j) * s + (k + l) = (i * s + k) + (j * s + l)
    BY <1>1, Carried
  <2>3. (i - j - 1) * s + (k - l + s) = (i * s + k) - (j * s + l)
    BY <1>1, Carried
  <2>4. (i - j) * s + (k - l) = (i * s + k) - (j * s + l)
    BY <1>1, Carried
  <2> QED BY <1>1, <2>1, <2>2, <2>3, <2>4, Zenon
<1>7. Times!Later(Canon(m), j, l) = Canon(m + n)
  <2>1. m + n >= 0
    OBVIOUS
  <2>2. CASE k + l >= s
    <3>1. i + j + 1 \in Int /\ k + l - s \in Nat
      BY <1>1, <2>2
    <3>2. Times!DateTime(i + j + 1, k + l - s) = Canon(m + n)
      BY <1>5, <1>6, <2>1, <3>1, Zenon
    <3> QED BY <1>3, <2>2, <3>2
  <2>3. CASE ~(k + l >= s)
    <3>1. i + j \in Int /\ k + l \in Nat
      BY <1>1
    <3>2. Times!DateTime(i + j, k + l) = Canon(m + n)
      BY <1>5, <1>6, <2>1, <3>1, Zenon
    <3> QED BY <1>3, <2>3, <3>2
  <2> QED BY <2>2, <2>3
<1>8. ASSUME m - n >= 0 PROVE Times!Earlier(Canon(m), j, l) = Canon(m - n)
  <2>2. CASE k - l < 0
    <3>1. i - j - 1 \in Int /\ k - l + s \in Nat
      BY <1>1, <2>2
    <3>2. Times!DateTime(i - j - 1, k - l + s) = Canon(m - n)
      BY <1>5, <1>6, <1>8, <3>1, Zenon
    <3> QED BY <1>4, <2>2, <3>2
  <2>3. CASE ~(k - l < 0)
    <3>1. i - j \in Int /\ k - l \in Nat
      BY <1>1, <2>3
    <3>2. Times!DateTime(i - j, k - l) = Canon(m - n)
      BY <1>5, <1>6, <1>8, <3>1, Zenon
    <3> QED BY <1>4, <2>3, <3>2
  <2> QED BY <2>2, <2>3
<1> QED BY <1>2, <1>7, <1>8

-----------------------------------------------------------------------------
(* What is read of durations and dates.                                    *)

\* The whole part of a whole part.
LEMMA QuotOfQuot ==
  ASSUME NEW n \in Int, NEW s \in Nat \ {0}, NEW k \in Nat \ {0}
  PROVE  Times!Quot(Times!Quot(n, s), k) = Times!Quot(n, s * k)
<1> DEFINE q == Times!Quot(n, s)  r == Times!Rem(n, s)
           p == Times!Quot(q, k)  t == Times!Rem(q, k)
           left == s * t + r
<1>1. /\ q \in Int /\ r \in Int /\ n = s * q + r
      /\ n >= 0 => q >= 0 /\ 0 <= r /\ r < s
      /\ n <= 0 => q <= 0 /\ -s < r /\ r <= 0
  BY QuotAndRem
<1> HIDE DEF q, r
<1>2. /\ p \in Int /\ t \in Int /\ q = k * p + t
      /\ q >= 0 => 0 <= t /\ t < k
      /\ q <= 0 => -k < t /\ t <= 0
  BY <1>1, QuotAndRem
<1> HIDE DEF p, t
<1>3. s * k \in Nat \ {0}
  BY ProductOfNats
<1>4. s * t \in Int
  BY <1>2
<1>5. n = (s * k) * p + left
  <2>1. s * q = s * (k * p) + s * t
    BY <1>1, <1>2
  <2>2. s * (k * p) = (s * k) * p
    BY <1>2
  <2>3. (s * k) * p \in Int
    BY <1>2
  <2> QED BY <1>1, <1>2, <1>4, <2>1, <2>2, <2>3
<1>6. ASSUME n >= 0 PROVE 0 <= left /\ left < s * k
  <2>1. 0 <= t /\ t <= k - 1
    BY <1>1, <1>2, <1>6
  <2>2. 0 <= s * t /\ s * t <= s * (k - 1) /\ s * (k - 1) = s * k - s
    BY <1>2, <2>1
  <2>3. s * k \in Int
    BY <1>3
  <2> QED BY <1>1, <1>4, <1>6, <2>2, <2>3
<1>7. ASSUME n <= 0 PROVE -(s * k) < left /\ left <= 0
  <2>1. -(k - 1) <= t /\ t <= 0
    BY <1>1, <1>2, <1>7
  <2>2. s * t <= 0 /\ s * (-(k - 1)) <= s * t /\ s * (-(k - 1)) = s - s * k
    BY <1>2, <2>1
  <2>3. s * k \in Int
    BY <1>3
  <2> QED BY <1>1, <1>4, <1>7, <2>2, <2>3
<1>8. left \in Int
  BY <1>1, <1>4
<1> HIDE DEF left
<1> DEFINE u == s * k
<1>9. u \in Nat \ {0} /\ n = u * p + left
  BY <1>3, <1>5
<1>10. (n >= 0 /\ 0 <= left /\ left < u) \/ (n <= 0 /\ -u < left /\ left <= 0)
  BY <1>6, <1>7
<1> HIDE DEF u
<1>11. Times!Quot(n, u) = p
  BY <1>2, <1>8, <1>9, <1>10, OneQuotAndRem
<1> QED BY <1>11 DEF u, p, q

LEMMA InUnitIs ==
  ASSUME NEW n \in Int, NEW i \in 1..9
  PROVE  Times!InUnit(Canon(n), Times!UNITS[i]) = Times!Quot(n, Times!UNITS[i])
<1> DEFINE s == Times!SECOND
           u == Times!UNITS[i]
<1>1. s \in Nat \ {0} /\ u \in Nat \ {0}
  BY UnitsAndSeconds
<1>2. Canon(n).s = Times!Quot(n, s) /\ Times!Total(Canon(n)) = n
  BY TotalOfCanon
<1>3. CASE u <= s
  BY <1>2, <1>3 DEF Times!InUnit
<1>4. CASE ~(u <= s)
  <2>1. PICK k \in Nat \ {0} : u = s * k /\ u \div s = k
    BY <1>1, <1>4, LargeUnits
  <2>2. Times!InUnit(Canon(n), u) = Times!Quot(Times!Quot(n, s), k)
    BY <1>2, <1>4, <2>1 DEF Times!InUnit
  <2> HIDE DEF s, u
  <2>3. Times!Quot(Times!Quot(n, s), k) = Times!Quot(n, u)
    BY <1>1, <2>1, QuotOfQuot
  <2> QED BY <2>2, <2>3 DEF u
<1> QED BY <1>3, <1>4

\* What has fewer whole seconds is less.
LEMMA FewerSeconds ==
  ASSUME NEW m \in Int, NEW n \in Int, Canon(m).s < Canon(n).s
  PROVE  m < n
<1> DEFINE s == Times!SECOND
           i == Canon(m).s  k == Canon(m).ns
           j == Canon(n).s  l == Canon(n).ns
<1>1. s \in Nat \ {0}
  BY UnitsAndSeconds
<1>2. /\ i \in Int /\ k \in Int /\ i * s + k = m
      /\ j \in Int /\ l \in Int /\ j * s + l = n
  BY TotalOfCanon DEF Times!Total
<1>3. /\ m >= 0 => i >= 0 /\ 0 <= k /\ k < s
      /\ m <= 0 => i <= 0 /\ -s < k /\ k <= 0
  BY <1>1, TotalOfCanon, QuotAndRem
<1>4. /\ n >= 0 => j >= 0 /\ 0 <= l /\ l < s
      /\ n <= 0 => j <= 0 /\ -s < l /\ l <= 0
  BY <1>1, TotalOfCanon, QuotAndRem
<1>5. i < j
  OBVIOUS
<1> HIDE DEF s, i, j, k, l
<1>6. k - l < s
  <2>1. CASE n >= 0
    BY <1>1, <1>2, <1>3, <1>4, <2>1
  <2>2. CASE n < 0
    <3>1. i < 0
      BY <1>2, <1>4, <1>5, <2>2
    <3>2. m < 0
      BY <1>2, <1>3, <3>1
    <3> QED BY <1>1, <1>2, <1>3, <1>4, <2>2, <3>2
  <2> QED BY <2>1, <2>2
<1>7. i * s <= j * s - s
  <2>1. i * s <= (j - 1) * s
    BY <1>1, <1>2, <1>5
  <2>2. (j - 1) * s = j * s - s
    BY <1>1, <1>2
  <2> QED BY <2>1, <2>2
<1>8. i * s \in Int /\ j * s \in Int
  BY <1>1, <1>2
<1> QED BY <1>1, <1>2, <1>6, <1>7, <1>8

LEMMA CompareIs ==
  ASSUME NEW m \in Int, NEW n \in Int
  PROVE  Times!Compare(Canon(m), Canon(n)) = IF m < n THEN -1 ELSE IF m > n THEN 1 ELSE 0
<1> DEFINE s == Times!SECOND
           i == Canon(m).s  k == Canon(m).ns
           j == Canon(n).s  l == Canon(n).ns
<1>1. /\ i \in Int /\ k \in Int /\ i * s \in Int /\ i * s + k = m
      /\ j \in Int /\ l \in Int /\ j * s \in Int /\ j * s + l = n
  BY TotalOfCanon DEF Times!Total
<1>2. i < j => m < n
  BY FewerSeconds
<1>3. j < i => n < m
  BY FewerSeconds
<1>4. Times!Compare(Canon(m), Canon(n)) =
        IF i < j THEN -1 ELSE IF i > j THEN 1 ELSE IF k < l THEN -1 ELSE IF k > l THEN 1 ELSE 0
  BY DEF Times!Compare
<1> HIDE DEF s, i, j, k, l
<1>5. i = j => (k < l <=> m < n) /\ (k > l <=> m > n)
  BY <1>1
<1> QED BY <1>1, <1>2, <1>3, <1>4, <1>5

\* A date of whole milliseconds is the Date it was made of.
LEMMA ToDateIs ==
  ASSUME NEW n \in Nat, Times!Rem(n, Times!MILLISECOND) = 0
  PROVE  Times!OfDate(Times!ToDate(Canon(n))) = Canon(n)
<1> DEFINE s == Times!SECOND
           l == Times!MILLISECOND
           k == Times!Quot(n, l)
           q == Canon(n).s
           r == Canon(n).ns
<1>1. s \in Nat \ {0} /\ l \in Nat \ {0} /\ Thousand \in Nat \ {0} /\ s = Thousand * l
  BY UnitsAndSeconds
<1>2. k \in Int /\ k >= 0 /\ n = l * k + 0
  BY <1>1, QuotAndRem
<1>3. q \in Nat /\ r \in Nat /\ r < s /\ q * s + r = n
  BY PartsOfNat
<1>4. Times!ToDate(Canon(n)) = q * Thousand + r \div l
  BY DEF Times!ToDate
<1> HIDE DEF s, l, k, q, r
<1> DEFINE c == k - q * Thousand
<1>5. r = l * c
  <2>1. q * s = l * (q * Thousand)
    BY <1>1, <1>3
  <2>2. l * c = l * k - l * (q * Thousand)
    BY <1>1, <1>2, <1>3
  <2>3. l * k \in Int /\ l * (q * Thousand) \in Int
    BY <1>1, <1>2, <1>3
  <2> QED BY <1>2, <1>3, <2>1, <2>2, <2>3
<1>6. c \in Int /\ q * Thousand \in Int
  BY <1>1, <1>2, <1>3
<1> HIDE DEF c
<1>7. c >= 0
  <2>1. ASSUME c <= -1 PROVE FALSE
    <3>1. l * c <= -l
      BY <1>1, <1>6, <2>1
    <3> QED BY <1>1, <1>3, <1>5, <3>1
  <2> QED BY <1>6, <2>1
<1>8. r \div l = c
  BY <1>1, <1>5, <1>6, <1>7, ExactQuotient
<1>9. Times!ToDate(Canon(n)) = k
  BY <1>2, <1>4, <1>6, <1>8 DEF c
<1>10. Times!OfDate(k) = Canon(k * l)
  BY <1>2, OfDateIs DEF l
<1>11. k * l = n
  BY <1>1, <1>2
<1> QED BY <1>9, <1>10, <1>11

-----------------------------------------------------------------------------
(* The text of a duration.                                                 *)

UnitSet == {Times!UNITS[i] : i \in 1..9}

\* One round of parseString(), and what all of them sum up to.
Added(sum, summand) ==
  IF summand[2] >= Times!SECOND
    THEN [sum EXCEPT !.s = @ + summand[1] * (summand[2] \div Times!SECOND)]
    ELSE [sum EXCEPT !.ns = @ + summand[1] * summand[2]]

IsSum(f, parts) ==
  f = [i \in 0..Len(parts) |-> IF i = 0 THEN Times!Parts(0, 0) ELSE Added(f[i - 1], parts[i])]

\* Parts that sum up to so many nanoseconds.
Worth(parts, n) ==
  /\ parts \in Seq(Nat \X UnitSet) /\ n \in Nat
  /\ \E f : IsSum(f, parts)
  /\ \A f : IsSum(f, parts) =>
       /\ f[Len(parts)] \in [s : Nat, ns : Nat]
       /\ f[Len(parts)].s * Times!SECOND + f[Len(parts)].ns = n

\* One round of toString(), and all of them up to the m-th.
RoundOf(v, i, sofar) ==
  LET unit   == Times!UNITS[10 - i]
      left   == IF i = 7 THEN [sofar EXCEPT !.n = @ + v.ns] ELSE sofar
      amount == Times!Quot(left.n, unit)
  IN IF amount > 0 THEN Times!Pick(left, amount, unit) ELSE left

AreRounds(f, v, m) ==
  f = [i \in 0..m |-> IF i = 0 THEN [n |-> v.s * Times!SECOND, out |-> << >>]
                      ELSE RoundOf(v, i, f[i - 1])]

LEMMA SumOfNone == Worth(<< >>, 0)
<1>1. << >> \in Seq(Nat \X UnitSet) /\ Len(<< >>) = 0 /\ 0..0 = {0}
  OBVIOUS
<1>2. \A f : IsSum(f, << >>) => f[0] = Times!Parts(0, 0)
  BY <1>1 DEF IsSum
<1>3. \E f : IsSum(f, << >>)
  <2> DEFINE f == [i \in 0..0 |-> Times!Parts(0, 0)]
  <2>1. \A i \in 0..0 : i = 0
    OBVIOUS
  <2>2. f = [i \in 0..Len(<< >>) |-> IF i = 0 THEN Times!Parts(0, 0) ELSE Added(f[i - 1], << >>[i])]
    BY <1>1, <2>1
  <2> QED BY <2>2 DEF IsSum
<1>4. /\ Times!Parts(0, 0) \in [s : Nat, ns : Nat]
      /\ Times!Parts(0, 0).s * Times!SECOND + Times!Parts(0, 0).ns = 0
  BY UnitsAndSeconds DEF Times!Parts
<1> QED BY <1>1, <1>2, <1>3, <1>4 DEF Worth

\* What a part adds to a sum.
LEMMA AddedIs ==
  ASSUME NEW x \in Nat, NEW y \in Nat, NEW a \in Nat, NEW i \in 1..9
  PROVE  /\ Added([s |-> x, ns |-> y], <<a, Times!UNITS[i]>>) \in [s : Nat, ns : Nat]
         /\ Added([s |-> x, ns |-> y], <<a, Times!UNITS[i]>>).s * Times!SECOND
              + Added([s |-> x, ns |-> y], <<a, Times!UNITS[i]>>).ns
              = (x * Times!SECOND + y) + a * Times!UNITS[i]
<1> DEFINE u == Times!UNITS[i]
           s == Times!SECOND
           next == Added([s |-> x, ns |-> y], <<a, u>>)
<1>1. s \in Nat \ {0} /\ u \in Nat \ {0}
  BY UnitsAndSeconds
<1>2. CASE u >= s
  <2>1. PICK k \in Nat \ {0} : u = s * k /\ u \div s = k
    BY <1>2, LargeUnits
  <2>2. next = [s |-> x + a * k, ns |-> y]
    BY <1>2, <2>1 DEF Added
  <2> HIDE DEF next, u, s
  <2>3. a * k \in Nat
    BY <2>1
  <2>4. (x + a * k) * s = x * s + (a * k) * s /\ (a * k) * s = a * (s * k)
    BY <1>1, <2>1
  <2>5. x * s \in Int /\ a * (s * k) \in Int
    BY <1>1, <2>1
  <2>6. (x + a * k) * s + y = (x * s + y) + a * u
    BY <2>1, <2>4, <2>5
  <2>7. next \in [s : Nat, ns : Nat] /\ next.s * s + next.ns = (x + a * k) * s + y
    BY <2>2, <2>3
  <2> QED BY <2>6, <2>7 DEF next, u, s
<1>3. CASE ~(u >= s)
  <2>1. next = [s |-> x, ns |-> y + a * u]
    BY <1>3 DEF Added
  <2> HIDE DEF next, u, s
  <2>2. a * u \in Nat /\ x * s \in Nat
    BY <1>1
  <2>3. next \in [s : Nat, ns : Nat] /\ next.s * s + next.ns = x * s + (y + a * u)
    BY <2>1, <2>2
  <2>4. x * s + (y + a * u) = (x * s + y) + a * u
    BY <2>2
  <2> QED BY <2>3, <2>4 DEF next, u, s
<1> QED BY <1>2, <1>3

\* One more part.
LEMMA SumOfOneMore ==
  ASSUME NEW parts, NEW n, Worth(parts, n), NEW a \in Nat, NEW i \in 1..9
  PROVE  Worth(Append(parts, <<a, Times!UNITS[i]>>), n + a * Times!UNITS[i])
<1> DEFINE p == <<a, Times!UNITS[i]>>
           more == Append(parts, p)
           m == Len(parts)
<1>1. parts \in Seq(Nat \X UnitSet) /\ n \in Nat /\ m \in Nat
  BY DEF Worth
<1>2. p \in Nat \X UnitSet /\ a * Times!UNITS[i] \in Nat
  BY UnitsAndSeconds DEF UnitSet
<1> HIDE DEF p
<1>3. /\ more \in Seq(Nat \X UnitSet) /\ Len(more) = m + 1 /\ more[m + 1] = p
      /\ \A j \in 1..m : more[j] = parts[j]
  BY <1>1, <1>2
<1> HIDE DEF more
<1>4. ASSUME NEW f, IsSum(f, parts) PROVE \E g : IsSum(g, more)
  <2> DEFINE g == [j \in 0..(m + 1) |-> IF j <= m THEN f[j] ELSE Added(f[m], p)]
  <2>1. \A j \in 0..m : f[j] = IF j = 0 THEN Times!Parts(0, 0) ELSE Added(f[j - 1], parts[j])
    BY <1>4 DEF IsSum
  <2>2. ASSUME NEW j \in 0..(m + 1)
        PROVE  g[j] = IF j = 0 THEN Times!Parts(0, 0) ELSE Added(g[j - 1], more[j])
    <3>1. CASE j = 0
      BY <1>1, <2>1, <3>1
    <3>2. CASE j \in 1..m
      <4>1. g[j] = f[j] /\ g[j - 1] = f[j - 1] /\ j # 0
        BY <1>1, <3>2
      <4>2. f[j] = Added(f[j - 1], parts[j])
        BY <1>1, <2>1, <3>2
      <4> HIDE DEF g
      <4> QED BY <1>3, <3>2, <4>1, <4>2
    <3>3. CASE j = m + 1
      <4>1. g[j] = Added(f[m], p) /\ g[j - 1] = f[m] /\ j # 0
        BY <1>1, <3>3
      <4> HIDE DEF g
      <4> QED BY <1>3, <3>3, <4>1
    <3> QED BY <1>1, <3>1, <3>2, <3>3
  <2>3. g = [j \in 0..Len(more) |-> IF j = 0 THEN Times!Parts(0, 0) ELSE Added(g[j - 1], more[j])]
    <3>1. g = [j \in 0..(m + 1) |-> g[j]]
      OBVIOUS
    <3> HIDE DEF g
    <3> QED BY <1>3, <2>2, <3>1
  <2> QED BY <2>3 DEF IsSum
<1>5. ASSUME NEW g, IsSum(g, more)
      PROVE  /\ g[m + 1] \in [s : Nat, ns : Nat]
             /\ g[m + 1].s * Times!SECOND + g[m + 1].ns = n + a * Times!UNITS[i]
  <2> DEFINE f == [j \in 0..m |-> g[j]]
  <2>1. \A j \in 0..(m + 1) : g[j] = IF j = 0 THEN Times!Parts(0, 0) ELSE Added(g[j - 1], more[j])
    BY <1>3, <1>5 DEF IsSum
  <2>2. ASSUME NEW j \in 0..m
        PROVE  f[j] = IF j = 0 THEN Times!Parts(0, 0) ELSE Added(f[j - 1], parts[j])
    <3>1. j \in 0..(m + 1) /\ f[j] = g[j] /\ (j # 0 => f[j - 1] = g[j - 1] /\ j \in 1..m)
      BY <1>1
    <3> HIDE DEF f
    <3> QED BY <1>3, <2>1, <3>1
  <2>3. IsSum(f, parts)
    <3>1. f = [j \in 0..m |-> f[j]]
      OBVIOUS
    <3> HIDE DEF f
    <3>2. f = [j \in 0..m |-> IF j = 0 THEN Times!Parts(0, 0) ELSE Added(f[j - 1], parts[j])]
      BY <2>2, <3>1
    <3> QED BY <3>2 DEF IsSum
  <2>4. f[m] = g[m]
    BY <1>1
  <2>5. g[m] \in [s : Nat, ns : Nat] /\ g[m].s * Times!SECOND + g[m].ns = n
    <3> HIDE DEF f
    <3> QED BY <2>3, <2>4 DEF Worth
  <2>6. g[m + 1] = Added(g[m], p)
    <3>1. m + 1 \in 0..(m + 1) /\ m + 1 # 0 /\ (m + 1) - 1 = m
      BY <1>1
    <3> QED BY <1>3, <2>1, <3>1
  <2>7. PICK x \in Nat, y \in Nat : g[m] = [s |-> x, ns |-> y]
    BY <2>5
  <2>8. x * Times!SECOND + y = n
    BY <2>5, <2>7
  <2>9. g[m + 1] = Added([s |-> x, ns |-> y], <<a, Times!UNITS[i]>>)
    BY <2>6, <2>7 DEF p
  <2> DEFINE next == Added([s |-> x, ns |-> y], <<a, Times!UNITS[i]>>)
  <2>10. /\ next \in [s : Nat, ns : Nat]
         /\ next.s * Times!SECOND + next.ns = (x * Times!SECOND + y) + a * Times!UNITS[i]
    BY AddedIs
  <2>11. g[m + 1] = next
    BY <2>9
  <2> HIDE DEF next
  <2> QED BY <2>8, <2>10, <2>11
<1>6. \E f : IsSum(f, parts)
  BY DEF Worth
<1>7. n + a * Times!UNITS[i] \in Nat
  BY <1>1, <1>2
<1>8. \E f : IsSum(f, more)
  BY <1>4, <1>6
<1> HIDE DEF m
<1>9. Worth(more, n + a * Times!UNITS[i])
  BY <1>3, <1>5, <1>7, <1>8 DEF Worth
<1> QED BY <1>9 DEF more, p

\* Read, the parts are the duration they are worth.
LEMMA SumIsRead ==
  ASSUME NEW parts, NEW n, Worth(parts, n)
  PROVE  Times!ParseString(parts) = Canon(n)
<1> DEFINE F == CHOOSE f : IsSum(f, parts)
           all == F[Len(parts)]
<1>1. IsSum(F, parts)
  BY DEF Worth
<1>2. Times!ParseString(parts) = Times!Parts(all.s + Times!Quot(all.ns, Times!SECOND), Times!Rem(all.ns, Times!SECOND))
  BY DEF Times!ParseString, IsSum, Added
<1> HIDE DEF F
<1>3. /\ all \in [s : Nat, ns : Nat]
      /\ all.s * Times!SECOND + all.ns = n /\ n \in Nat
  BY <1>1 DEF Worth
<1> HIDE DEF all
<1>4. Times!ParseString(parts) = Times!DateTime(all.s, all.ns)
  BY <1>2 DEF Times!DateTime
<1>5. Times!DateTime(all.s, all.ns) = Canon(all.s * Times!SECOND + all.ns)
  <2>1. all.s \in Int /\ all.ns \in Nat /\ all.s * Times!SECOND + all.ns >= 0
    BY <1>3
  <2> QED BY <2>1, DateTimeIs
<1> QED BY <1>3, <1>4, <1>5

\* There is a further round after any number of them.
LEMMA OneMoreRound ==
  ASSUME NEW v, NEW m \in Nat, \E f : AreRounds(f, v, m)
  PROVE  \E f : AreRounds(f, v, m + 1)
<1> DEFINE first == [n |-> v.s * Times!SECOND, out |-> << >>]
<1>1. PICK f : AreRounds(f, v, m)
  OBVIOUS
<1>2. \A j \in 0..m : f[j] = IF j = 0 THEN first ELSE RoundOf(v, j, f[j - 1])
  BY <1>1 DEF AreRounds
<1> HIDE DEF first
<1> DEFINE g == [j \in 0..(m + 1) |-> IF j <= m THEN f[j] ELSE RoundOf(v, m + 1, f[m])]
<1>3. ASSUME NEW j \in 0..(m + 1)
      PROVE  g[j] = IF j = 0 THEN first ELSE RoundOf(v, j, g[j - 1])
  <2>1. CASE j = 0
    BY <1>2, <2>1
  <2>2. CASE j \in 1..m
    <3>1. g[j] = f[j] /\ g[j - 1] = f[j - 1] /\ j # 0
      BY <2>2
    <3> HIDE DEF g
    <3> QED BY <1>2, <2>2, <3>1
  <2>3. CASE j = m + 1
    <3>1. g[j] = RoundOf(v, j, f[m]) /\ g[j - 1] = f[m] /\ j # 0
      BY <2>3
    <3> HIDE DEF g
    <3> QED BY <3>1
  <2> QED BY <2>1, <2>2, <2>3
<1>4. g = [j \in 0..(m + 1) |-> g[j]]
  OBVIOUS
<1> HIDE DEF g
<1>5. g = [j \in 0..(m + 1) |-> IF j = 0 THEN first ELSE RoundOf(v, j, g[j - 1])]
  BY <1>3, <1>4
<1> QED BY <1>5 DEF AreRounds, first

LEMMA NineRounds ==
  ASSUME NEW v
  PROVE  \E f : AreRounds(f, v, 9)
<1>1. \E f : AreRounds(f, v, 0)
  <2> DEFINE first == [n |-> v.s * Times!SECOND, out |-> << >>]
             f == [j \in 0..0 |-> first]
  <2>1. \A j \in 0..0 : j = 0
    OBVIOUS
  <2> HIDE DEF first
  <2>2. f = [j \in 0..0 |-> IF j = 0 THEN first ELSE RoundOf(v, j, f[j - 1])]
    BY <2>1
  <2> QED BY <2>2 DEF AreRounds, first
<1>2. \E f : AreRounds(f, v, 0 + 1)
  BY <1>1, OneMoreRound
<1>3. \E f : AreRounds(f, v, 1 + 1)
  BY <1>2, OneMoreRound
<1>4. \E f : AreRounds(f, v, 2 + 1)
  BY <1>3, OneMoreRound
<1>5. \E f : AreRounds(f, v, 3 + 1)
  BY <1>4, OneMoreRound
<1>6. \E f : AreRounds(f, v, 4 + 1)
  BY <1>5, OneMoreRound
<1>7. \E f : AreRounds(f, v, 5 + 1)
  BY <1>6, OneMoreRound
<1>8. \E f : AreRounds(f, v, 6 + 1)
  BY <1>7, OneMoreRound
<1>9. \E f : AreRounds(f, v, 7 + 1)
  BY <1>8, OneMoreRound
<1>10. \E f : AreRounds(f, v, 8 + 1)
  BY <1>9, OneMoreRound
<1> QED BY <1>10

\* What is left and what is written always make the duration up.
Made(state, n) ==
  /\ state = [n |-> state.n, out |-> state.out]
  /\ state.n \in Nat
  /\ \E x : Worth(state.out, x) /\ x + state.n = n

LEMMA RoundKeeps ==
  ASSUME NEW v, NEW n \in Nat, NEW state, Made(state, n), NEW i \in 1..9, v.ns \in Nat
  PROVE  /\ i # 7 => Made(RoundOf(v, i, state), n)
         /\ i = 7 => Made(RoundOf(v, i, state), n + v.ns)
         /\ i = 9 => RoundOf(v, i, state).n = 0
<1> DEFINE unit == Times!UNITS[10 - i]
           left == IF i = 7 THEN [state EXCEPT !.n = @ + v.ns] ELSE state
           total == IF i = 7 THEN n + v.ns ELSE n
           amount == Times!Quot(left.n, unit)
           next == IF amount > 0 THEN Times!Pick(left, amount, unit) ELSE left
<1>1. RoundOf(v, i, state) = next
  BY DEF RoundOf
<1>2. 10 - i \in 1..9 /\ unit \in Nat \ {0} /\ (i = 9 => unit = 1)
  <2>1. 10 - i \in 1..9
    OBVIOUS
  <2>2. i = 9 => unit = 1
    BY DEF Times!UNITS, Times!NANOSECOND
  <2> QED BY <2>1, <2>2, UnitsAndSeconds
<1>3. PICK x : Worth(state.out, x) /\ x + state.n = n
  BY DEF Made
<1>4. x \in Nat
  BY <1>3 DEF Worth
<1>5. /\ left = [n |-> left.n, out |-> left.out] /\ left.out = state.out
      /\ left.n \in Nat /\ x + left.n = total
  <2>1. state = [n |-> state.n, out |-> state.out] /\ state.n \in Nat
    BY DEF Made
  <2>2. CASE i = 7
    <3>1. left = [n |-> state.n + v.ns, out |-> state.out]
      BY <2>1, <2>2
    <3>2. total = n + v.ns
      BY <2>2
    <3> HIDE DEF left, total
    <3> QED BY <1>3, <1>4, <2>1, <3>1, <3>2
  <2>3. CASE i # 7
    <3>1. left = state /\ total = n
      BY <2>3
    <3> HIDE DEF left, total
    <3> QED BY <1>3, <1>4, <2>1, <3>1
  <2> QED BY <2>2, <2>3
<1> HIDE DEF left, total
<1> DEFINE r == Times!Rem(left.n, unit)
<1>6. /\ amount \in Int /\ amount >= 0 /\ r \in Int /\ r >= 0 /\ r < unit
      /\ unit * amount \in Int /\ left.n = unit * amount + r
  BY <1>2, <1>5, QuotAndRem
<1>7. CASE amount > 0
  <2>1. next = [n |-> r, out |-> Append(state.out, <<amount, unit>>)]
    BY <1>5, <1>7 DEF Times!Pick
  <2> HIDE DEF next, amount, r
  <2>2. Worth(Append(state.out, <<amount, unit>>), x + amount * unit)
    <3>1. amount \in Nat
      BY <1>6
    <3>2. \A j \in 1..9 : Worth(Append(state.out, <<amount, Times!UNITS[j]>>), x + amount * Times!UNITS[j])
      BY <1>3, <3>1, SumOfOneMore
    <3> QED BY <1>2, <3>2
  <2> HIDE DEF unit
  <2>3. amount * unit = unit * amount
    BY <1>2, <1>6
  <2>4. (x + amount * unit) + r = total
    BY <1>2, <1>4, <1>5, <1>6, <2>3
  <2>5. next.n = r /\ next.out = Append(state.out, <<amount, unit>>)
        /\ next = [n |-> next.n, out |-> next.out]
    BY <2>1
  <2>6. Made(next, total)
    BY <1>6, <2>2, <2>4, <2>5 DEF Made
  <2>7. i = 9 => next.n = 0
    BY <1>2, <1>6, <2>5
  <2> QED BY <1>1, <2>6, <2>7 DEF total
<1>8. CASE amount = 0
  <2>1. next = left
    BY <1>8
  <2> HIDE DEF next, amount, r
  <2>2. Made(left, total)
    BY <1>3, <1>5 DEF Made
  <2>3. i = 9 => left.n = 0
    <3>1. unit * amount = 0
      BY <1>2, <1>8
    <3> QED BY <1>2, <1>5, <1>6, <3>1
  <2> QED BY <1>1, <2>1, <2>2, <2>3 DEF total
<1> QED BY <1>6, <1>7, <1>8

\* The text of a duration reads back as it.
LEMMA TextReadsBack ==
  ASSUME NEW m \in Nat
  PROVE  Times!ParseString(Times!ToString(Canon(m))) = Canon(m)
<1> DEFINE v == Canon(m)
           whole == v.s * Times!SECOND
           F == CHOOSE f : AreRounds(f, v, 9)
<1>1. AreRounds(F, v, 9)
  BY NineRounds
<1>2. Times!ToString(v) = F[9].out
  <2> HIDE DEF v
  <2> QED BY DEF Times!ToString, AreRounds, RoundOf
<1>3. v.s \in Nat /\ v.ns \in Nat /\ whole \in Nat /\ whole + v.ns = m
  <2>1. whole \in Nat
    BY PartsOfNat, UnitsAndSeconds
  <2> QED BY <2>1, PartsOfNat
<1> HIDE DEF F, v
<1>4. \A i \in 0..9 : F[i] = IF i = 0 THEN [n |-> whole, out |-> << >>] ELSE RoundOf(v, i, F[i - 1])
  BY <1>1 DEF AreRounds
<1> HIDE DEF whole
<1>5. Made(F[0], whole)
  <2>1. F[0] = [n |-> whole, out |-> << >>]
    BY <1>4
  <2>2. F[0].n = whole /\ F[0].out = << >> /\ F[0] = [n |-> F[0].n, out |-> F[0].out]
    BY <2>1
  <2>3. 0 + F[0].n = whole
    BY <1>3, <2>2
  <2>4. Worth(F[0].out, 0)
    BY <2>2, SumOfNone
  <2> QED BY <1>3, <2>2, <2>3, <2>4 DEF Made
<1>6. \A i \in 1..9 : F[i] = RoundOf(v, i, F[i - 1])
  BY <1>4
<1>7. F[1] = RoundOf(v, 1, F[0]) /\ F[2] = RoundOf(v, 2, F[1]) /\ F[3] = RoundOf(v, 3, F[2])
      /\ F[4] = RoundOf(v, 4, F[3]) /\ F[5] = RoundOf(v, 5, F[4]) /\ F[6] = RoundOf(v, 6, F[5])
      /\ F[7] = RoundOf(v, 7, F[6]) /\ F[8] = RoundOf(v, 8, F[7]) /\ F[9] = RoundOf(v, 9, F[8])
  BY <1>6
<1>8. ASSUME NEW state, Made(state, whole)
      PROVE  /\ \A i \in 1..6 : Made(RoundOf(v, i, state), whole)
             /\ Made(RoundOf(v, 7, state), m)
  <2>1. ASSUME NEW i \in 1..6 PROVE Made(RoundOf(v, i, state), whole)
    <3>1. i \in 1..9 /\ i # 7
      OBVIOUS
    <3> QED BY <1>3, <1>8, <3>1, RoundKeeps
  <2>2. Made(RoundOf(v, 7, state), whole + v.ns)
    <3>1. 7 \in 1..9
      OBVIOUS
    <3> QED BY <1>3, <1>8, <3>1, RoundKeeps
  <2> QED BY <1>3, <2>1, <2>2
<1>9. ASSUME NEW state, Made(state, m)
      PROVE  /\ Made(RoundOf(v, 8, state), m) /\ Made(RoundOf(v, 9, state), m)
             /\ RoundOf(v, 9, state).n = 0
  <2>1. 8 \in 1..9 /\ 8 # 7 /\ 9 \in 1..9 /\ 9 # 7
    OBVIOUS
  <2> QED BY <1>3, <1>9, <2>1, RoundKeeps
<1>10. 1 \in 1..6 /\ 2 \in 1..6 /\ 3 \in 1..6 /\ 4 \in 1..6 /\ 5 \in 1..6 /\ 6 \in 1..6
  OBVIOUS
<1>11. Made(F[1], whole)
  BY <1>5, <1>7, <1>8, <1>10
<1>12. Made(F[2], whole)
  BY <1>7, <1>8, <1>10, <1>11
<1>13. Made(F[3], whole)
  BY <1>7, <1>8, <1>10, <1>12
<1>14. Made(F[4], whole) /\ Made(F[5], whole)
  BY <1>7, <1>8, <1>10, <1>13
<1>15. Made(F[6], whole) /\ Made(F[7], m) /\ Made(F[8], m)
  BY <1>7, <1>8, <1>9, <1>10, <1>14
<1>16. Made(F[9], m) /\ F[9].n = 0
  BY <1>7, <1>9, <1>15
<1>17. Worth(F[9].out, m)
  <2>1. PICK x : Worth(F[9].out, x) /\ x + 0 = m
    BY <1>16 DEF Made
  <2>2. x = m
    BY <2>1 DEF Worth
  <2> QED BY <2>1, <2>2
<1>18. Times!ParseString(F[9].out) = Canon(m)
  BY <1>17, SumIsRead
<1> QED BY <1>2, <1>18 DEF v

-----------------------------------------------------------------------------
(* The steps.                                                              *)

\* A duration and an instant are numbers of nanoseconds, in their one form.
InstantInv ==
  /\ spanIs \in Int /\ span = Canon(spanIs)
  /\ timeIs \in Nat /\ time = Canon(timeIs)

LEMMA AppendedTwice ==
  ASSUME NEW p, NEW q
  PROVE  Append(Append(<< >>, p), q) = <<p, q>>
<1> DEFINE S == {p, q}
           t == Append(<<p>>, q)
<1>1. Append(<< >>, p) = <<p>>
  OBVIOUS
<1>2. <<p>> \in Seq(S) /\ <<p, q>> \in Seq(S) /\ q \in S
  OBVIOUS
<1>3. t \in Seq(S) /\ Len(t) = 2 /\ t[1] = p /\ t[2] = q
  BY <1>2, AppendProperties
<1> HIDE DEF t, S
<1>4. t = <<p, q>>
  BY <1>2, <1>3, SeqEqual
<1> QED BY <1>1, <1>4 DEF t

\* Two parts are read as their sum.
LEMMA TwoParts ==
  ASSUME NEW n \in Nat, NEW m \in Nat, NEW i \in 1..9, NEW j \in 1..9
  PROVE  Times!ParseString(<< <<n, Times!UNITS[i]>>, <<m, Times!UNITS[j]>> >>)
           = Canon(n * Times!UNITS[i] + m * Times!UNITS[j])
<1> DEFINE p == <<n, Times!UNITS[i]>>
           q == <<m, Times!UNITS[j]>>
           a == n * Times!UNITS[i]
           b == m * Times!UNITS[j]
<1>1. Worth(Append(<< >>, p), 0 + a)
  BY SumOfNone, SumOfOneMore
<1>2. Worth(Append(Append(<< >>, p), q), (0 + a) + b)
  BY <1>1, SumOfOneMore
<1>3. a \in Nat /\ b \in Nat
  BY UnitsAndSeconds
<1> HIDE DEF p, q, a, b
<1>4. (0 + a) + b = a + b
  BY <1>3
<1>5. Worth(<<p, q>>, a + b)
  BY <1>2, <1>4, AppendedTwice
<1>6. Times!ParseString(<<p, q>>) = Canon(a + b)
  BY <1>5, SumIsRead
<1> QED BY <1>6 DEF p, q, a, b

LEMMA InstantsInit ==
  ASSUME Times!Init
  PROVE  InstantInv
<1> DEFINE s == Times!SECOND
<1>1. s \in Nat \ {0}
  BY UnitsAndSeconds
<1>2. Times!Duration(0, 0) = Canon(0 * s + 0)
  BY DurationIs
<1>3. 0 * s + 0 = 0
  BY <1>1
<1>4. Times!DateTime(0, 0) = Canon(0 * s + 0)
  <2> HIDE DEF s
  <2>1. 0 * s + 0 >= 0
    BY <1>1
  <2>2. \A sec \in Int, ns \in Nat :
          sec * s + ns >= 0 => Times!DateTime(sec, ns) = Canon(sec * s + ns)
    BY DateTimeIs DEF s
  <2>3. 0 \in Int /\ 0 \in Nat
    OBVIOUS
  <2> QED BY <2>1, <2>2, <2>3
<1> QED BY <1>2, <1>3, <1>4 DEF Times!Init, InstantInv

LEMMA NewSpanIs ==
  ASSUME InstantInv, NEW v, NEW n \in Int, Times!NewSpan(v, n), v = Canon(n)
  PROVE  InstantInv'
<1>1. span' = v /\ spanIs' = n /\ UNCHANGED <<time, timeIs>>
  BY DEF Times!NewSpan
<1>2. \A m, k : m = k => Canon(m) = Canon(k)
  OBVIOUS
<1>3. Canon(spanIs)' = Canon(spanIs')
  BY DEF Canon, Times!Parts, Times!Quot, Times!Rem, Times!Abs, Times!SECOND, Times!MILLISECOND,
    Times!MICROSECOND
<1>4. Canon(timeIs)' = Canon(timeIs')
  BY DEF Canon, Times!Parts, Times!Quot, Times!Rem, Times!Abs, Times!SECOND, Times!MILLISECOND,
    Times!MICROSECOND
<1> QED BY <1>1, <1>2, <1>3, <1>4 DEF InstantInv

LEMMA NewTimeIs ==
  ASSUME InstantInv, NEW v, NEW n \in Int, Times!NewTime(v, n), n >= 0 => v = Canon(n)
  PROVE  InstantInv'
<1>1. n \in Nat /\ time' = v /\ timeIs' = n /\ UNCHANGED <<span, spanIs>>
  BY DEF Times!NewTime
<1>2. Canon(spanIs)' = Canon(spanIs')
  BY DEF Canon, Times!Parts, Times!Quot, Times!Rem, Times!Abs, Times!SECOND, Times!MILLISECOND,
    Times!MICROSECOND
<1>3. Canon(timeIs)' = Canon(timeIs')
  BY DEF Canon, Times!Parts, Times!Quot, Times!Rem, Times!Abs, Times!SECOND, Times!MILLISECOND,
    Times!MICROSECOND
<1> QED BY <1>1, <1>2, <1>3 DEF InstantInv

LEMMA InstantsStep ==
  ASSUME InstantInv, Times!Next
  PROVE  InstantInv'
<1> DEFINE s == Times!SECOND
           U(i) == Times!UNITS[i]
<1>0. /\ s \in Nat \ {0} /\ Times!MILLISECOND \in Nat \ {0} /\ Amounts \subseteq Nat
      /\ \A i \in 1..9 : U(i) \in Nat \ {0}
  BY UnitsAndSeconds, DataAssumption
<1>1. spanIs \in Int /\ span = Canon(spanIs) /\ timeIs \in Nat /\ time = Canon(timeIs)
  BY DEF InstantInv
<1>2. CASE Times!MakeSpan
  <2>1. ASSUME NEW x \in Amounts \cup {-1}, NEW y \in Amounts \cup {-1},
               Times!NewSpan(Times!Duration(x, y), x * s + y)
        PROVE  InstantInv'
    <3>1. x * s + y \in Int
      BY <1>0
    <3> QED BY <2>1, <3>1, DurationIs, NewSpanIs
  <2>2. ASSUME NEW n \in Amounts, NEW i \in 1..9, Times!NewSpan(Times!OfUnit(n, U(i)), n * U(i))
        PROVE  InstantInv'
    <3>1. n \in Int /\ n * U(i) \in Int
      BY <1>0
    <3>2. Times!OfUnit(n, U(i)) = Canon(n * U(i))
      BY <3>1, OfUnitIs
    <3> QED BY <2>2, <3>1, <3>2, NewSpanIs
  <2>3. ASSUME NEW n \in {0, 2, 5}, NEW f \in {0, 2, 5}, NEW scale \in {10, 100}, NEW i \in {3, 4},
               Times!NewSpan(Times!OfFloat(n, f, scale, U(i)), ((n * scale + f) * U(i)) \div scale)
        PROVE  InstantInv'
    <3>1. n \in Nat /\ f \in Nat /\ scale \in Nat \ {0} /\ U(i) \in Nat \ {0}
      BY <1>0
    <3> DEFINE m == ((n * scale + f) * U(i)) \div scale
    <3>2. Times!OfFloat(n, f, scale, U(i)) = Canon(m)
      <4> DEFINE u == U(i)
      <4>1. u \in Nat \ {0}
        BY <3>1
      <4> HIDE DEF u
      <4>2. Times!OfFloat(n, f, scale, u) = Canon(((n * scale + f) * u) \div scale)
        BY <3>1, <4>1, OfFloatIs
      <4> QED BY <4>2 DEF u
    <3>4. m \in Int
      <4> DEFINE u == U(i)
                 k == n * scale + f
                 w == k * u
      <4>1. u \in Nat \ {0} /\ k \in Nat
        BY <3>1
      <4> HIDE DEF u, k
      <4>2. w \in Nat
        BY <4>1
      <4> HIDE DEF w
      <4>3. w \div scale \in Int
        BY <3>1, <4>2
      <4> QED BY <4>3 DEF w, k, u
    <3> HIDE DEF m
    <3>3. Times!NewSpan(Times!OfFloat(n, f, scale, U(i)), m)
      BY <2>3 DEF m
    <3> QED BY <3>2, <3>3, <3>4, NewSpanIs
  <2>4. ASSUME NEW n \in Amounts, NEW m \in Amounts, NEW i \in 1..9, NEW j \in 1..9,
               Times!NewSpan(Times!ParseString(<< <<n, U(i)>>, <<m, U(j)>> >>), n * U(i) + m * U(j))
        PROVE  InstantInv'
    <3>1. n \in Nat /\ m \in Nat /\ n * U(i) + m * U(j) \in Int
      BY <1>0
    <3>2. Times!ParseString(<< <<n, U(i)>>, <<m, U(j)>> >>) = Canon(n * U(i) + m * U(j))
      BY <3>1, TwoParts
    <3> QED BY <2>4, <3>1, <3>2, NewSpanIs
  <2>5. \/ \E x, y \in Amounts \cup {-1} : Times!NewSpan(Times!Duration(x, y), x * s + y)
        \/ \E n \in Amounts, i \in 1..9 : Times!NewSpan(Times!OfUnit(n, U(i)), n * U(i))
        \/ \E n, f \in {0, 2, 5}, scale \in {10, 100}, i \in {3, 4} :
             Times!NewSpan(Times!OfFloat(n, f, scale, U(i)), ((n * scale + f) * U(i)) \div scale)
        \/ \E n, m \in Amounts, i, j \in 1..9 :
             Times!NewSpan(Times!ParseString(<< <<n, U(i)>>, <<m, U(j)>> >>), n * U(i) + m * U(j))
    BY <1>2 DEF Times!MakeSpan
  <2>6. CASE \E x, y \in Amounts \cup {-1} : Times!NewSpan(Times!Duration(x, y), x * s + y)
    BY <2>1, <2>6
  <2>7. CASE \E n \in Amounts, i \in 1..9 : Times!NewSpan(Times!OfUnit(n, U(i)), n * U(i))
    BY <2>2, <2>7
  <2>8. CASE \E n, f \in {0, 2, 5}, scale \in {10, 100}, i \in {3, 4} :
             Times!NewSpan(Times!OfFloat(n, f, scale, U(i)), ((n * scale + f) * U(i)) \div scale)
    BY <2>3, <2>8
  <2>9. CASE \E n, m \in Amounts, i, j \in 1..9 :
             Times!NewSpan(Times!ParseString(<< <<n, U(i)>>, <<m, U(j)>> >>), n * U(i) + m * U(j))
    BY <2>4, <2>9
  <2> QED BY <2>5, <2>6, <2>7, <2>8, <2>9
<1>3. CASE Times!CombineSpans
  <2>1. PICK n \in Amounts :
          \/ Times!NewSpan(Times!AddSpans(span, Times!OfNanoseconds(n)), spanIs + n)
          \/ Times!NewSpan(Times!SubSpans(span, Times!OfNanoseconds(n)), spanIs - n)
          \/ Times!NewSpan(Times!Times(span, n), spanIs * n)
          \/ n # 0 /\ Times!NewSpan(Times!Divided(span, n), Times!Quot(spanIs, n))
          \/ n # 0 /\ Times!NewSpan(Times!Modulo(span, Times!OfNanoseconds(n)), Times!Rem(spanIs, n))
    BY <1>3 DEF Times!CombineSpans
  <2>2. n \in Nat /\ Times!OfNanoseconds(n) = Canon(n)
    BY <1>0, OfNanosecondsIs
  <2>3. spanIs + n \in Int /\ spanIs - n \in Int /\ spanIs * n \in Int
    BY <1>1, <2>2
  <2>4. n # 0 => Times!Quot(spanIs, n) \in Int /\ Times!Rem(spanIs, n) \in Int
    BY <1>1, <2>2, QuotAndRem
  <2>5. /\ Times!AddSpans(span, Canon(n)) = Canon(spanIs + n)
        /\ Times!SubSpans(span, Canon(n)) = Canon(spanIs - n)
    BY <1>1, <2>2, AddSpansIs
  <2>6. /\ Times!Times(span, n) = Canon(spanIs * n)
        /\ n # 0 => Times!Divided(span, n) = Canon(Times!Quot(spanIs, n))
        /\ n # 0 => Times!Modulo(span, Canon(n)) = Canon(Times!Rem(spanIs, n))
    BY <1>1, <2>2, OtherSpansAre
  <2> QED BY <2>1, <2>2, <2>3, <2>4, <2>5, <2>6, NewSpanIs
<1>4. CASE Times!MakeTime
  <2>1. ASSUME NEW x \in Amounts, NEW y \in Amounts, Times!NewTime(Times!DateTime(x, y), x * s + y)
        PROVE  InstantInv'
    <3>1. x \in Int /\ y \in Nat /\ x * s + y \in Nat
      BY <1>0
    <3>2. Times!DateTime(x, y) = Canon(x * s + y)
      BY <3>1, DateTimeIs
    <3> QED BY <2>1, <3>1, <3>2, NewTimeIs
  <2>2. ASSUME NEW ms \in Amounts, Times!NewTime(Times!OfDate(ms), ms * Times!MILLISECOND)
        PROVE  InstantInv'
    <3>1. ms \in Nat /\ ms * Times!MILLISECOND \in Int
      BY <1>0
    <3> QED BY <2>2, <3>1, OfDateIs, NewTimeIs
  <2>3. ASSUME NEW n \in Amounts, NEW i \in 1..4, Times!NewTime(Times!OfEpochUnit(n, U(i)), n * U(i))
        PROVE  InstantInv'
    <3>1. n \in Nat /\ n * U(i) \in Int
      BY <1>0
    <3> QED BY <2>3, <3>1, OfEpochIs, NewTimeIs
  <2> QED BY <1>4, <2>1, <2>2, <2>3 DEF Times!MakeTime
<1>5. CASE Times!MoveTime
  <2>1. spanIs \in Nat
    BY <1>1, <1>5 DEF Times!MoveTime
  <2>2. /\ Times!AddTime(time, span) = Canon(timeIs + spanIs)
        /\ timeIs - spanIs >= 0 => Times!SubTime(time, span) = Canon(timeIs - spanIs)
    BY <1>1, <2>1, AddTimeIs
  <2>3. timeIs + spanIs \in Int /\ timeIs - spanIs \in Int
    BY <1>1, <2>1
  <2>4. \/ Times!NewTime(Times!AddTime(time, span), timeIs + spanIs)
        \/ Times!NewTime(Times!SubTime(time, span), timeIs - spanIs)
    BY <1>5 DEF Times!MoveTime
  <2> QED BY <2>2, <2>3, <2>4, NewTimeIs
<1>6. CASE Times!Measure
  <2>1. PICK n \in Amounts :
          Times!NewSpan(Times!Diff(time, Times!OfEpochNanoseconds(n)), Times!Abs(timeIs - n))
    BY <1>6 DEF Times!Measure
  <2>2. n \in Nat /\ Times!OfEpochNanoseconds(n) = Canon(n) /\ timeIs - n \in Int
    BY <1>0, <1>1, OfEpochIs
  <2>3. Times!Total(time) = timeIs /\ Times!Total(Canon(n)) = n
    BY <1>1, <2>2, TotalOfCanon
  <2>4. Times!Abs(timeIs - n) \in Int
    BY <2>2 DEF Times!Abs
  <2>5. Times!Diff(time, Canon(n)) = Canon(Times!Abs(timeIs - n))
    BY <2>3, <2>4, OfNanosecondsIs DEF Times!Diff
  <2> QED BY <2>1, <2>2, <2>4, <2>5, NewSpanIs
<1> QED BY <1>2, <1>3, <1>4, <1>5, <1>6 DEF Times!Next

LEMMA InstantsRest ==
  ASSUME InstantInv, UNCHANGED instantVars
  PROVE  InstantInv'
<1>1. UNCHANGED <<span, spanIs, time, timeIs>>
  BY DEF instantVars
<1> QED BY <1>1 DEF InstantInv, Canon, Times!Parts, Times!Quot, Times!Rem, Times!Abs,
   Times!SECOND,
  Times!MILLISECOND, Times!MICROSECOND

LEMMA SpansExact ==
  ASSUME InstantInv
  PROVE  Times!SpansAreExact /\ Times!SpansReadBack
<1> DEFINE s == Times!SECOND
           i == span.s
           r == span.ns
<1>1. spanIs \in Int /\ span = Canon(spanIs) /\ s \in Nat \ {0} /\ Amounts \subseteq Nat
  BY UnitsAndSeconds, DataAssumption DEF InstantInv
<1>2. Times!Total(span) = spanIs /\ i = Times!Quot(spanIs, s) /\ r = Times!Rem(spanIs, s)
  BY <1>1, TotalOfCanon
<1>3. /\ i \in Int /\ r \in Int
      /\ spanIs >= 0 => i >= 0 /\ 0 <= r /\ r < s
      /\ spanIs <= 0 => i <= 0 /\ -s < r /\ r <= 0
  BY <1>1, <1>2, QuotAndRem
<1>4. Times!Abs(r) < s /\ i * r >= 0
  <2> HIDE DEF i, r, s
  <2>1. CASE spanIs >= 0
    <3>1. Times!Abs(r) = r
      BY <1>3, <2>1 DEF Times!Abs
    <3>2. i * r >= 0
      BY <1>3, <2>1
    <3> QED BY <1>3, <2>1, <3>1, <3>2
  <2>2. CASE spanIs < 0
    <3>1. Times!Abs(r) < s
      BY <1>1, <1>3, <2>2 DEF Times!Abs
    <3>2. i * r >= 0
      BY <1>1, <1>3, <2>2
    <3> QED BY <3>1, <3>2
  <2> QED BY <1>1, <2>1, <2>2
<1>5. ASSUME NEW n \in Amounts
      PROVE  /\ Times!Compare(span, Times!OfNanoseconds(n)) =
                  IF spanIs < n THEN -1 ELSE IF spanIs > n THEN 1 ELSE 0
             /\ n # 0 => Times!Total(Times!Modulo(span, Times!OfNanoseconds(n)))
                           + n * Times!Ratio(span, Times!OfNanoseconds(n)) = spanIs
  <2>1. n \in Nat /\ Times!OfNanoseconds(n) = Canon(n)
    BY <1>1, OfNanosecondsIs
  <2>2. Times!Compare(span, Canon(n)) = IF spanIs < n THEN -1 ELSE IF spanIs > n THEN 1 ELSE 0
    BY <1>1, <2>1, CompareIs
  <2>3. ASSUME n # 0
        PROVE  Times!Total(Times!Modulo(span, Canon(n))) + n * Times!Ratio(span, Canon(n)) = spanIs
    <3> DEFINE q == Times!Quot(spanIs, n)  m == Times!Rem(spanIs, n)
    <3>1. m \in Int /\ n * q \in Int /\ spanIs = n * q + m
      BY <1>1, <2>1, <2>3, QuotAndRem
    <3>2. Times!Modulo(span, Canon(n)) = Canon(m) /\ Times!Ratio(span, Canon(n)) = q
      BY <1>1, <2>1, <2>3, OtherSpansAre
    <3>3. Times!Total(Canon(m)) = m
      BY <3>1, TotalOfCanon
    <3> HIDE DEF q, m
    <3> QED BY <1>1, <3>1, <3>2, <3>3
  <2> QED BY <2>1, <2>2, <2>3
<1>6. ASSUME NEW j \in 2..9
      PROVE  Times!InUnit(span, Times!UNITS[j]) = Times!Quot(spanIs, Times!UNITS[j])
  <2>1. j \in 1..9
    OBVIOUS
  <2> QED BY <1>1, <2>1, InUnitIs
<1>7. spanIs >= 0 => /\ Times!OfCompact(Times!ToCompact(span)) = span
                     /\ Times!ParseString(Times!ToString(span)) = span
  BY <1>1, CompactHas, TextReadsBack
<1> QED BY <1>2, <1>4, <1>5, <1>6, <1>7 DEF Times!SpansAreExact, Times!SpansReadBack

LEMMA TimesExact ==
  ASSUME InstantInv
  PROVE  Times!TimesAreExact
<1>1. timeIs \in Nat /\ time = Canon(timeIs) /\ Amounts \subseteq Nat
  BY DataAssumption DEF InstantInv
<1>2. Times!Total(time) = timeIs /\ 0 <= time.ns /\ time.ns < Times!SECOND
  BY <1>1, TotalOfCanon, PartsOfNat
<1>3. Times!Rem(timeIs, Times!MILLISECOND) = 0 => Times!OfDate(Times!ToDate(time)) = time
  BY <1>1, ToDateIs
<1>4. ASSUME NEW n \in Amounts
      PROVE  Times!CompareTimes(time, Times!OfEpochNanoseconds(n)) =
               IF timeIs < n THEN -1 ELSE IF timeIs > n THEN 1 ELSE 0
  <2>1. n \in Nat /\ Times!OfEpochNanoseconds(n) = Canon(n)
    BY <1>1, OfEpochIs
  <2>2. Times!Total(Canon(n)) = n
    BY <2>1, TotalOfCanon
  <2> QED BY <1>1, <1>2, <2>1, <2>2 DEF Times!CompareTimes
<1> QED BY <1>2, <1>3, <1>4 DEF Times!TimesAreExact

(* After any sequence of operations a duration and a date are the numbers  *)
(* of nanoseconds that arithmetic says, and a duration of at least zero    *)
(* survives its text and its wire form, whatever the ratios of the units   *)
(* (duration.ts, datetime.ts).                                             *)
THEOREM InstantsStayExact == DataSpec => []InstantsAreExact
<1> DEFINE I == part = "instants" => InstantInv
<1>1. DataInit => I
  BY InstantsInit DEF DataInit
<1>2. I /\ [DataNext]_dataVars => I'
  <2>1. ASSUME I, DataNext, part = "instants" PROVE I'
    <3>1. Times!Next /\ InstantInv
      BY <2>1 DEF DataNext
    <3> QED BY <3>1, InstantsStep
  <2>2. ASSUME I, part # "instants", part' = part PROVE I'
    BY <2>2
  <2>3. ASSUME I, UNCHANGED dataVars PROVE I'
    <3>1. UNCHANGED instantVars /\ part' = part
      BY <2>3 DEF dataVars
    <3> QED BY <2>3, <3>1, InstantsRest
  <2> QED BY <2>1, <2>2, <2>3 DEF DataNext
<1>3. I => InstantsAreExact
  BY SpansExact, TimesExact DEF InstantsAreExact
<1> QED BY <1>1, <1>2, <1>3, PTL DEF DataSpec

-----------------------------------------------------------------------------
(* Induction on numbers, from the least element of a set of them.          *)

LEMMA LessIsWellFounded == IsWellFoundedOn({p \in Nat \X Nat : p[1] < p[2]}, Nat)
  BY NatLessThanWellFounded DEF OpToRel

LEMMA Least ==
  ASSUME NEW T \in SUBSET Nat, T # {}
  PROVE  \E n \in T : \A m \in T : n <= m
<1> DEFINE R == {p \in Nat \X Nat : p[1] < p[2]}
<1>1. IsWellFoundedOn(R, Nat)
  BY LessIsWellFounded
<1>2. \A m, n \in Nat : m < n => <<m, n>> \in R
  OBVIOUS
<1> HIDE DEF R
<1>3. \E n \in T : \A m \in T : ~(<<m, n>> \in R)
  BY <1>1, WFMin
<1>4. \A m, n \in T : m \in Nat /\ n \in Nat
  OBVIOUS
<1>5. ASSUME NEW n \in T, NEW m \in T, ~(<<m, n>> \in R) PROVE n <= m
  BY <1>2, <1>4, <1>5
<1> QED BY <1>3, <1>5

LEMMA SetInduction ==
  ASSUME NEW T, 0 \in T, \A n \in Nat : n \in T => n + 1 \in T
  PROVE  Nat \subseteq T
<1> DEFINE Out == {n \in Nat : n \notin T}
<1> SUFFICES ASSUME Out # {} PROVE FALSE
  OBVIOUS
<1>1. PICK n \in Out : \A m \in Out : n <= m
  BY Least
<1>2. n \in Nat /\ n # 0
  OBVIOUS
<1>3. n - 1 \in Nat /\ n - 1 \notin Out
  BY <1>1, <1>2
<1>4. (n - 1) + 1 = n
  BY <1>2
<1> QED BY <1>1, <1>3, <1>4

\* What a recursive function computes: a start and a step for every number.
Computes(f, n, a, h) == f[0] = a /\ \A i \in 1..n : f[i] = h[i][f[i - 1]]

LEMMA Recursion ==
  ASSUME NEW S, NEW n \in Nat, NEW a \in S, NEW h \in [1..n -> [S -> S]]
  PROVE  \E f \in [0..n -> S] : Computes(f, n, a, h)
<1> DEFINE T == {m \in Nat : m <= n => \E f \in [0..m -> S] : Computes(f, m, a, h)}
<1>1. 0 \in T
  <2>1. [i \in 0..0 |-> a] \in [0..0 -> S] /\ Computes([i \in 0..0 |-> a], 0, a, h)
    BY DEF Computes
  <2> QED BY <2>1
<1>2. ASSUME NEW m \in Nat, m \in T PROVE m + 1 \in T
  <2> SUFFICES ASSUME m + 1 <= n PROVE \E f \in [0..(m + 1) -> S] : Computes(f, m + 1, a, h)
    OBVIOUS
  <2>1. PICK f \in [0..m -> S] : Computes(f, m, a, h)
    BY <1>2
  <2> DEFINE g == [i \in 0..(m + 1) |-> IF i = m + 1 THEN h[m + 1][f[m]] ELSE f[i]]
  <2>2. m + 1 \in 1..n /\ f[m] \in S /\ h[m + 1] \in [S -> S]
    OBVIOUS
  <2>3. g \in [0..(m + 1) -> S]
    BY <2>2
  <2>4. g[0] = a
    BY <2>1 DEF Computes
  <2>5. ASSUME NEW i \in 1..(m + 1) PROVE g[i] = h[i][g[i - 1]]
    <3>1. CASE i = m + 1
      BY <3>1
    <3>2. CASE i # m + 1
      <4>1. i \in 1..m /\ i - 1 \in 0..m /\ g[i] = f[i] /\ g[i - 1] = f[i - 1]
        BY <3>2
      <4> QED BY <2>1, <4>1 DEF Computes
    <3> QED BY <3>1, <3>2
  <2> HIDE DEF g
  <2> QED BY <2>3, <2>4, <2>5 DEF Computes
<1> HIDE DEF T
<1>3. Nat \subseteq T
  BY <1>1, <1>2, SetInduction
<1> QED BY <1>3 DEF T

GoAlike(f, g, n) == f[0] = g[0] /\ \A i \in 1..n : f[i - 1] = g[i - 1] => f[i] = g[i]

LEMMA SameSoFar ==
  ASSUME NEW n \in Nat, NEW f, NEW g, GoAlike(f, g, n)
  PROVE  \A i \in 0..n : f[i] = g[i]
<1> DEFINE T == {m \in Nat : m <= n => f[m] = g[m]}
<1>1. 0 \in T
  BY DEF GoAlike
<1>2. ASSUME NEW m \in Nat, m \in T PROVE m + 1 \in T
  <2> SUFFICES ASSUME m + 1 <= n PROVE f[m + 1] = g[m + 1]
    OBVIOUS
  <2>1. m + 1 \in 1..n /\ (m + 1) - 1 = m /\ f[m] = g[m]
    BY <1>2
  <2> QED BY <2>1 DEF GoAlike
<1> HIDE DEF T
<1>3. Nat \subseteq T
  BY <1>1, <1>2, SetInduction
<1> QED BY <1>3 DEF T

-----------------------------------------------------------------------------
(* The reader of a chat.  Its body is a sequence of frames of one or two   *)
(* lines; the invariant says which frames are still to come, wherever the  *)
(* network cut what came.                                                  *)

LineEnds == {<<Chat!LF>>, <<Chat!CR, Chat!LF>>}
Lines    == {Delta, Keep, Last, Sentinel}
Chars    == Lines \cup {Chat!CR, Chat!LF}

\* The data of a frame: its lines but for comments.
LEMMA KeptIs ==
  ASSUME NEW s \in Seq(Chars)
  PROVE  \E f \in [0..Len(s) -> Seq(Chars)] :
           /\ Chat!Data(s) = f[Len(s)] /\ f[0] = << >>
           /\ \A i \in 1..Len(s) : f[i] = IF Chat!IsData(s[i]) THEN Append(f[i - 1], s[i])
                                          ELSE f[i - 1]
<1> DEFINE n == Len(s)
           S == Seq(Chars)
           none == << >>
           h == [i \in 1..n |-> [t \in S |-> IF Chat!IsData(s[i]) THEN Append(t, s[i]) ELSE t]]
           K(f) == [i \in 0..n |-> IF i = 0 THEN << >>
                                   ELSE IF Chat!IsData(s[i]) THEN Append(f[i - 1], s[i])
                                   ELSE f[i - 1]]
           Kept(f) == /\ f[0] = << >>
                      /\ \A i \in 1..n : f[i] = IF Chat!IsData(s[i]) THEN Append(f[i - 1], s[i])
                                               ELSE f[i - 1]
           c == CHOOSE f : f = K(f)
<1>1. n \in Nat /\ none \in S /\ \A i \in 1..n : s[i] \in Chars
  OBVIOUS
<1>2. h \in [1..n -> [S -> S]]
  <2>1. \A i \in 1..n, t \in S : Append(t, s[i]) \in S
    BY <1>1, AppendProperties
  <2> HIDE DEF S, n
  <2> QED BY <2>1
<1>3. PICK f \in [0..n -> S] : Computes(f, n, none, h)
  <2> HIDE DEF h, S, n, none
  <2> QED BY <1>1, <1>2, Recursion
<1>4. \A i \in 1..n : i \in 0..n /\ i # 0 /\ i - 1 \in 0..n
  BY <1>1
<1>5. Kept(f)
  <2> HIDE DEF S, n
  <2>1. \A i \in 1..n : f[i - 1] \in S
    BY <1>4
  <2> QED BY <1>3, <2>1 DEF Computes
<1>6. f = K(f)
  <2> HIDE DEF S
  <2>1. \A i \in 0..n : i # 0 => i \in 1..n
    BY <1>1
  <2>2. \A i \in 0..n : f[i] = K(f)[i]
    BY <1>5, <2>1
  <2>3. f = [i \in 0..n |-> f[i]]
    OBVIOUS
  <2> QED BY <2>2, <2>3
<1>7. c = K(c)
  BY <1>6
<1>8. ASSUME NEW g, g = K(g) PROVE g = f
  <2> HIDE DEF S, n
  <2>1. g[0] = << >>
    BY <1>1, <1>8
  <2>2. Kept(g) /\ g = [i \in 0..n |-> g[i]]
    BY <1>4, <1>8, <2>1
  <2>3. GoAlike(f, g, n)
    BY <1>5, <2>2 DEF GoAlike
  <2>4. n \in Nat
    BY <1>1
  <2>5. \A i \in 0..n : f[i] = g[i]
    BY <2>3, <2>4, SameSoFar
  <2> QED BY <2>2, <2>5
<1>10. c = f
  <2> HIDE DEF c, K
  <2> QED BY <1>7, <1>8
<1>11. Chat!Data(s) = c[n]
  BY DEF Chat!Data
<1> QED
  <2> HIDE DEF c
  <2> QED BY <1>5, <1>10, <1>11

\* Comments and the ends of lines are no data.
LEMMA DataAmongLines ==
  ASSUME NEW a \in Lines, NEW b \in Lines
  PROVE  /\ Chat!Data(<<a, Chat!LF, b>>) = Chat!Data(<<a, b>>)
         /\ Chat!Data(<<a, Chat!CR, Chat!LF, b>>) = Chat!Data(<<a, b>>)
<1> DEFINE K(f, x) == IF Chat!IsData(x) THEN Append(f, x) ELSE f
           D == K(K(<< >>, a), b)
           s2 == <<a, b>>  s3 == <<a, Chat!LF, b>>  s4 == <<a, Chat!CR, Chat!LF, b>>
<1>1. ~Chat!IsData(Chat!CR) /\ ~Chat!IsData(Chat!LF)
  BY DEF Chat!IsData
<1>2. /\ s2 \in Seq(Chars) /\ Len(s2) = 2 /\ s2[1] = a /\ s2[2] = b
      /\ s3 \in Seq(Chars) /\ Len(s3) = 3 /\ s3[1] = a /\ s3[2] = Chat!LF /\ s3[3] = b
      /\ s4 \in Seq(Chars) /\ Len(s4) = 4 /\ s4[1] = a /\ s4[2] = Chat!CR /\ s4[3] = Chat!LF
      /\ s4[4] = b
  BY DEF Chars
<1> HIDE DEF s2, s3, s4
<1>3. Chat!Data(s2) = D
  <2>1. PICK f \in [0..Len(s2) -> Seq(Chars)] :
          /\ Chat!Data(s2) = f[Len(s2)] /\ f[0] = << >>
          /\ \A i \in 1..Len(s2) : f[i] = K(f[i - 1], s2[i])
    BY <1>2, KeptIs
  <2>2. f[1] = K(f[0], s2[1]) /\ f[2] = K(f[1], s2[2])
    <3>1. 1 \in 1..Len(s2) /\ 2 \in 1..Len(s2) /\ 1 - 1 = 0 /\ 2 - 1 = 1
      BY <1>2
    <3> HIDE DEF K
    <3> QED BY <2>1, <3>1
  <2> QED BY <1>2, <2>1, <2>2
<1>4. Chat!Data(s3) = D
  <2>1. PICK f \in [0..Len(s3) -> Seq(Chars)] :
          /\ Chat!Data(s3) = f[Len(s3)] /\ f[0] = << >>
          /\ \A i \in 1..Len(s3) : f[i] = K(f[i - 1], s3[i])
    BY <1>2, KeptIs
  <2>2. f[1] = K(f[0], s3[1]) /\ f[2] = K(f[1], s3[2]) /\ f[3] = K(f[2], s3[3])
    <3>1. /\ 1 \in 1..Len(s3) /\ 2 \in 1..Len(s3) /\ 3 \in 1..Len(s3)
          /\ 1 - 1 = 0 /\ 2 - 1 = 1 /\ 3 - 1 = 2
      BY <1>2
    <3> HIDE DEF K
    <3> QED BY <2>1, <3>1
  <2> QED BY <1>1, <1>2, <2>1, <2>2
<1>5. Chat!Data(s4) = D
  <2>1. PICK f \in [0..Len(s4) -> Seq(Chars)] :
          /\ Chat!Data(s4) = f[Len(s4)] /\ f[0] = << >>
          /\ \A i \in 1..Len(s4) : f[i] = K(f[i - 1], s4[i])
    BY <1>2, KeptIs
  <2>2. /\ f[1] = K(f[0], s4[1]) /\ f[2] = K(f[1], s4[2]) /\ f[3] = K(f[2], s4[3])
        /\ f[4] = K(f[3], s4[4])
    <3>1. /\ 1 \in 1..Len(s4) /\ 2 \in 1..Len(s4) /\ 3 \in 1..Len(s4) /\ 4 \in 1..Len(s4)
          /\ 1 - 1 = 0 /\ 2 - 1 = 1 /\ 3 - 1 = 2 /\ 4 - 1 = 3
      BY <1>2
    <3> HIDE DEF K
    <3> QED BY <2>1, <3>1
  <2> QED BY <1>1, <1>2, <2>1, <2>2
<1> HIDE DEF D
<1> QED BY <1>3, <1>4, <1>5 DEF s2, s3, s4

LEMMA DataIsSeq == \A s \in Seq(Chars) : Chat!Data(s) \in Seq(Chars)
<1> SUFFICES ASSUME NEW s \in Seq(Chars) PROVE Chat!Data(s) \in Seq(Chars)
  OBVIOUS
<1>1. PICK f \in [0..Len(s) -> Seq(Chars)] : Chat!Data(s) = f[Len(s)]
  BY KeptIs
<1>2. Len(s) \in 0..Len(s)
  OBVIOUS
<1> QED BY <1>1, <1>2

-----------------------------------------------------------------------------
\* A pattern stands at i when its characters stand from i on.
Stands(s, i, p) == i + Len(p) - 1 <= Len(s) /\ \A j \in 1..Len(p) : s[i + j - 1] = p[j]

LEMMA StartsIs ==
  ASSUME NEW s \in Seq(Chars), NEW i \in 1..Len(s), NEW p \in Seq(Chars), Len(p) >= 1
  PROVE  Chat!StartsWith(s, i, p) <=> Stands(s, i, p)
<1> DEFINE n == i + Len(p) - 1  t == SubSeq(s, i, n)
<1>1. Len(s) \in Nat /\ Len(p) \in Nat /\ i \in Nat /\ n \in Int
  OBVIOUS
<1> SUFFICES ASSUME n <= Len(s)
             PROVE  t = p <=> \A j \in 1..Len(p) : s[i + j - 1] = p[j]
  BY DEF Chat!StartsWith, Stands
<1>2. \A j \in i..n : s[j] \in Chars
  OBVIOUS
<1>3. /\ t \in Seq(Chars) /\ Len(t) = n - i + 1
      /\ \A j \in 1..(n - i + 1) : t[j] = s[i + j - 1]
  BY <1>1, <1>2, SubSeqProperties
<1>4. n - i + 1 = Len(p)
  BY <1>1
<1> HIDE DEF t, n
<1>5. ASSUME \A j \in 1..Len(p) : s[i + j - 1] = p[j] PROVE t = p
  <2>1. Len(t) = Len(p) /\ \A j \in 1..Len(t) : t[j] = p[j]
    BY <1>3, <1>4, <1>5
  <2> QED BY <1>3, <2>1, SeqEqual
<1> QED BY <1>3, <1>4, <1>5

\* A blank line, of line ends of either kind.
LEMMA SeparatesIs ==
  ASSUME NEW s \in Seq(Chars), NEW i \in 1..Len(s)
  PROVE  Chat!Separates(s, i) <=>
           \/ i + 1 <= Len(s) /\ s[i] = Chat!LF /\ s[i + 1] = Chat!LF
           \/ i + 2 <= Len(s) /\ s[i] = Chat!LF /\ s[i + 1] = Chat!CR /\ s[i + 2] = Chat!LF
           \/ i + 2 <= Len(s) /\ s[i] = Chat!CR /\ s[i + 1] = Chat!LF /\ s[i + 2] = Chat!LF
           \/ /\ i + 3 <= Len(s) /\ s[i] = Chat!CR /\ s[i + 1] = Chat!LF
              /\ s[i + 2] = Chat!CR /\ s[i + 3] = Chat!LF
<1> DEFINE C == Chat!CR  L == Chat!LF
           p1 == <<L, L>>  p2 == <<L, C, L>>  p3 == <<C, L, L>>  p4 == <<C, L, C, L>>
<1>1. /\ p1 \in Seq(Chars) /\ Len(p1) = 2 /\ p1[1] = L /\ p1[2] = L
      /\ p2 \in Seq(Chars) /\ Len(p2) = 3 /\ p2[1] = L /\ p2[2] = C /\ p2[3] = L
      /\ p3 \in Seq(Chars) /\ Len(p3) = 3 /\ p3[1] = C /\ p3[2] = L /\ p3[3] = L
      /\ p4 \in Seq(Chars) /\ Len(p4) = 4 /\ p4[1] = C /\ p4[2] = L /\ p4[3] = C /\ p4[4] = L
  BY DEF Chars
<1>2. /\ 1..2 = {1, 2} /\ 1..3 = {1, 2, 3} /\ 1..4 = {1, 2, 3, 4}
      /\ i + 1 - 1 = i /\ i + 2 - 1 = i + 1 /\ i + 3 - 1 = i + 2 /\ i + 4 - 1 = i + 3
  OBVIOUS
<1>5. Chat!Separates(s, i) <=> \/ Chat!StartsWith(s, i, p1) \/ Chat!StartsWith(s, i, p2)
                               \/ Chat!StartsWith(s, i, p3) \/ Chat!StartsWith(s, i, p4)
  BY DEF Chat!Separates, Chat!Blank
<1> HIDE DEF p1, p2, p3, p4
<1>6. Chat!Separates(s, i) <=> \/ Stands(s, i, p1) \/ Stands(s, i, p2)
                               \/ Stands(s, i, p3) \/ Stands(s, i, p4)
  <2>1. \A p \in Seq(Chars) : Len(p) >= 1 => (Chat!StartsWith(s, i, p) <=> Stands(s, i, p))
    BY StartsIs
  <2>2. Len(p1) >= 1 /\ Len(p2) >= 1 /\ Len(p3) >= 1 /\ Len(p4) >= 1
    BY <1>1
  <2>3. \A p \in {p1, p2, p3, p4} : Chat!StartsWith(s, i, p) <=> Stands(s, i, p)
    BY <1>1, <2>1, <2>2
  <2> QED BY <1>5, <2>3
<1>7. Stands(s, i, p1) <=> i + 1 <= Len(s) /\ s[i] = L /\ s[i + 1] = L
  BY <1>1, <1>2 DEF Stands
<1>8. Stands(s, i, p2) <=> i + 2 <= Len(s) /\ s[i] = L /\ s[i + 1] = C /\ s[i + 2] = L
  BY <1>1, <1>2 DEF Stands
<1>9. Stands(s, i, p3) <=> i + 2 <= Len(s) /\ s[i] = C /\ s[i + 1] = L /\ s[i + 2] = L
  BY <1>1, <1>2 DEF Stands
<1>10. Stands(s, i, p4) <=> /\ i + 3 <= Len(s) /\ s[i] = C /\ s[i + 1] = L /\ s[i + 2] = C
                           /\ s[i + 3] = L
  BY <1>1, <1>2 DEF Stands
<1> QED BY <1>6, <1>7, <1>8, <1>9, <1>10

\* The four forms of a closed frame: of one line or two, with line ends of either kind.
Short(B, a)      == Len(B) = 3 /\ B[1] = a /\ B[2] = Chat!LF /\ B[3] = Chat!LF
ShortCR(B, a)    == /\ Len(B) = 5 /\ B[1] = a /\ B[2] = Chat!CR /\ B[3] = Chat!LF
                    /\ B[4] = Chat!CR /\ B[5] = Chat!LF
Long(B, a, b)    == /\ Len(B) = 5 /\ B[1] = a /\ B[2] = Chat!LF /\ B[3] = b
                    /\ B[4] = Chat!LF /\ B[5] = Chat!LF
LongCR(B, a, b)  == /\ Len(B) = 8 /\ B[1] = a /\ B[2] = Chat!CR /\ B[3] = Chat!LF
                    /\ B[4] = b /\ B[5] = Chat!CR /\ B[6] = Chat!LF
                    /\ B[7] = Chat!CR /\ B[8] = Chat!LF

LEMMA LinesAreChars ==
  /\ Chat!CR # Chat!LF /\ Chat!CR \in Chars /\ Chat!LF \in Chars /\ Lines \subseteq Chars
  /\ \A a \in Lines : a # Chat!CR /\ a # Chat!LF
<1>1. Chat!CR # Chat!LF
  BY DEF Chat!CR, Chat!LF
<1> QED BY <1>1, DataAssumption DEF Lines, Chars

LEMMA FrameIs ==
  ASSUME NEW f \in Chat!Frames
  PROVE  \E a \in Lines, b \in Lines : f = <<a>> \/ f = <<a, b>>
BY DEF Chat!Frames, Lines

\* A line and its end.
LEMMA LineHas ==
  ASSUME NEW a \in Lines, NEW eol \in LineEnds
  PROVE  /\ eol \in Seq(Chars) /\ <<a>> \o eol \in Seq(Chars)
         /\ eol = <<Chat!LF>> => /\ Len(eol) = 1 /\ eol[1] = Chat!LF /\ Len(<<a>> \o eol) = 2
                                 /\ (<<a>> \o eol)[1] = a /\ (<<a>> \o eol)[2] = Chat!LF
         /\ eol = <<Chat!CR, Chat!LF>> =>
              /\ Len(eol) = 2 /\ eol[1] = Chat!CR /\ eol[2] = Chat!LF /\ Len(<<a>> \o eol) = 3
              /\ (<<a>> \o eol)[1] = a /\ (<<a>> \o eol)[2] = Chat!CR
              /\ (<<a>> \o eol)[3] = Chat!LF
<1> DEFINE x == <<a>>  t == x \o eol
<1>1. x \in Seq(Chars) /\ Len(x) = 1 /\ x[1] = a
  BY LinesAreChars
<1>2. /\ eol \in Seq(Chars)
      /\ eol = <<Chat!LF>> => Len(eol) = 1 /\ eol[1] = Chat!LF
      /\ eol = <<Chat!CR, Chat!LF>> => Len(eol) = 2 /\ eol[1] = Chat!CR /\ eol[2] = Chat!LF
  <2> DEFINE p == <<Chat!LF>>  q == <<Chat!CR, Chat!LF>>
  <2>1. p \in Seq(Chars) /\ Len(p) = 1 /\ p[1] = Chat!LF
    BY LinesAreChars
  <2>2. q \in Seq(Chars) /\ Len(q) = 2 /\ q[1] = Chat!CR /\ q[2] = Chat!LF
    BY LinesAreChars
  <2>3. eol \in {p, q}
    BY DEF LineEnds
  <2> HIDE DEF p, q
  <2>4. /\ eol \in Seq(Chars)
        /\ eol = p => Len(eol) = 1 /\ eol[1] = Chat!LF
        /\ eol = q => Len(eol) = 2 /\ eol[1] = Chat!CR /\ eol[2] = Chat!LF
    BY <2>1, <2>2, <2>3
  <2> QED BY <2>4 DEF p, q
<1> HIDE DEF x
<1>3. /\ t \in Seq(Chars) /\ Len(t) = 1 + Len(eol)
      /\ \A i \in 1..(1 + Len(eol)) : t[i] = IF i <= 1 THEN x[i] ELSE eol[i - 1]
  <2>1. x \in Seq(Chars) /\ eol \in Seq(Chars) /\ Len(x) = 1
    BY <1>1, <1>2
  <2> QED BY SMTT(30), <2>1, ConcatProperties
<1> HIDE DEF t
<1>4. CASE eol = <<Chat!LF>>
  <2>1. t[1] = a /\ t[2] = Chat!LF
    BY <1>1, <1>2, <1>3, <1>4
  <2> QED BY <1>2, <1>3, <1>4, <2>1, LinesAreChars DEF t, x
<1>5. CASE eol = <<Chat!CR, Chat!LF>>
  <2>1. t[1] = a /\ t[2] = Chat!CR /\ t[3] = Chat!LF
    BY <1>1, <1>2, <1>3, <1>5
  <2> QED BY <1>2, <1>3, <1>5, <2>1, LinesAreChars DEF t, x
<1> QED BY <1>4, <1>5 DEF LineEnds

\* What a closed frame looks like on the wire.
BlockHas(B, f, eol) ==
  \E a \in Lines, b \in Lines :
    \/ f = <<a>> /\ eol = <<Chat!LF>> /\ Short(B, a)
    \/ f = <<a>> /\ eol = <<Chat!CR, Chat!LF>> /\ ShortCR(B, a)
    \/ f = <<a, b>> /\ eol = <<Chat!LF>> /\ Long(B, a, b)
    \/ f = <<a, b>> /\ eol = <<Chat!CR, Chat!LF>> /\ LongCR(B, a, b)

LEMMA BlockIs ==
  ASSUME NEW f \in Chat!Frames, NEW eol \in LineEnds
  PROVE  LET t == Chat!Text(f, eol) IN
         /\ t \in Seq(Chars) /\ t \o eol \in Seq(Chars) /\ eol \in Seq(Chars)
         /\ BlockHas(t \o eol, f, eol)
<1> DEFINE t == Chat!Text(f, eol)  B == t \o eol  C == Chat!CR  L == Chat!LF
<1>1. PICK a \in Lines, b \in Lines : f = <<a>> \/ f = <<a, b>>
  BY FrameIs
<1> DEFINE x == <<a>> \o eol  y == <<b>> \o eol
<1>2. x \in Seq(Chars) /\ y \in Seq(Chars) /\ eol \in Seq(Chars)
  BY LineHas
<1>3. eol = <<L>> => /\ Len(eol) = 1 /\ eol[1] = L /\ Len(x) = 2 /\ x[1] = a /\ x[2] = L
                     /\ Len(y) = 2 /\ y[1] = b /\ y[2] = L
  BY LineHas
<1>4. eol = <<C, L>> => /\ Len(eol) = 2 /\ eol[1] = C /\ eol[2] = L
                        /\ Len(x) = 3 /\ x[1] = a /\ x[2] = C /\ x[3] = L
                        /\ Len(y) = 3 /\ y[1] = b /\ y[2] = C /\ y[3] = L
  BY LineHas
<1> HIDE DEF x, y
<1>5. CASE f = <<a>>
  <2>1. f[1] = a /\ Len(f) = 1
    BY <1>5
  <2>2. t = x \o << >>
    BY <2>1 DEF Chat!Text, x
  <2>3. t = x
    BY <1>2, <2>2, ConcatEmptySeq
  <2> DEFINE z == x \o eol
  <2>4. /\ z \in Seq(Chars) /\ Len(z) = Len(x) + Len(eol)
        /\ \A i \in 1..(Len(x) + Len(eol)) : z[i] = IF i <= Len(x) THEN x[i] ELSE eol[i - Len(x)]
    BY <1>2, ConcatProperties
  <2>5. B = z
    BY <2>3
  <2> HIDE DEF z, t, B
  <2>6. CASE eol = <<L>>
    <3>0. Len(eol) = 1 /\ eol[1] = L /\ Len(x) = 2 /\ x[1] = a /\ x[2] = L
      BY <1>3, <2>6
    <3>1. Len(z) = 3 /\ z[1] = a /\ z[2] = L /\ z[3] = L
      BY <2>4, <3>0
    <3>2. Short(B, a)
      BY <2>5, <3>1 DEF Short
    <3>3. BlockHas(B, f, eol)
      BY <1>5, <2>6, <3>2 DEF BlockHas
    <3> QED BY <1>2, <2>3, <2>4, <2>5, <3>3 DEF B, t
  <2>7. CASE eol = <<C, L>>
    <3>1. Len(z) = 5 /\ z[1] = a /\ z[2] = C /\ z[3] = L /\ z[4] = C /\ z[5] = L
      <4>1. /\ Len(eol) = 2 /\ eol[1] = C /\ eol[2] = L
            /\ Len(x) = 3 /\ x[1] = a /\ x[2] = C /\ x[3] = L
        BY <1>4, <2>7
      <4> QED BY <2>4, <4>1
    <3>2. ShortCR(B, a)
      BY <2>5, <3>1 DEF ShortCR
    <3>3. BlockHas(B, f, eol)
      BY <1>5, <2>7, <3>2 DEF BlockHas
    <3> QED BY <1>2, <2>3, <2>4, <2>5, <3>3 DEF B, t
  <2> QED BY <2>6, <2>7 DEF LineEnds
<1>6. CASE f = <<a, b>>
  <2>1. f[1] = a /\ f[2] = b /\ Len(f) = 2
    BY <1>6
  <2>2. t = x \o y
    BY <2>1 DEF Chat!Text, x, y
  <2> DEFINE w == x \o y  z == w \o eol
  <2>3. /\ w \in Seq(Chars) /\ Len(w) = Len(x) + Len(y)
        /\ \A i \in 1..(Len(x) + Len(y)) : w[i] = IF i <= Len(x) THEN x[i] ELSE y[i - Len(x)]
    BY <1>2, ConcatProperties
  <2>5. B = z /\ t = w
    BY <2>2
  <2> HIDE DEF w
  <2>4. /\ z \in Seq(Chars) /\ Len(z) = Len(w) + Len(eol)
        /\ \A i \in 1..(Len(w) + Len(eol)) : z[i] = IF i <= Len(w) THEN w[i] ELSE eol[i - Len(w)]
    <3>1. w \in Seq(Chars) /\ eol \in Seq(Chars)
      BY <1>2, <2>3
    <3> QED BY <3>1, ConcatProperties
  <2> HIDE DEF z, t, B
  <2>6. CASE eol = <<L>>
    <3>1. Len(w) = 4 /\ w[1] = a /\ w[2] = L /\ w[3] = b /\ w[4] = L
      <4>1. /\ Len(x) = 2 /\ x[1] = a /\ x[2] = L
            /\ Len(y) = 2 /\ y[1] = b /\ y[2] = L
        BY <1>3, <2>6
      <4> QED BY <2>3, <4>1
    <3>2. Len(z) = 5 /\ z[1] = a /\ z[2] = L /\ z[3] = b /\ z[4] = L /\ z[5] = L
      BY <1>3, <2>4, <2>6, <3>1
    <3>3. Long(B, a, b)
      BY <2>5, <3>2 DEF Long
    <3>4. BlockHas(B, f, eol)
      BY <1>6, <2>6, <3>3 DEF BlockHas
    <3> QED BY <1>2, <2>3, <2>4, <2>5, <3>4 DEF B, t
  <2>7. CASE eol = <<C, L>>
    <3>1. Len(w) = 6 /\ w[1] = a /\ w[2] = C /\ w[3] = L /\ w[4] = b /\ w[5] = C /\ w[6] = L
      <4>1. /\ Len(x) = 3 /\ x[1] = a /\ x[2] = C /\ x[3] = L
            /\ Len(y) = 3 /\ y[1] = b /\ y[2] = C /\ y[3] = L
        BY <1>4, <2>7
      <4> QED BY <2>3, <4>1
    <3>2. /\ Len(z) = 8 /\ z[1] = a /\ z[2] = C /\ z[3] = L /\ z[4] = b /\ z[5] = C /\ z[6] = L
          /\ z[7] = C /\ z[8] = L
      BY <1>4, <2>4, <2>7, <3>1
    <3>3. LongCR(B, a, b)
      BY <2>5, <3>2 DEF LongCR
    <3>4. BlockHas(B, f, eol)
      BY <1>6, <2>7, <3>3 DEF BlockHas
    <3> QED BY <1>2, <2>3, <2>4, <2>5, <3>4 DEF B, t
  <2> QED BY <2>6, <2>7 DEF LineEnds
<1> QED BY <1>1, <1>5, <1>6

-----------------------------------------------------------------------------
\* Nothing separates while a frame has not come to its end.
LEMMA NotYet ==
  ASSUME NEW B, NEW f, NEW eol, BlockHas(B, f, eol), NEW s \in Seq(Chars), Len(s) < Len(B),
         \A i \in 1..Len(s) : s[i] = B[i]
  PROVE  \A i \in 1..Len(s) : ~Chat!Separates(s, i)
<1> SUFFICES ASSUME NEW i \in 1..Len(s) PROVE ~Chat!Separates(s, i)
  OBVIOUS
<1> DEFINE n == Len(s)
<1>1. n \in Nat /\ i \in Nat /\ i >= 1 /\ i <= n /\ n < Len(B)
  OBVIOUS
<1>2. Chat!Separates(s, i) =>
        \/ i + 1 <= n /\ s[i] = Chat!LF /\ s[i + 1] = Chat!LF
        \/ i + 2 <= n /\ s[i] = Chat!LF /\ s[i + 1] = Chat!CR /\ s[i + 2] = Chat!LF
        \/ i + 2 <= n /\ s[i] = Chat!CR /\ s[i + 1] = Chat!LF /\ s[i + 2] = Chat!LF
        \/ /\ i + 3 <= n /\ s[i] = Chat!CR /\ s[i + 1] = Chat!LF
           /\ s[i + 2] = Chat!CR /\ s[i + 3] = Chat!LF
  BY SeparatesIs
<1>3. \A j \in 1..n : s[j] = B[j]
  OBVIOUS
<1>4. PICK a \in Lines, b \in Lines : Short(B, a) \/ ShortCR(B, a) \/ Long(B, a, b) \/ LongCR(B, a, b)
  BY DEF BlockHas
<1>5. a # Chat!CR /\ a # Chat!LF /\ b # Chat!CR /\ b # Chat!LF /\ Chat!CR # Chat!LF
  BY LinesAreChars
<1> HIDE DEF n
<1>6. CASE Short(B, a)
  BY <1>1, <1>2, <1>3, <1>5, <1>6 DEF Short
<1>7. CASE ShortCR(B, a)
  BY <1>1, <1>2, <1>3, <1>5, <1>7 DEF ShortCR
<1>8. CASE Long(B, a, b)
  BY <1>1, <1>2, <1>3, <1>5, <1>8 DEF Long
<1>9. CASE LongCR(B, a, b)
  BY <1>1, <1>2, <1>3, <1>5, <1>9 DEF LongCR
<1> QED BY <1>4, <1>6, <1>7, <1>8, <1>9

\* A whole frame is found at its blank line, and its data are those of the lines.
FoundIn(s, B, f) ==
  \E p \in 1..Len(s) :
    /\ Chat!Separates(s, p) /\ \A j \in 1..(p - 1) : ~Chat!Separates(s, j)
    /\ p + (IF s[p] = Chat!CR THEN 4 ELSE 2) = Len(B) + 1
    /\ Chat!Data(SubSeq(s, 1, p - 1)) = Chat!Data(f)

LEMMA FoundAt ==
  ASSUME NEW f \in Chat!Frames, NEW eol, NEW B, BlockHas(B, f, eol), NEW s \in Seq(Chars),
         Len(B) <= Len(s), \A i \in 1..Len(B) : s[i] = B[i]
  PROVE  FoundIn(s, B, f)
<1> SUFFICES \E p \in 1..Len(s) :
               /\ Chat!Separates(s, p) /\ \A j \in 1..(p - 1) : ~Chat!Separates(s, j)
               /\ p + (IF s[p] = Chat!CR THEN 4 ELSE 2) = Len(B) + 1
               /\ Chat!Data(SubSeq(s, 1, p - 1)) = Chat!Data(f)
  BY DEF FoundIn
<1> DEFINE n == Len(s)
           Found(p) == \/ p + 1 <= n /\ s[p] = Chat!LF /\ s[p + 1] = Chat!LF
                       \/ /\ p + 2 <= n /\ s[p] = Chat!LF /\ s[p + 1] = Chat!CR
                          /\ s[p + 2] = Chat!LF
                       \/ /\ p + 2 <= n /\ s[p] = Chat!CR /\ s[p + 1] = Chat!LF
                          /\ s[p + 2] = Chat!LF
                       \/ /\ p + 3 <= n /\ s[p] = Chat!CR /\ s[p + 1] = Chat!LF
                          /\ s[p + 2] = Chat!CR /\ s[p + 3] = Chat!LF
           Before(p) == SubSeq(s, 1, p - 1)
<1>1. n \in Nat /\ Len(B) <= n
  OBVIOUS
<1>2. \A p \in 1..n : Chat!Separates(s, p) <=> Found(p)
  BY SeparatesIs
<1>3. PICK a \in Lines, b \in Lines :
        \/ f = <<a>> /\ Short(B, a)
        \/ f = <<a>> /\ ShortCR(B, a)
        \/ f = <<a, b>> /\ Long(B, a, b)
        \/ f = <<a, b>> /\ LongCR(B, a, b)
  BY DEF BlockHas
<1>4. /\ a # Chat!CR /\ a # Chat!LF /\ b # Chat!CR /\ b # Chat!LF /\ Chat!CR # Chat!LF
      /\ {a, b, Chat!CR, Chat!LF} \subseteq Chars
  BY LinesAreChars
<1>5. ASSUME NEW m \in 1..n
      PROVE  \E r \in Seq(Chars) : /\ r = Before(m) /\ Len(r) = m - 1
                                   /\ \A i \in 1..(m - 1) : r[i] = s[i]
  <2>1. \A i \in 1..(m - 1) : s[i] \in Chars
    OBVIOUS
  <2>2. m - 1 \in Int /\ (1 <= m - 1 \/ m - 1 = 0)
    OBVIOUS
  <2> DEFINE r == Before(m)
  <2>3. /\ r \in Seq(Chars) /\ Len(r) = IF 1 <= m - 1 THEN m - 1 - 1 + 1 ELSE 0
        /\ \A i \in 1..(m - 1 - 1 + 1) : r[i] = s[1 + i - 1]
    BY <2>1, <2>2, SubSeqProperties
  <2> HIDE DEF r
  <2>4. Len(r) = m - 1 /\ \A i \in 1..(m - 1) : r[i] = s[i]
    BY <2>2, <2>3
  <2> QED BY <2>3, <2>4 DEF r
<1> HIDE DEF n, Before
<1>6. CASE f = <<a>> /\ Short(B, a)
  <2>1. 2 \in 1..n /\ s[1] = a /\ s[2] = Chat!LF /\ s[3] = Chat!LF /\ 3 <= n /\ Len(B) = 3
    BY <1>1, <1>6 DEF Short
  <2>2. Found(2) /\ ~Found(1)
    BY <1>4, <2>1
  <2>3. Before(2) = f
    <3>0. PICK r \in Seq(Chars) : r = Before(2) /\ Len(r) = 2 - 1 /\ \A i \in 1..(2 - 1) : r[i] = s[i]
      BY <1>5, <2>1
    <3>1. r \in Seq(Chars) /\ Len(r) = 1 /\ r[1] = a
      BY <2>1, <3>0
    <3>2. f \in Seq(Chars) /\ Len(f) = 1 /\ f[1] = a
      BY <1>4, <1>6
    <3>3. r = f
      BY <3>1, <3>2, SeqEqual
    <3> QED BY <3>0, <3>3
  <2> HIDE DEF Found
  <2>4. 1..(2 - 1) = {1} /\ 1 \in 1..n /\ 2 + (IF s[2] = Chat!CR THEN 4 ELSE 2) = Len(B) + 1
    BY <1>1, <1>4, <2>1
  <2> QED BY <1>2, <2>1, <2>2, <2>3, <2>4 DEF n, Before
<1>7. CASE f = <<a>> /\ ShortCR(B, a)
  <2>1. /\ 2 \in 1..n /\ s[1] = a /\ s[2] = Chat!CR /\ s[3] = Chat!LF /\ s[4] = Chat!CR
        /\ s[5] = Chat!LF /\ 5 <= n /\ Len(B) = 5
    BY <1>1, <1>7 DEF ShortCR
  <2>2. Found(2) /\ ~Found(1)
    BY <1>4, <2>1
  <2>3. Before(2) = f
    <3>0. PICK r \in Seq(Chars) : r = Before(2) /\ Len(r) = 2 - 1 /\ \A i \in 1..(2 - 1) : r[i] = s[i]
      BY <1>5, <2>1
    <3>1. r \in Seq(Chars) /\ Len(r) = 1 /\ r[1] = a
      BY <2>1, <3>0
    <3>2. f \in Seq(Chars) /\ Len(f) = 1 /\ f[1] = a
      BY <1>4, <1>7
    <3>3. r = f
      BY <3>1, <3>2, SeqEqual
    <3> QED BY <3>0, <3>3
  <2> HIDE DEF Found
  <2>4. 1..(2 - 1) = {1} /\ 1 \in 1..n /\ 2 + (IF s[2] = Chat!CR THEN 4 ELSE 2) = Len(B) + 1
    BY <1>1, <1>4, <2>1
  <2> QED BY <1>2, <2>1, <2>2, <2>3, <2>4 DEF n, Before
<1>8. CASE f = <<a, b>> /\ Long(B, a, b)
  <2>1. /\ 4 \in 1..n /\ s[1] = a /\ s[2] = Chat!LF /\ s[3] = b /\ s[4] = Chat!LF
        /\ s[5] = Chat!LF /\ 5 <= n /\ Len(B) = 5
    BY <1>1, <1>8 DEF Long
  <2>2. Found(4) /\ ~Found(1) /\ ~Found(2) /\ ~Found(3)
    BY <1>4, <2>1
  <2>3. Chat!Data(Before(4)) = Chat!Data(f)
    <3> DEFINE u == <<a, Chat!LF, b>>
    <3>0. PICK r \in Seq(Chars) : r = Before(4) /\ Len(r) = 4 - 1 /\ \A i \in 1..(4 - 1) : r[i] = s[i]
      BY <1>5, <2>1
    <3>1. r \in Seq(Chars) /\ Len(r) = 3 /\ r[1] = a /\ r[2] = Chat!LF /\ r[3] = b
      BY <2>1, <3>0
    <3>2. u \in Seq(Chars) /\ Len(u) = 3 /\ u[1] = a /\ u[2] = Chat!LF /\ u[3] = b
      BY <1>4
    <3>3. Chat!Data(u) = Chat!Data(f)
      BY <1>8, DataAmongLines
    <3> HIDE DEF u
    <3>4. r = u
      BY <3>1, <3>2, SeqEqual
    <3> QED BY <3>0, <3>3, <3>4
  <2> HIDE DEF Found
  <2>4. /\ 1..(4 - 1) = {1, 2, 3} /\ 1 \in 1..n /\ 2 \in 1..n /\ 3 \in 1..n
        /\ 4 + (IF s[4] = Chat!CR THEN 4 ELSE 2) = Len(B) + 1
    BY <1>1, <1>4, <2>1
  <2> QED BY <1>2, <2>1, <2>2, <2>3, <2>4 DEF n, Before
<1>9. CASE f = <<a, b>> /\ LongCR(B, a, b)
  <2>1. /\ 5 \in 1..n /\ s[1] = a /\ s[2] = Chat!CR /\ s[3] = Chat!LF /\ s[4] = b
        /\ s[5] = Chat!CR /\ s[6] = Chat!LF /\ s[7] = Chat!CR /\ s[8] = Chat!LF
        /\ 8 <= n /\ Len(B) = 8
    BY <1>1, <1>9 DEF LongCR
  <2>2. Found(5) /\ ~Found(1) /\ ~Found(2) /\ ~Found(3) /\ ~Found(4)
    BY <1>4, <2>1
  <2>3. Chat!Data(Before(5)) = Chat!Data(f)
    <3> DEFINE u == <<a, Chat!CR, Chat!LF, b>>
    <3>0. PICK r \in Seq(Chars) : r = Before(5) /\ Len(r) = 5 - 1 /\ \A i \in 1..(5 - 1) : r[i] = s[i]
      BY <1>5, <2>1
    <3>1. /\ r \in Seq(Chars) /\ Len(r) = 4 /\ r[1] = a /\ r[2] = Chat!CR /\ r[3] = Chat!LF
          /\ r[4] = b
      BY <2>1, <3>0
    <3>2. /\ u \in Seq(Chars) /\ Len(u) = 4 /\ u[1] = a /\ u[2] = Chat!CR /\ u[3] = Chat!LF
          /\ u[4] = b
      BY <1>4
    <3>3. Chat!Data(u) = Chat!Data(f)
      BY <1>9, DataAmongLines
    <3> HIDE DEF u
    <3>4. r = u
      BY <3>1, <3>2, SeqEqual, SMTT(30)
    <3> QED BY <3>0, <3>3, <3>4
  <2> HIDE DEF Found
  <2>4. /\ 1..(5 - 1) = {1, 2, 3, 4} /\ 1 \in 1..n /\ 2 \in 1..n /\ 3 \in 1..n /\ 4 \in 1..n
        /\ 5 + (IF s[5] = Chat!CR THEN 4 ELSE 2) = Len(B) + 1
    BY <1>1, <1>4, <2>1
  <2> QED BY <1>2, <2>1, <2>2, <2>3, <2>4 DEF n, Before
<1> QED BY <1>3, <1>6, <1>7, <1>8, <1>9

-----------------------------------------------------------------------------
\* The text that is still to come, frame by frame.
LEMMA LeftIs ==
  ASSUME NEW fs \in Seq(Chat!Frames), NEW eol \in LineEnds, NEW whole \in BOOLEAN
  PROVE  LET L == Chat!Left(fs, eol, whole) IN
         /\ L \in [0..Len(fs) -> Seq(Chars)] /\ L[0] = << >>
         /\ \A i \in 1..Len(fs) :
              L[i] = (Chat!Text(fs[Len(fs) + 1 - i], eol)
                        \o (IF i = 1 /\ ~whole THEN << >> ELSE eol)) \o L[i - 1]
<1> DEFINE n == Len(fs)
           S == Seq(Chars)
           none == << >>
           P(i) == Chat!Text(fs[n + 1 - i], eol) \o (IF i = 1 /\ ~whole THEN << >> ELSE eol)
           h == [i \in 1..n |-> [t \in S |-> P(i) \o t]]
           K(f) == [i \in 0..n |-> IF i = 0 THEN << >> ELSE P(i) \o f[i - 1]]
           Goes(f) == f[0] = << >> /\ \A i \in 1..n : f[i] = P(i) \o f[i - 1]
           c == CHOOSE f : f = K(f)
<1>1. n \in Nat /\ none \in S
  OBVIOUS
<1>2. h \in [1..n -> [S -> S]]
  <2>1. \A i \in 1..n : n + 1 - i \in 1..n /\ fs[n + 1 - i] \in Chat!Frames
    BY <1>1
  <2>2. \A i \in 1..n : P(i) \in S
    <3>1. SUFFICES ASSUME NEW i \in 1..n PROVE P(i) \in S
      OBVIOUS
    <3> DEFINE t == Chat!Text(fs[n + 1 - i], eol)
    <3>2. t \in S /\ eol \in S
      BY <2>1, BlockIs
    <3> HIDE DEF t, n
    <3>3. (IF i = 1 /\ ~whole THEN << >> ELSE eol) \in S
      BY <1>1, <3>2
    <3>4. t \o (IF i = 1 /\ ~whole THEN << >> ELSE eol) \in S
      BY <3>2, <3>3, ConcatProperties
    <3> QED BY <3>4 DEF t
  <2>3. \A u \in S, t \in S : u \o t \in S
    BY ConcatProperties
  <2> HIDE DEF S, n, P
  <2>4. \A i \in 1..n : \A t \in S : P(i) \o t \in S
    BY <2>2, <2>3
  <2> QED BY <2>4
<1>3. PICK f \in [0..n -> S] : Computes(f, n, none, h)
  <2> HIDE DEF h, S, n, none
  <2> QED BY <1>1, <1>2, Recursion
<1>4. \A i \in 1..n : i \in 0..n /\ i # 0 /\ i - 1 \in 0..n
  BY <1>1
<1>5. Goes(f)
  <2> HIDE DEF S, n, P
  <2>1. \A i \in 1..n : f[i - 1] \in S
    BY <1>4
  <2> QED BY <1>3, <2>1 DEF Computes
<1>6. f = K(f)
  <2> HIDE DEF S, P
  <2>1. \A i \in 0..n : i # 0 => i \in 1..n
    BY <1>1
  <2>2. \A i \in 0..n : f[i] = K(f)[i]
    BY <1>5, <2>1
  <2>3. f = [i \in 0..n |-> f[i]]
    OBVIOUS
  <2> QED BY <2>2, <2>3
<1>7. c = K(c)
  BY <1>6
<1>8. ASSUME NEW g, g = K(g) PROVE g = f
  <2> HIDE DEF S, n, P
  <2>1. g[0] = << >>
    BY <1>1, <1>8
  <2>2. Goes(g) /\ g = [i \in 0..n |-> g[i]]
    BY <1>4, <1>8, <2>1
  <2>3. GoAlike(f, g, n)
    BY <1>5, <2>2 DEF GoAlike
  <2>4. n \in Nat
    BY <1>1
  <2>5. \A i \in 0..n : f[i] = g[i]
    BY <2>3, <2>4, SameSoFar
  <2> QED BY <2>2, <2>5
<1>9. c = f
  <2> HIDE DEF c, K
  <2> QED BY <1>7, <1>8
<1>10. Chat!Left(fs, eol, whole) = c
  BY DEF Chat!Left
<1> QED
  <2> HIDE DEF c
  <2> QED BY <1>5, <1>9, <1>10

\* The chunks that are still to come.
LEMMA FromIs ==
  ASSUME NEW fs \in Seq(Chat!Frames), NEW whole \in BOOLEAN, Len(fs) >= 1
  PROVE  LET n == Chat!Closed(fs, whole)
             F == Chat!From(fs, whole)
             d(i) == Chat!Data(fs[n + 1 - i])
         IN
         /\ n \in Nat /\ n <= Len(fs) /\ F \in [0..n -> Seq(Seq(Chars))] /\ F[0] = << >>
         /\ \A i \in 1..n : F[i] = IF d(i) = << >> THEN F[i - 1]
                                   ELSE IF Chat!IsDone(d(i)) THEN <<d(i)>>
                                   ELSE <<d(i)>> \o F[i - 1]
<1> DEFINE n == Chat!Closed(fs, whole)
           S == Seq(Seq(Chars))
           none == << >>
           d(i) == Chat!Data(fs[n + 1 - i])
           P(i, t) == IF d(i) = << >> THEN t
                      ELSE IF Chat!IsDone(d(i)) THEN <<d(i)>> ELSE <<d(i)>> \o t
           h == [i \in 1..n |-> [t \in S |-> P(i, t)]]
           K(f) == [i \in 0..n |-> IF i = 0 THEN << >> ELSE P(i, f[i - 1])]
           Goes(f) == f[0] = << >> /\ \A i \in 1..n : f[i] = P(i, f[i - 1])
           c == CHOOSE f : f = K(f)
<1>1. n \in Nat /\ n <= Len(fs) /\ none \in S
  BY DEF Chat!Closed
<1>2. h \in [1..n -> [S -> S]]
  <2>1. \A i \in 1..n : n + 1 - i \in 1..Len(fs) /\ fs[n + 1 - i] \in Chat!Frames
    <3> HIDE DEF n
    <3>1. \A i \in 1..n : n + 1 - i \in 1..Len(fs)
      BY <1>1
    <3> QED BY <3>1
  <2>2. \A i \in 1..n : <<d(i)>> \in S
    <3>1. SUFFICES ASSUME NEW i \in 1..n PROVE <<d(i)>> \in S
      OBVIOUS
    <3> HIDE DEF n
    <3>2. fs[n + 1 - i] \in Seq(Chars)
      <4>1. PICK a \in Lines, b \in Lines : fs[n + 1 - i] = <<a>> \/ fs[n + 1 - i] = <<a, b>>
        BY <2>1, FrameIs
      <4>2. a \in Chars /\ b \in Chars
        BY LinesAreChars
      <4>3. <<a>> \in Seq(Chars) /\ <<a, b>> \in Seq(Chars)
        BY <4>2
      <4> QED BY <4>1, <4>3
    <3>3. d(i) \in Seq(Chars)
      BY <3>2, DataIsSeq
    <3> HIDE DEF d
    <3> QED BY <3>3
  <2>3. \A u \in S, t \in S : u \o t \in S
    BY ConcatProperties
  <2> HIDE DEF S, n, d
  <2>4. \A i \in 1..n : \A t \in S : P(i, t) \in S
    BY <2>2, <2>3
  <2> HIDE DEF P
  <2> QED BY <2>4
<1>3. PICK f \in [0..n -> S] : Computes(f, n, none, h)
  <2> HIDE DEF h, S, n, none
  <2> QED BY <1>1, <1>2, Recursion
<1>4. \A i \in 1..n : i \in 0..n /\ i # 0 /\ i - 1 \in 0..n
  <2> HIDE DEF n
  <2> QED BY <1>1
<1>5. Goes(f)
  <2> HIDE DEF S, n, P
  <2>1. \A i \in 1..n : f[i - 1] \in S
    BY <1>4
  <2> QED BY <1>3, <2>1 DEF Computes
<1>6. f = K(f)
  <2> HIDE DEF S, P, n
  <2>1. \A i \in 0..n : i # 0 => i \in 1..n
    BY <1>1
  <2>2. \A i \in 0..n : f[i] = K(f)[i]
    BY <1>5, <2>1
  <2>3. f = [i \in 0..n |-> f[i]]
    OBVIOUS
  <2> QED BY <2>2, <2>3
<1>7. c = K(c)
  BY <1>6
<1>8. ASSUME NEW g, g = K(g) PROVE g = f
  <2> HIDE DEF S, n, P
  <2>1. g[0] = << >>
    BY <1>1, <1>8
  <2>2. Goes(g) /\ g = [i \in 0..n |-> g[i]]
    BY <1>4, <1>8, <2>1
  <2>3. GoAlike(f, g, n)
    BY <1>5, <2>2 DEF GoAlike
  <2>4. n \in Nat
    BY <1>1
  <2>5. \A i \in 0..n : f[i] = g[i]
    BY <2>3, <2>4, SameSoFar
  <2> QED BY <2>2, <2>5
<1>9. c = f
  <2> HIDE DEF c, K
  <2> QED BY <1>7, <1>8
<1>10. Chat!From(fs, whole) = c
  BY DEF Chat!From
<1> QED
  <2> HIDE DEF c
  <2> QED BY <1>1, <1>5, <1>9, <1>10

-----------------------------------------------------------------------------
\* Where two texts are the same text cut at two places.
LEMMA CutTwice ==
  ASSUME NEW b \in Seq(Chars), NEW r \in Seq(Chars), NEW B \in Seq(Chars), NEW t \in Seq(Chars),
         b \o r = B \o t
  PROVE  /\ \A i \in 1..Len(b) : i <= Len(B) => b[i] = B[i]
         /\ Len(B) <= Len(b) => SubSeq(b, Len(B) + 1, Len(b)) \o r = t
<1> DEFINE w == b \o r  v == B \o t
<1>1. /\ w \in Seq(Chars) /\ Len(w) = Len(b) + Len(r)
      /\ \A i \in 1..(Len(b) + Len(r)) : w[i] = IF i <= Len(b) THEN b[i] ELSE r[i - Len(b)]
  BY ConcatProperties
<1>2. /\ v \in Seq(Chars) /\ Len(v) = Len(B) + Len(t)
      /\ \A i \in 1..(Len(B) + Len(t)) : v[i] = IF i <= Len(B) THEN B[i] ELSE t[i - Len(B)]
  BY ConcatProperties
<1>3. w = v /\ Len(b) \in Nat /\ Len(B) \in Nat /\ Len(r) \in Nat /\ Len(t) \in Nat
  OBVIOUS
<1> HIDE DEF w, v
<1>4. ASSUME NEW i \in 1..Len(b), i <= Len(B) PROVE b[i] = B[i]
  <2>1. i \in 1..(Len(b) + Len(r)) /\ i \in 1..(Len(B) + Len(t)) /\ i <= Len(b)
    BY <1>3, <1>4
  <2> QED BY <1>1, <1>2, <1>3, <1>4, <2>1
<1>5. ASSUME Len(B) <= Len(b) PROVE SubSeq(b, Len(B) + 1, Len(b)) \o r = t
  <2> DEFINE k == Len(B)  m == Len(b)  q == SubSeq(b, k + 1, m)
  <2>1. \A i \in (k + 1)..m : b[i] \in Chars
    BY <1>3
  <2>2. k + 1 \in Int /\ m \in Int
    BY <1>3
  <2>3. /\ q \in Seq(Chars) /\ Len(q) = IF k + 1 <= m THEN m - (k + 1) + 1 ELSE 0
        /\ \A i \in 1..(m - (k + 1) + 1) : q[i] = b[(k + 1) + i - 1]
    BY <2>1, <2>2, SubSeqProperties
  <2> HIDE DEF q
  <2>4. Len(q) = m - k /\ \A i \in 1..(m - k) : q[i] = b[k + i]
    BY <1>3, <1>5, <2>3
  <2> DEFINE z == q \o r
  <2>5. /\ z \in Seq(Chars) /\ Len(z) = Len(q) + Len(r)
        /\ \A i \in 1..(Len(q) + Len(r)) : z[i] = IF i <= Len(q) THEN q[i] ELSE r[i - Len(q)]
    BY <2>3, ConcatProperties
  <2> HIDE DEF z
  <2>6. Len(z) = Len(t)
    BY <1>1, <1>2, <1>3, <2>4, <2>5
  <2>7. ASSUME NEW i \in 1..Len(z) PROVE z[i] = t[i]
    <3>1. /\ i \in Nat /\ i >= 1 /\ i \in 1..(Len(q) + Len(r)) /\ k + i \in 1..(m + Len(r))
          /\ k + i \in 1..(k + Len(t)) /\ ~(k + i <= k) /\ (k + i) - k = i
      BY <1>3, <2>4, <2>5, <2>6
    <3>2. v[k + i] = t[i]
      BY <1>2, <3>1
    <3>3. CASE i <= Len(q)
      <4>1. i \in 1..(m - k) /\ k + i <= m
        BY <1>3, <2>4, <3>1, <3>3
      <4>2. z[i] = b[k + i]
        BY <2>4, <2>5, <3>1, <3>3, <4>1
      <4>3. w[k + i] = b[k + i]
        BY <1>1, <3>1, <4>1
      <4> QED BY <1>3, <3>2, <4>2, <4>3
    <3>4. CASE ~(i <= Len(q))
      <4>1. ~(k + i <= m) /\ (k + i) - m = i - Len(q)
        BY <1>3, <2>4, <3>1, <3>4
      <4>2. z[i] = r[i - Len(q)]
        BY <2>5, <3>1, <3>4
      <4>3. w[k + i] = r[(k + i) - m]
        BY <1>1, <3>1, <4>1
      <4> QED BY <1>3, <3>2, <4>1, <4>2, <4>3
    <3> QED BY <3>3, <3>4
  <2>8. z = t
    BY <2>5, <2>6, <2>7, SeqEqual
  <2> QED BY <2>8 DEF z, q
<1> QED BY <1>4, <1>5

-----------------------------------------------------------------------------
\* What was read and what is still to be read are the frames not yet taken,
\* and what the application got is what those taken say.
ChatInv ==
  /\ frames \in Seq(Chat!Frames) /\ Len(frames) >= 1 /\ closed \in BOOLEAN
  /\ buffer \in Seq(Chars) /\ rest \in Seq(Chars) /\ out \in Seq(Seq(Chars))
  /\ at = "ended" => out = Chat!Said
  /\ at # "ended" =>
       \E k \in 0..Chat!Closed(frames, closed) :
         /\ \E eol \in LineEnds :
              buffer \o rest = Chat!Left(frames, eol, closed)[Len(frames) - k]
         /\ Chat!Said = out \o Chat!From(frames, closed)[Chat!Closed(frames, closed) - k]

LEMMA ChatInitInv ==
  ASSUME Chat!Init
  PROVE  ChatInv
<1> DEFINE n == Chat!Closed(frames, closed)  L(eol) == Chat!Left(frames, eol, closed)
           F == Chat!From(frames, closed)
<1>1. PICK m \in 1..MaxFrames : frames \in [1..m -> Chat!Frames]
  BY DEF Chat!Init
<1>2. frames \in Seq(Chat!Frames) /\ Len(frames) = m /\ m \in Nat /\ m >= 1 /\ closed \in BOOLEAN
  <2>1. m \in Nat
    BY DataAssumption
  <2> QED BY <1>1, <2>1 DEF Chat!Init
<1>3. PICK eol \in LineEnds : rest = L(eol)[Len(frames)]
  BY DEF Chat!Init, Chat!Wire, LineEnds
<1>4. buffer = << >> /\ out = << >> /\ at = "reading"
  BY DEF Chat!Init
<1>5. L(eol) \in [0..Len(frames) -> Seq(Chars)]
  BY <1>2, LeftIs
<1>6. n \in Nat /\ F \in [0..n -> Seq(Seq(Chars))]
  BY <1>2, FromIs
<1>7. Chat!Said = F[n]
  BY DEF Chat!Said
<1> HIDE DEF n, L, F
<1>8. rest \in Seq(Chars) /\ << >> \o rest = rest
  <2>1. Len(frames) \in 0..Len(frames)
    BY <1>2
  <2>2. rest \in Seq(Chars)
    BY <1>3, <1>5, <2>1
  <2> QED BY <2>2, ConcatEmptySeq
<1>9. << >> \o F[n] = F[n]
  <2>1. F[n] \in Seq(Seq(Chars))
    BY <1>6
  <2> QED BY <2>1, ConcatEmptySeq
<1>10. 0 \in 0..n /\ Len(frames) - 0 = Len(frames) /\ n - 0 = n
  BY <1>2, <1>6
<1>11. buffer \o rest = L(eol)[Len(frames) - 0] /\ Chat!Said = out \o F[n - 0]
  BY <1>3, <1>4, <1>7, <1>8, <1>9, <1>10
<1> QED BY <1>2, <1>4, <1>8, <1>10, <1>11 DEF ChatInv, n, L, F

\* The frame to be taken next, when one is to come.
NextFrame(k, eol) == Chat!Text(frames[k + 1], eol) \o eol

LEMMA StillToCome ==
  ASSUME ChatInv, NEW k \in Nat, k < Chat!Closed(frames, closed), NEW eol \in LineEnds
  PROVE  LET L == Chat!Left(frames, eol, closed)
             n == Chat!Closed(frames, closed)
             F == Chat!From(frames, closed)
             d == Chat!Data(frames[k + 1])
         IN
         /\ frames[k + 1] \in Chat!Frames
         /\ L[Len(frames) - (k + 1)] \in Seq(Chars)
         /\ L[Len(frames) - k] = NextFrame(k, eol) \o L[Len(frames) - (k + 1)]
         /\ F[n - (k + 1)] \in Seq(Seq(Chars))
         /\ F[n - k] = IF d = << >> THEN F[n - (k + 1)]
                       ELSE IF Chat!IsDone(d) THEN <<d>> ELSE <<d>> \o F[n - (k + 1)]
<1> DEFINE L == Chat!Left(frames, eol, closed)
           n == Chat!Closed(frames, closed)
           F == Chat!From(frames, closed)
           m == Len(frames)
           d(i) == Chat!Data(frames[n + 1 - i])
           P(i) == Chat!Text(frames[m + 1 - i], eol) \o (IF i = 1 /\ ~closed THEN << >> ELSE eol)
<1>1. frames \in Seq(Chat!Frames) /\ m >= 1 /\ closed \in BOOLEAN
  BY DEF ChatInv
<1>2. /\ L \in [0..m -> Seq(Chars)] /\ \A i \in 1..m : L[i] = P(i) \o L[i - 1]
  BY <1>1, LeftIs
<1>3. /\ n \in Nat /\ n <= m /\ F \in [0..n -> Seq(Seq(Chars))]
      /\ \A i \in 1..n : F[i] = IF d(i) = << >> THEN F[i - 1]
                                ELSE IF Chat!IsDone(d(i)) THEN <<d(i)>> ELSE <<d(i)>> \o F[i - 1]
  BY <1>1, FromIs
<1>4. ~closed => n = m - 1
  BY <1>1 DEF Chat!Closed
<1>5. k < n /\ m \in Nat
  BY <1>1
<1> HIDE DEF L, F, n, m
<1>6. /\ m - k \in 1..m /\ (m - k) - 1 = m - (k + 1) /\ m - (k + 1) \in 0..m
      /\ m + 1 - (m - k) = k + 1 /\ k + 1 \in 1..m
      /\ n - k \in 1..n /\ (n - k) - 1 = n - (k + 1) /\ n - (k + 1) \in 0..n
      /\ n + 1 - (n - k) = k + 1
      /\ ~(m - k = 1 /\ ~closed)
  BY <1>3, <1>4, <1>5
<1>7. frames[k + 1] \in Chat!Frames
  <2>1. \A i \in 1..m : frames[i] \in Chat!Frames
    BY <1>1 DEF m
  <2> QED BY <1>6, <2>1
<1>8. P(m - k) = NextFrame(k, eol)
  BY <1>6 DEF NextFrame
<1>9. L[m - k] = NextFrame(k, eol) \o L[m - (k + 1)] /\ L[m - (k + 1)] \in Seq(Chars)
  <2> HIDE DEF P
  <2> QED BY <1>2, <1>6, <1>8
<1>10. d(n - k) = Chat!Data(frames[k + 1])
  BY <1>6
<1>11. /\ F[n - (k + 1)] \in Seq(Seq(Chars))
       /\ F[n - k] = IF d(n - k) = << >> THEN F[n - (k + 1)]
                     ELSE IF Chat!IsDone(d(n - k)) THEN <<d(n - k)>>
                     ELSE <<d(n - k)>> \o F[n - (k + 1)]
  <2> HIDE DEF d
  <2> QED BY <1>3, <1>6
<1> QED BY <1>7, <1>9, <1>10, <1>11 DEF L, F, n, m

\* A frame to come is in the buffer as a whole, or nothing separates there.
LEMMA WholeOrNot ==
  ASSUME ChatInv, NEW k \in Nat, k < Chat!Closed(frames, closed), NEW eol \in LineEnds,
         buffer \o rest = Chat!Left(frames, eol, closed)[Len(frames) - k]
  PROVE  /\ Chat!HasFrame <=> Len(NextFrame(k, eol)) <= Len(buffer)
         /\ Chat!HasFrame =>
              /\ Chat!Sep + Chat!Skip(Chat!Sep) = Len(NextFrame(k, eol)) + 1
              /\ Chat!Data(SubSeq(buffer, 1, Chat!Sep - 1)) = Chat!Data(frames[k + 1])
              /\ SubSeq(buffer, Len(NextFrame(k, eol)) + 1, Len(buffer)) \o rest
                   = Chat!Left(frames, eol, closed)[Len(frames) - (k + 1)]
<1> DEFINE B == NextFrame(k, eol)  f == frames[k + 1]
           t == Chat!Left(frames, eol, closed)[Len(frames) - (k + 1)]
<1>1. f \in Chat!Frames /\ t \in Seq(Chars) /\ buffer \o rest = B \o t
  BY StillToCome
<1>2. B \in Seq(Chars) /\ BlockHas(B, f, eol)
  BY <1>1, BlockIs DEF NextFrame
<1>3. buffer \in Seq(Chars) /\ rest \in Seq(Chars)
  BY DEF ChatInv
<1> HIDE DEF t, B
<1>4. /\ \A i \in 1..Len(buffer) : i <= Len(B) => buffer[i] = B[i]
      /\ Len(B) <= Len(buffer) => SubSeq(buffer, Len(B) + 1, Len(buffer)) \o rest = t
  BY <1>1, <1>2, <1>3, CutTwice
<1>5. Len(B) \in Nat /\ Len(buffer) \in Nat
  BY <1>2, <1>3
<1>6. CASE Len(B) <= Len(buffer)
  <2>1. \A i \in 1..Len(B) : buffer[i] = B[i]
    <3>1. \A i \in 1..Len(B) : i \in 1..Len(buffer) /\ i <= Len(B)
      BY <1>5, <1>6
    <3> QED BY <1>4, <3>1
  <2>2. PICK p \in 1..Len(buffer) :
          /\ Chat!Separates(buffer, p) /\ \A j \in 1..(p - 1) : ~Chat!Separates(buffer, j)
          /\ p + (IF buffer[p] = Chat!CR THEN 4 ELSE 2) = Len(B) + 1
          /\ Chat!Data(SubSeq(buffer, 1, p - 1)) = Chat!Data(f)
    <3>1. FoundIn(buffer, B, f)
      BY <1>1, <1>2, <1>3, <1>6, <2>1, FoundAt
    <3> QED BY <3>1 DEF FoundIn
  <2>3. Chat!Sep = p
    <3> DEFINE First(i) == /\ Chat!Separates(buffer, i)
                           /\ \A j \in 1..(i - 1) : ~Chat!Separates(buffer, j)
    <3>1. First(p)
      BY <2>2
    <3>2. ASSUME NEW q \in 1..Len(buffer), First(q) PROVE q = p
      <4>1. ~(p \in 1..(q - 1)) /\ ~(q \in 1..(p - 1))
        BY <2>2, <3>2
      <4> QED BY <1>5, <4>1
    <3>3. Chat!Sep = CHOOSE i \in 1..Len(buffer) : First(i)
      BY DEF Chat!Sep
    <3> HIDE DEF First
    <3> QED BY <3>1, <3>2, <3>3
  <2>4. Chat!HasFrame
    BY <2>2 DEF Chat!HasFrame
  <2> QED BY <1>4, <1>6, <2>2, <2>3, <2>4 DEF Chat!Skip, t, B
<1>7. CASE ~(Len(B) <= Len(buffer))
  <2>1. Len(buffer) < Len(B) /\ \A i \in 1..Len(buffer) : buffer[i] = B[i]
    <3>1. \A i \in 1..Len(buffer) : i <= Len(B)
      BY <1>5, <1>7
    <3> QED BY <1>4, <1>5, <1>7, <3>1
  <2>2. \A i \in 1..Len(buffer) : ~Chat!Separates(buffer, i)
    BY <1>2, <1>3, <2>1, NotYet
  <2>3. ~Chat!HasFrame
    BY <2>2 DEF Chat!HasFrame
  <2> QED BY <1>7, <2>3 DEF B
<1> QED BY <1>6, <1>7

\* After the last closed frame nothing separates.
LEMMA NoneAfterTheLast ==
  ASSUME ChatInv, NEW eol \in LineEnds,
         buffer \o rest = Chat!Left(frames, eol, closed)[Len(frames) - Chat!Closed(frames, closed)]
  PROVE  ~Chat!HasFrame
<1> DEFINE L == Chat!Left(frames, eol, closed)  m == Len(frames)
           T == Chat!Text(frames[m], eol)  B == T \o eol
<1>1. /\ frames \in Seq(Chat!Frames) /\ m \in Nat /\ m >= 1 /\ closed \in BOOLEAN
      /\ buffer \in Seq(Chars) /\ rest \in Seq(Chars) /\ Len(buffer) \in Nat
  BY DEF ChatInv
<1>2. CASE closed
  <2>1. m - Chat!Closed(frames, closed) = 0
    BY <1>1, <1>2 DEF Chat!Closed
  <2>2. L[0] = << >>
    BY <1>1, LeftIs
  <2>3. buffer \o rest = << >>
    BY <2>1, <2>2
  <2>4. Len(buffer \o rest) = Len(buffer) + Len(rest) /\ Len(rest) \in Nat
    <3>1. buffer \in Seq(Chars) /\ rest \in Seq(Chars)
      BY <1>1
    <3>2. Len(buffer \o rest) = Len(buffer) + Len(rest)
      BY <3>1, ConcatProperties
    <3> QED BY <3>1, <3>2
  <2>5. 1..Len(buffer) = {}
    BY <1>1, <2>3, <2>4
  <2> QED BY <2>5 DEF Chat!HasFrame
<1>3. CASE ~closed
  <2>1. m - Chat!Closed(frames, closed) = 1
    BY <1>1, <1>3 DEF Chat!Closed
  <2>2. frames[m] \in Chat!Frames /\ m + 1 - 1 = m /\ 1 \in 1..m /\ 1 - 1 = 0
    BY <1>1
  <2>3. T \in Seq(Chars) /\ B \in Seq(Chars) /\ eol \in Seq(Chars) /\ BlockHas(B, frames[m], eol)
    BY <2>2, BlockIs
  <2>4. L[1] = (T \o << >>) \o << >>
    <3>1. /\ L[0] = << >>
          /\ \A i \in 1..m : L[i] = (Chat!Text(frames[m + 1 - i], eol)
                                       \o (IF i = 1 /\ ~closed THEN << >> ELSE eol)) \o L[i - 1]
      BY <1>1, LeftIs
    <3> HIDE DEF L, m
    <3>2. L[1] = (Chat!Text(frames[m + 1 - 1], eol)
                     \o (IF 1 = 1 /\ ~closed THEN << >> ELSE eol)) \o L[1 - 1]
      BY <2>2, <3>1
    <3>3. L[1] = (T \o (IF 1 = 1 /\ ~closed THEN << >> ELSE eol)) \o << >>
      BY <2>2, <3>1, <3>2
    <3> QED BY <1>3, <3>3
  <2> HIDE DEF T, m
  <2>5. T \o << >> = T
    BY <2>3, ConcatEmptySeq
  <2>6. buffer \o rest = T \o << >>
    BY <2>1, <2>4, <2>5 DEF m
  <2>7. \A i \in 1..Len(buffer) : i <= Len(T) => buffer[i] = T[i]
    BY <1>1, <2>3, <2>6, CutTwice
  <2>8. Len(buffer) <= Len(T) /\ Len(T) \in Nat
    <3>1. Len(buffer \o rest) = Len(buffer) + Len(rest) /\ Len(rest) \in Nat
      <4>1. buffer \in Seq(Chars) /\ rest \in Seq(Chars)
        BY <1>1
      <4>2. Len(buffer \o rest) = Len(buffer) + Len(rest)
        BY <4>1, ConcatProperties
      <4> QED BY <4>1, <4>2
    <3>2. buffer \o rest = T /\ Len(T) \in Nat
      BY <2>3, <2>5, <2>6
    <3> QED BY <1>1, <3>1, <3>2
  <2>9. Len(eol) >= 1 /\ Len(eol) \in Nat
    <3>1. Len(<<Chat!LF>>) = 1 /\ Len(<<Chat!CR, Chat!LF>>) = 2
      OBVIOUS
    <3>2. CASE eol = <<Chat!LF>>
      BY <3>1, <3>2
    <3>3. CASE eol = <<Chat!CR, Chat!LF>>
      BY <3>1, <3>3
    <3> QED BY <3>2, <3>3 DEF LineEnds
  <2>10. Len(B) = Len(T) + Len(eol) /\ \A i \in 1..Len(T) : B[i] = T[i]
    <3>1. /\ Len(B) = Len(T) + Len(eol)
          /\ \A i \in 1..(Len(T) + Len(eol)) : B[i] = IF i <= Len(T) THEN T[i] ELSE eol[i - Len(T)]
      BY <2>3, ConcatProperties
    <3>2. \A i \in 1..Len(T) : i \in 1..(Len(T) + Len(eol)) /\ i <= Len(T)
      BY <2>8, <2>9
    <3> HIDE DEF B
    <3> QED BY <3>1, <3>2
  <2> HIDE DEF B
  <2>11. Len(buffer) < Len(B) /\ \A i \in 1..Len(buffer) : buffer[i] = B[i]
    <3>1. \A i \in 1..Len(buffer) : i \in 1..Len(T) /\ i <= Len(T)
      BY <1>1, <2>8
    <3>2. \A i \in 1..Len(buffer) : buffer[i] = B[i]
      BY <2>7, <2>10, <3>1
    <3> QED BY <1>1, <2>8, <2>9, <2>10, <3>2
  <2>12. \A i \in 1..Len(buffer) : ~Chat!Separates(buffer, i)
    BY <1>1, <2>3, <2>11, NotYet
  <2> QED BY <2>12 DEF Chat!HasFrame
<1> QED BY <1>1, <1>2, <1>3

LEMMA ReadSomeInv == ASSUME ChatInv, Chat!ReadSome PROVE ChatInv'
<1> DEFINE n == Chat!Closed(frames, closed)
<1>1. PICK m \in 1..Len(rest) : /\ buffer' = buffer \o SubSeq(rest, 1, m)
                                /\ rest' = SubSeq(rest, m + 1, Len(rest))
  BY DEF Chat!ReadSome, Chat!Appends
<1>2. UNCHANGED <<frames, closed, out, at>> /\ at = "reading"
  BY DEF Chat!ReadSome
<1>3. buffer \in Seq(Chars) /\ rest \in Seq(Chars) /\ Len(rest) \in Nat
  BY DEF ChatInv
<1> DEFINE x == SubSeq(rest, 1, m)  y == SubSeq(rest, m + 1, Len(rest))
<1>4. x \in Seq(Chars) /\ y \in Seq(Chars)
  <2>1. /\ \A i \in 1..m : rest[i] \in Chars
        /\ \A i \in (m + 1)..Len(rest) : rest[i] \in Chars
    BY <1>3
  <2>2. 1 \in Int /\ m \in Int /\ m + 1 \in Int /\ Len(rest) \in Int
    BY <1>3
  <2>3. x \in Seq(Chars)
    BY <2>1, <2>2, SubSeqProperties
  <2>4. y \in Seq(Chars)
    BY <2>1, <2>2, SubSeqProperties
  <2> QED BY <2>3, <2>4
<1>5. x \o y = rest
  <2>1. /\ 1 \in 1..(Len(rest) + 1) /\ m \in (1 - 1)..Len(rest) /\ Len(rest) \in m..Len(rest)
    BY <1>3
  <2>2. x \o y = SubSeq(rest, 1, Len(rest))
    BY <1>3, <2>1, ConcatAdjacentSubSeq
  <2> QED BY <1>3, <2>2, SubSeqFull
<1> HIDE DEF x, y
<1>6. (buffer \o x) \o y = buffer \o rest /\ buffer \o x \in Seq(Chars)
  <2>1. (buffer \o x) \o y = buffer \o (x \o y)
    <3>1. \A p, q, r \in Seq(Chars) : (p \o q) \o r = p \o (q \o r)
      BY ConcatAssociative
    <3>2. buffer \in Seq(Chars) /\ x \in Seq(Chars) /\ y \in Seq(Chars)
      BY <1>3, <1>4
    <3> QED BY <3>1, <3>2
  <2>2. buffer \o x \in Seq(Chars)
    BY <1>3, <1>4, ConcatProperties
  <2> QED BY <1>5, <2>1, <2>2
<1>7. buffer' = buffer \o x /\ rest' = y
  BY <1>1 DEF x, y
<1>8. buffer' \o rest' = buffer \o rest /\ buffer' \in Seq(Chars) /\ rest' \in Seq(Chars)
  BY <1>4, <1>6, <1>7
<1>9. Chat!Said' = Chat!Said
  BY <1>2 DEF Chat!Said
<1> QED BY <1>2, <1>8, <1>9 DEF ChatInv

LEMMA TakeFrameInv == ASSUME ChatInv, Chat!TakeFrame PROVE ChatInv'
<1> DEFINE n == Chat!Closed(frames, closed)  m == Len(frames)
           L(eol) == Chat!Left(frames, eol, closed)
           F == Chat!From(frames, closed)
<1>1. /\ UNCHANGED <<frames, closed, rest>> /\ at = "reading" /\ Chat!HasFrame
  BY DEF Chat!TakeFrame
<1>2. PICK k \in 0..n : /\ \E eol \in LineEnds : buffer \o rest = L(eol)[m - k]
                        /\ Chat!Said = out \o F[n - k]
  BY <1>1 DEF ChatInv
<1>3. PICK eol \in LineEnds : buffer \o rest = L(eol)[m - k]
  BY <1>2
<1>4. /\ frames \in Seq(Chat!Frames) /\ m >= 1 /\ m \in Nat /\ closed \in BOOLEAN /\ n \in Nat
      /\ buffer \in Seq(Chars) /\ rest \in Seq(Chars) /\ out \in Seq(Seq(Chars))
  <2>1. frames \in Seq(Chat!Frames) /\ m >= 1 /\ closed \in BOOLEAN
    BY DEF ChatInv
  <2>2. n \in Nat
    BY <2>1, FromIs
  <2> QED BY <2>1, <2>2 DEF ChatInv
<1>5. k \in Nat /\ k < n
  <2>1. k # n
    <3> SUFFICES ASSUME k = n PROVE FALSE
      OBVIOUS
    <3>1. buffer \o rest = L(eol)[m - n]
      BY <1>3
    <3> QED BY <1>1, <3>1, NoneAfterTheLast
  <2> HIDE DEF n
  <2> QED BY <1>4, <2>1
<1> DEFINE B == NextFrame(k, eol)  d == Chat!Data(frames[k + 1])
           b == SubSeq(buffer, Len(B) + 1, Len(buffer))
<1>6. /\ Chat!Sep + Chat!Skip(Chat!Sep) = Len(B) + 1
      /\ Chat!Data(SubSeq(buffer, 1, Chat!Sep - 1)) = d
      /\ b \o rest = L(eol)[m - (k + 1)]
  BY <1>1, <1>3, <1>5, WholeOrNot
<1>7. /\ buffer' = b
      /\ out' = IF d = << >> THEN out ELSE Append(out, d)
      /\ at' = IF Chat!IsDone(d) THEN "ended" ELSE at
  BY <1>6 DEF Chat!TakeFrame
<1>8. /\ frames[k + 1] \in Chat!Frames /\ F[n - (k + 1)] \in Seq(Seq(Chars))
      /\ F[n - k] = IF d = << >> THEN F[n - (k + 1)]
                    ELSE IF Chat!IsDone(d) THEN <<d>> ELSE <<d>> \o F[n - (k + 1)]
  BY <1>5, StillToCome
<1>9. d \in Seq(Chars) /\ b \in Seq(Chars)
  <2>1. frames[k + 1] \in Seq(Chars)
    <3>1. PICK u \in Lines, v \in Lines : frames[k + 1] = <<u>> \/ frames[k + 1] = <<u, v>>
      BY <1>8, FrameIs
    <3>2. u \in Chars /\ v \in Chars
      BY LinesAreChars
    <3>3. <<u>> \in Seq(Chars) /\ <<u, v>> \in Seq(Chars)
      BY <3>2
    <3> QED BY <3>1, <3>3
  <2>2. d \in Seq(Chars)
    BY <2>1, DataIsSeq
  <2>3. Len(B) \in Nat
    <3>1. B \in Seq(Chars)
      BY <1>8, BlockIs DEF NextFrame
    <3> QED BY <3>1
  <2>4. b \in Seq(Chars)
    <3> HIDE DEF B
    <3>1. \A i \in (Len(B) + 1)..Len(buffer) : buffer[i] \in Chars
      BY <1>4, <2>3
    <3>2. Len(B) + 1 \in Int /\ Len(buffer) \in Int
      BY <1>4, <2>3
    <3> QED BY <3>1, <3>2, SubSeqProperties
  <2> QED BY <2>2, <2>4
<1>10. Chat!Said' = Chat!Said
  BY <1>1 DEF Chat!Said
<1> DEFINE R == F[n - (k + 1)]  S == Chat!Said
<1>11. out' \in Seq(Seq(Chars))
  <2> HIDE DEF d
  <2>1. Append(out, d) \in Seq(Seq(Chars))
    BY <1>4, <1>9, AppendProperties
  <2> QED BY <1>4, <1>7, <2>1
<1>12. S = out \o (IF d = << >> THEN R ELSE IF Chat!IsDone(d) THEN <<d>> ELSE <<d>> \o R)
  BY <1>2, <1>8
<1>13. /\ Chat!IsDone(d) => S = out'
       /\ ~Chat!IsDone(d) => S = out' \o R
  <2>1. R \in Seq(Seq(Chars))
    BY <1>8
  <2>2. Chat!IsDone(d) => d # << >>
    <3>1. << >> # <<Sentinel>> /\ << >> # <<Last>>
      OBVIOUS
    <3> QED BY <3>1 DEF Chat!IsDone
  <2> HIDE DEF d, R, S
  <2>3. Append(out, d) = out \o <<d>> /\ <<d>> \in Seq(Seq(Chars))
    BY <1>4, <1>9, AppendIsConcat
  <2>4. (out \o <<d>>) \o R = out \o (<<d>> \o R)
    <3>1. \A p, q, r \in Seq(Seq(Chars)) : (p \o q) \o r = p \o (q \o r)
      BY ConcatAssociative, SMTT(30)
    <3>2. out \in Seq(Seq(Chars)) /\ <<d>> \in Seq(Seq(Chars)) /\ R \in Seq(Seq(Chars))
      BY <1>4, <2>1, <2>3
    <3> QED BY <3>1, <3>2
  <2> QED BY <1>7, <1>12, <2>2, <2>3, <2>4
<1>14. CASE Chat!IsDone(d)
  <2>1. at' = "ended" /\ out' = Chat!Said'
    BY <1>7, <1>10, <1>13, <1>14
  <2> QED BY <1>1, <1>4, <1>7, <1>9, <1>11, <2>1 DEF ChatInv
<1>15. CASE ~Chat!IsDone(d)
  <2>1. k + 1 \in 0..n
    <3> HIDE DEF n
    <3> QED BY <1>4, <1>5
  <2>2. /\ at' = "reading" /\ Chat!Said' = out' \o R
        /\ buffer' \o rest' = L(eol)[m - (k + 1)]
    BY <1>1, <1>6, <1>7, <1>10, <1>13, <1>15
  <2>3. at' # "ended"
    BY <2>2
  <2>4. \E j \in 0..n : /\ \E e \in LineEnds : buffer' \o rest' = L(e)[m - j]
                        /\ Chat!Said' = out' \o F[n - j]
    BY <2>1, <2>2
  <2>5. n' = n /\ m' = m /\ F' = F /\ frames' = frames /\ closed' = closed
    BY <1>1
  <2>6. buffer' \in Seq(Chars) /\ rest' \in Seq(Chars)
    BY <1>1, <1>4, <1>7, <1>9
  <2> QED BY <1>4, <1>11, <2>3, <2>4, <2>5, <2>6 DEF ChatInv
<1> QED BY <1>14, <1>15

LEMMA EndBodyInv == ASSUME ChatInv, Chat!EndBody PROVE ChatInv'
<1> DEFINE n == Chat!Closed(frames, closed)  m == Len(frames)
           L(eol) == Chat!Left(frames, eol, closed)
           F == Chat!From(frames, closed)
<1>1. /\ UNCHANGED <<frames, closed, rest, buffer, out>> /\ at = "reading" /\ at' = "ended"
      /\ ~Chat!HasFrame /\ rest = << >>
  BY DEF Chat!EndBody
<1>2. PICK k \in 0..n : /\ \E eol \in LineEnds : buffer \o rest = L(eol)[m - k]
                        /\ Chat!Said = out \o F[n - k]
  BY <1>1 DEF ChatInv
<1>3. PICK eol \in LineEnds : buffer \o rest = L(eol)[m - k]
  BY <1>2
<1>4. /\ frames \in Seq(Chat!Frames) /\ m >= 1 /\ closed \in BOOLEAN
      /\ buffer \in Seq(Chars) /\ out \in Seq(Seq(Chars))
  BY DEF ChatInv
<1>5. n \in Nat /\ F[0] = << >>
  BY <1>4, FromIs
<1>6. k = n
  <2> SUFFICES ASSUME k # n PROVE FALSE
    OBVIOUS
  <2> DEFINE B == NextFrame(k, eol)  t == L(eol)[m - (k + 1)]
  <2>1. k \in Nat /\ k < n
    <3> HIDE DEF n
    <3> QED BY <1>5
  <2>2. Len(B) > Len(buffer)
    <3>1. ~(Len(B) <= Len(buffer))
      BY <1>1, <1>3, <2>1, WholeOrNot
    <3>2. frames[k + 1] \in Chat!Frames
      BY <2>1, StillToCome
    <3>3. B \in Seq(Chars)
      BY <3>2, BlockIs DEF NextFrame
    <3>4. Len(B) \in Nat /\ Len(buffer) \in Nat
      BY <1>4, <3>3
    <3> HIDE DEF B
    <3> QED BY <3>1, <3>4
  <2>3. frames[k + 1] \in Chat!Frames /\ t \in Seq(Chars) /\ buffer \o rest = B \o t
    BY <1>3, <2>1, StillToCome
  <2>4. B \in Seq(Chars)
    BY <2>3, BlockIs DEF NextFrame
  <2>5. buffer \o rest = buffer
    BY <1>1, <1>4, ConcatEmptySeq
  <2> HIDE DEF B, t
  <2>6. Len(B \o t) = Len(B) + Len(t) /\ Len(t) \in Nat /\ Len(B) \in Nat
    <3>1. Len(B \o t) = Len(B) + Len(t)
      BY <2>3, <2>4, ConcatProperties
    <3> QED BY <2>3, <2>4, <3>1
  <2>7. Len(buffer) \in Nat /\ buffer = B \o t
    BY <1>4, <2>3, <2>5
  <2> QED BY <2>2, <2>6, <2>7
<1>7. Chat!Said = out
  <2>1. n - n = 0
    <3> HIDE DEF n
    <3> QED BY <1>5
  <2>2. Chat!Said = out \o << >>
    BY <1>2, <1>5, <1>6, <2>1
  <2> QED BY <1>4, <2>2, ConcatEmptySeq
<1>8. Chat!Said' = Chat!Said
  BY <1>1 DEF Chat!Said
<1> QED BY <1>1, <1>7, <1>8 DEF ChatInv

LEMMA ReturnInv == ASSUME ChatInv, Chat!Return PROVE ChatInv'
<1>1. UNCHANGED <<frames, closed, rest, buffer, out>> /\ at = "reading" /\ at' = "returned"
  BY DEF Chat!Return
<1>2. Chat!Said' = Chat!Said
  BY <1>1 DEF Chat!Said
<1> QED BY <1>1, <1>2 DEF ChatInv

LEMMA ChatRests == ASSUME ChatInv, UNCHANGED chatVars PROVE ChatInv'
<1>1. UNCHANGED <<frames, closed, rest, buffer, out, at>>
  BY DEF chatVars
<1>2. Chat!Said' = Chat!Said
  BY <1>1 DEF Chat!Said
<1> QED BY <1>1, <1>2 DEF ChatInv

LEMMA ChatAsSaid == ASSUME ChatInv PROVE Chat!ChunksAsSaid
<1> DEFINE n == Chat!Closed(frames, closed)  F == Chat!From(frames, closed)
<1>1. /\ frames \in Seq(Chat!Frames) /\ Len(frames) >= 1 /\ closed \in BOOLEAN
      /\ out \in Seq(Seq(Chars)) /\ Len(out) \in Nat
  BY DEF ChatInv
<1>2. \E r \in Seq(Seq(Chars)) : Chat!Said = out \o r
  <2>1. CASE at = "ended"
    <3>1. Chat!Said = out /\ out \o << >> = out
      BY <1>1, <2>1, ConcatEmptySeq DEF ChatInv
    <3>2. << >> \in Seq(Seq(Chars))
      OBVIOUS
    <3> QED BY <3>1, <3>2
  <2>2. CASE at # "ended"
    <3>1. PICK k \in 0..n : Chat!Said = out \o F[n - k]
      BY <2>2 DEF ChatInv
    <3>2. n \in Nat /\ F \in [0..n -> Seq(Seq(Chars))]
      BY <1>1, FromIs
    <3> HIDE DEF n, F
    <3>3. n - k \in 0..n
      BY <3>2
    <3>4. F[n - k] \in Seq(Seq(Chars))
      BY <3>2, <3>3
    <3> QED BY <3>1, <3>4
  <2> QED BY <2>1, <2>2
<1>3. PICK r \in Seq(Seq(Chars)) : Chat!Said = out \o r
  BY <1>2
<1>4. Len(out \o r) = Len(out) + Len(r) /\ Len(r) \in Nat
  <2>1. Len(out \o r) = Len(out) + Len(r)
    BY <1>1, ConcatProperties
  <2> QED BY <2>1
<1>5. out = SubSeq(out \o r, 1, Len(out))
  <2>1. CASE Len(out) = 0
    <3>1. SubSeq(out \o r, 1, 0) = << >>
      BY SubSeqEmpty
    <3> QED BY <1>1, <2>1, <3>1
  <2>2. CASE Len(out) # 0
    <3>1. 1 \in 1..Len(out) /\ Len(out) \in 1..Len(out)
      BY <1>1, <2>2
    <3>2. SubSeq(out \o r, 1, Len(out)) = SubSeq(out, 1, Len(out))
      BY <1>1, <3>1, SubSeqOfConcat1
    <3> QED BY <1>1, <3>2, SubSeqFull
  <2> QED BY <2>1, <2>2
<1>6. Len(out) <= Len(Chat!Said) /\ out = SubSeq(Chat!Said, 1, Len(out))
  BY <1>1, <1>3, <1>4, <1>5
<1>7. at = "ended" => out = Chat!Said
  BY DEF ChatInv
<1> QED BY <1>6, <1>7 DEF Chat!ChunksAsSaid

(* However the network cuts the body of a chat, at any place and any       *)
(* number of times, the application gets the server's chunks in order,     *)
(* each once, and all of them when it reads to the end (streaming.ts).     *)
THEOREM ChunksReachTheApplication == DataSpec => []ChunksAsSaid
<1> DEFINE I == part = "chat" => ChatInv
<1>1. DataInit => I
  BY ChatInitInv DEF DataInit
<1>2. I /\ [DataNext]_dataVars => I'
  <2>1. ASSUME I, DataNext, part = "chat" PROVE I'
    <3>1. Chat!Next /\ ChatInv
      BY <2>1 DEF DataNext
    <3>2. ChatInv'
      BY <3>1, ReadSomeInv, TakeFrameInv, EndBodyInv, ReturnInv DEF Chat!Next
    <3> QED BY <3>2
  <2>2. ASSUME I, part # "chat", part' = part PROVE I'
    BY <2>2
  <2>3. ASSUME I, UNCHANGED dataVars PROVE I'
    <3>1. UNCHANGED chatVars /\ part' = part
      BY <2>3 DEF dataVars
    <3> QED BY <2>3, <3>1, ChatRests
  <2> QED BY <2>1, <2>2, <2>3 DEF DataNext
<1>3. I => ChunksAsSaid
  BY ChatAsSaid DEF ChunksAsSaid
<1> QED BY <1>1, <1>2, <1>3, PTL DEF DataSpec
=============================================================================
