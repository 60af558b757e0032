------------------------ MODULE LiveSubscriptionProofs ------------------------
(***************************************************************************)
(* Proofs about live subscriptions, for every number of consumers,         *)
(* reconnects and changes of the data: a subscription that was killed      *)
(* calls no handler and asks for no other live query; a handler is called  *)
(* once for every change, in their order; and (the last part) nothing is   *)
(* lost: a consumer that waits when nothing is on its way has got every    *)
(* change made since it subscribed, but for those a connection took.       *)
(***************************************************************************)
EXTENDS LiveSubscription, FiniteSetTheorems, SequenceTheorems, TLAPS

\* What the proofs assume of the constants.
Assumptions ==
  /\ MaxListens \in Nat \ {0} /\ MaxChanges \in Nat
  /\ Kinds \subseteq {"managed", "unmanaged"}

\* The answer to a LIVE SELECT is on its way, or the request is pending, only
\* where a #listen() waits for it.
AskedListens ==
  /\ \A n \in Listens : LiveSelect(n) \in calls => listen[n] # "none"
  /\ \A i \in 1..Len(wire) :
       wire[i].type \in {"id", "refused"} => listen[wire[i].id] # "none"

\* kill() has cancelled every channel, and subscribe() opens no other.
KilledIsSilent == killed => \A k \in Consumers : consumer[k] # "waiting"

\* An answer on its way is that of a request which is no longer on its own,
\* and KILL is asked for once.
AnsweredIsNotSent ==
  /\ \A i \in 1..Len(wire) :
       /\ wire[i].type \in {"id", "refused"} => LiveSelect(wire[i].id) \notin sent
       /\ wire[i].type \in {"killed", "unknown"} =>
            kill # "no" /\ KillQuery(wire[i].id) \notin sent
  /\ kill = "no" => \A n \in Listens : KillQuery(n) \notin calls

\* Nothing is on its way without a connection.
NothingWithoutLink == link # "connected" => wire = << >> /\ sent = {} /\ live = {}

Inv ==
  /\ TypeOK
  /\ AskedListens
  /\ AnsweredIsNotSent
  /\ NothingWithoutLink
  /\ KilledIsSilent

LEMMA TwoKinds == \A m, n : LiveSelect(m) # KillQuery(n) /\ (LiveSelect(m) = LiveSelect(n) => m = n)
BY DEF LiveSelect, KillQuery

-----------------------------------------------------------------------------
(* Sequences of messages.                                                  *)

LEMMA SetToSeqIsFunction ==
  ASSUME NEW S, IsFiniteSet(S)
  PROVE  SetToSeq(S) \in [1..Cardinality(S) -> S]
<1>1. Cardinality(S) \in Nat /\ ExistsBijection(1..Cardinality(S), S)
  BY FS_CardinalityType
<1>2. PICK f \in Bijection(1..Cardinality(S), S) : TRUE
  BY <1>1 DEF ExistsBijection
<1>3. f \in [1..Cardinality(S) -> S] /\ IsInjective(f)
  BY <1>2 DEF Bijection, Injection, IsInjective
<1> QED BY <1>3 DEF SetToSeq

LEMMA SetToSeqIsSeq == ASSUME NEW S, IsFiniteSet(S) PROVE SetToSeq(S) \in Seq(S)
<1>1. Cardinality(S) \in Nat
  BY FS_CardinalityType
<1> QED BY <1>1, SetToSeqIsFunction

LEMMA OneElement ==
  ASSUME NEW x, NEW f \in [1..1 -> {x}]
  PROVE  f \in Seq({x}) /\ Len(f) = 1 /\ f[1] = x
<1>1. f \in Seq({x})
  BY SeqDef
<1>2. DOMAIN f = 1..1 /\ DOMAIN f = 1..Len(f) /\ Len(f) \in Nat
  BY <1>1, LenProperties
<1>3. Len(f) = 1
  BY <1>2
<1> QED BY <1>1, <1>3

LEMMA ListensFinite == ASSUME Assumptions, NEW S \in SUBSET Listens PROVE IsFiniteSet(S)
<1>1. IsFiniteSet(Listens)
  BY FS_Interval DEF Assumptions, Listens
<1> QED BY <1>1, FS_Subset

-----------------------------------------------------------------------------
(* One lemma per kind of step.                                             *)

LEMMA InitInv == ASSUME Assumptions, Init PROVE Inv
<1>1. 1 \in Listens /\ kind \in {"managed", "unmanaged"}
  BY DEF Assumptions, Init, Listens
<1>2. TypeOK
  <2>1. calls \subseteq Calls /\ sent \subseteq calls
    BY <1>1 DEF Init, Calls
  <2>2. /\ listen \in [Listens -> {"none", "asking", "streaming", "failed", "ended"}]
        /\ live \subseteq Listens /\ currentId \in Listens \cup {None}
    BY <1>1 DEF Init
  <2>3. wire \in Seq(Message) /\ got \in [Consumers -> Seq(Changes)]
    BY DEF Init
  <2>4. since \in [Consumers -> 0..MaxChanges] /\ changes \in 0..MaxChanges
    BY DEF Init, Assumptions
  <2> QED BY <1>1, <2>1, <2>2, <2>3, <2>4 DEF Init, TypeOK
<1>3. AskedListens
  BY <1>1 DEF Init, AskedListens, LiveSelect
<1>4. KilledIsSilent
  BY DEF Init, KilledIsSilent
<1>5. AnsweredIsNotSent /\ NothingWithoutLink
  BY <1>1, TwoKinds DEF Init, AnsweredIsNotSent, NothingWithoutLink
<1> QED BY <1>2, <1>3, <1>4, <1>5 DEF Inv

\* What a lost socket leaves: nothing on its way, and the same calls or fewer.
LEMMA LoseSocketInv ==
  ASSUME Assumptions, Inv, LoseSocket
  PROVE  /\ sent' = {} /\ live' = {} /\ wire' = << >> /\ changes' = changes
         /\ missed' \subseteq Changes /\ wire' \in Seq(Message)
<1>1. \A i \in 1..Len(wire) : wire[i] \in Message
  BY DEF Inv, TypeOK
<1>2. Range(wire) \subseteq Message
  BY <1>1 DEF Inv, TypeOK, Range
<1>3. \A m \in Message : m.type = "notification" => m.change \in Changes
  BY DEF Message
<1> QED BY <1>2, <1>3 DEF LoseSocket, Inv, TypeOK

LEMMA LinkInv ==
  ASSUME Assumptions, Inv, Lose \/ Connected \/ GiveUp \/ Close
  PROVE  Inv'
<1>1. CASE Lose
  <2>1. LoseSocket /\ UNCHANGED <<kind, connects, clientVars, consumerVars>>
    BY <1>1 DEF Lose
  <2>2. TypeOK'
    BY <1>1, <2>1, LoseSocketInv DEF Lose, clientVars, consumerVars, Inv, TypeOK
  <2>3. AskedListens' /\ KilledIsSilent'
    BY <2>1, LoseSocketInv DEF clientVars, consumerVars, Inv, AskedListens, KilledIsSilent
  <2>4. AnsweredIsNotSent' /\ NothingWithoutLink'
    BY <2>1, LoseSocketInv DEF clientVars, Inv, AnsweredIsNotSent, NothingWithoutLink
  <2> QED BY <2>2, <2>3, <2>4 DEF Inv
<1>2. CASE Connected
  <2>1. connects' \in Listens
    BY <1>2 DEF Connected, Inv, TypeOK, Assumptions, Listens
  <2>2. /\ listen' \in [Listens -> {"none", "asking", "streaming", "failed", "ended"}]
        /\ calls' \subseteq Calls /\ sent' \subseteq calls'
        /\ \A n \in Listens : LiveSelect(n) \in calls' => listen'[n] # "none"
        /\ \A n \in Listens : listen[n] # "none" => listen'[n] # "none"
    BY <1>2, <2>1 DEF Connected, Inv, TypeOK, AskedListens, LiveSelect, Calls
  <2>3. AskedListens' /\ AnsweredIsNotSent' /\ NothingWithoutLink'
    <3>1. wire' = << >> /\ link' = "connected" /\ kill' = kill
      BY <1>2 DEF Connected, Inv, NothingWithoutLink
    <3>2. \A n \in Listens : KillQuery(n) \in calls' => KillQuery(n) \in calls
      BY <1>2, TwoKinds DEF Connected
    <3> QED BY <2>2, <3>1, <3>2 DEF Inv, AskedListens, AnsweredIsNotSent, NothingWithoutLink
  <2>4. TypeOK'
    BY <1>2, <2>1, <2>2 DEF Connected, consumerVars, changeVars, Inv, TypeOK
  <2>5. KilledIsSilent'
    BY <1>2 DEF Connected, consumerVars, Inv, KilledIsSilent
  <2> QED BY <2>3, <2>4, <2>5 DEF Inv
<1>3. ASSUME NEW asking \in {"asking", "failed"}, StreamsEnd(asking),
             kill' \in {"no", "asking", "done", "failed"}
      PROVE  Inv'
  <2>1. LoseSocket /\ calls' = {}
    BY <1>3 DEF StreamsEnd
  <2>2. /\ listen' \in [Listens -> {"none", "asking", "streaming", "failed", "ended"}]
        /\ consumer' \in [Consumers -> {"none", "waiting", "unsubscribed", "done"}]
        /\ \A k \in Consumers : consumer'[k] = "waiting" => consumer[k] = "waiting"
    BY <1>3 DEF StreamsEnd, Inv, TypeOK
  <2>3. TypeOK'
    <3>1. /\ sent' = {} /\ live' = {} /\ wire' \in Seq(Message) /\ changes' = changes
          /\ missed' \subseteq Changes
      BY <2>1, LoseSocketInv
    <3>2. link' = "disconnected" /\ UNCHANGED <<kind, connects, overlapped, currentId, killed, got, since>>
      BY <1>3 DEF StreamsEnd
    <3> QED BY <1>3, <2>1, <2>2, <3>1, <3>2 DEF Inv, TypeOK
  <2>4. AskedListens' /\ AnsweredIsNotSent' /\ NothingWithoutLink'
    BY <2>1, LoseSocketInv DEF AskedListens, AnsweredIsNotSent, NothingWithoutLink
  <2>5. KilledIsSilent'
    BY <1>3, <2>2 DEF StreamsEnd, Inv, KilledIsSilent
  <2> QED BY <2>3, <2>4, <2>5 DEF Inv
<1>4. CASE GiveUp
  BY <1>3, <1>4 DEF GiveUp, Inv, TypeOK
<1>5. CASE Close
  BY <1>3, <1>5 DEF Close, Inv, TypeOK
<1> QED BY <1>1, <1>2, <1>4, <1>5

LEMMA ServerInv == ASSUME Assumptions, Inv, Server PROVE Inv'
<1>1. ASSUME NEW type \in {"id", "refused", "killed", "unknown"}, NEW n \in Listens,
             Answer(type, n),
             type \in {"id", "refused"} => listen[n] # "none" /\ LiveSelect(n) \notin sent',
             type \in {"killed", "unknown"} => kill # "no" /\ KillQuery(n) \notin sent',
             sent # {}, sent' \subseteq sent, live' \subseteq Listens,
             UNCHANGED <<linkVars, clientVars, consumerVars, changeVars>>
      PROVE  Inv'
  <2> DEFINE m == [type |-> type, id |-> n, change |-> None]
  <2>1. m \in Message
    BY DEF Message
  <2>2. /\ wire' \in Seq(Message)
        /\ \A i \in 1..Len(wire') : wire'[i] = m \/ (i \in 1..Len(wire) /\ wire'[i] = wire[i])
    BY <1>1, <2>1, AppendProperties DEF Answer, Inv, TypeOK
  <2>3. TypeOK'
    BY <1>1, <2>2 DEF linkVars, clientVars, consumerVars, changeVars, Inv, TypeOK
  <2>4. AskedListens'
    BY <1>1, <2>2 DEF clientVars, Inv, AskedListens
  <2>5. KilledIsSilent'
    BY <1>1 DEF clientVars, consumerVars, Inv, KilledIsSilent
  <2>6. AnsweredIsNotSent'
    BY <1>1, <2>2 DEF clientVars, Inv, AnsweredIsNotSent
  <2>7. NothingWithoutLink'
    BY <1>1 DEF linkVars, Inv, NothingWithoutLink
  <2> QED BY <2>3, <2>4, <2>5, <2>6, <2>7 DEF Inv
<1>2. ASSUME NEW n \in Listens, ExecuteLive(n) PROVE Inv'
  <2>1. listen[n] # "none"
    BY <1>2 DEF ExecuteLive, Inv, TypeOK, AskedListens
  <2>2. /\ sent # {} /\ sent' \subseteq sent /\ LiveSelect(n) \notin sent'
        /\ UNCHANGED <<linkVars, clientVars, consumerVars, changeVars>>
    BY <1>2 DEF ExecuteLive, Inv, TypeOK
  <2>3. PICK type \in {"id", "refused"} : Answer(type, n) /\ live' \subseteq live \cup {n}
    BY <1>2 DEF ExecuteLive
  <2> QED BY <1>1, <2>1, <2>2, <2>3 DEF Inv, TypeOK
<1>3. ASSUME NEW n \in Listens, ExecuteKill(n) PROVE Inv'
  <2>1. /\ sent # {} /\ sent' \subseteq sent /\ KillQuery(n) \notin sent'
        /\ UNCHANGED <<linkVars, clientVars, consumerVars, changeVars>>
    BY <1>3 DEF ExecuteKill, Inv, TypeOK
  <2>2. kill # "no"
    BY <1>3 DEF ExecuteKill, Inv, TypeOK, AnsweredIsNotSent
  <2>3. PICK type \in {"killed", "unknown"} : Answer(type, n) /\ live' \subseteq live
    BY <1>3 DEF ExecuteKill
  <2> QED BY <1>1, <2>1, <2>3, <2>2 DEF Inv, TypeOK
<1>4. CASE Change
  <2> DEFINE told == {[type |-> "notification", id |-> n, change |-> changes'] : n \in live}
             added == SetToSeq(told)
  <2>1. changes' \in Changes /\ changes' \in 0..MaxChanges
    BY <1>4 DEF Change, Changes, Inv, TypeOK, Assumptions
  <2>2. told \subseteq Message /\ \A m \in told : m.type = "notification"
    BY <2>1 DEF Message, Inv, TypeOK
  <2>3. IsFiniteSet(told)
    <3>1. IsFiniteSet(live)
      BY ListensFinite DEF Inv, TypeOK
    <3> DEFINE f == [n \in live |-> [type |-> "notification", id |-> n, change |-> changes']]
    <3>2. f \in Surjection(live, told)
      BY DEF Surjection
    <3> QED BY <3>1, <3>2, FS_Surjection
  <2>4. added \in Seq(told)
    BY <2>3, SetToSeqIsSeq
  <2>5. added \in Seq(Message) /\ \A i \in 1..Len(added) : added[i].type = "notification"
    <3> HIDE DEF told, added
    <3> QED BY <2>2, <2>4
  <2>6. wire' = wire \o added
    BY <1>4 DEF Change
  <2>7. /\ wire' \in Seq(Message)
        /\ \A i \in 1..Len(wire') :
             \/ i \in 1..Len(wire) /\ wire'[i] = wire[i]
             \/ wire'[i].type = "notification"
    <3> HIDE DEF added
    <3> QED BY <2>5, <2>6, ConcatProperties DEF Inv, TypeOK
  <2>9. UNCHANGED <<linkVars, clientVars, sent, live, consumerVars>> /\ missed' \subseteq Changes
    BY <1>4, <2>1 DEF Change, Inv, TypeOK
  <2>8. live = {} => wire' = wire
    <3>1. live = {} => told = {}
      OBVIOUS
    <3>2. live = {} => added = << >>
      BY <2>4, <3>1
    <3> HIDE DEF added
    <3> QED BY <2>6, <3>2, ConcatEmptySeq DEF Inv, TypeOK
  <2> HIDE DEF told, added
  <2>10. TypeOK'
    BY <2>1, <2>7, <2>9 DEF linkVars, clientVars, consumerVars, Inv, TypeOK
  <2>11. AskedListens'
    BY <2>7, <2>9 DEF clientVars, Inv, AskedListens
  <2>12. KilledIsSilent'
    BY <2>9 DEF clientVars, consumerVars, Inv, KilledIsSilent
  <2>13. AnsweredIsNotSent'
    BY <2>7, <2>9 DEF clientVars, Inv, AnsweredIsNotSent
  <2>14. NothingWithoutLink'
    BY <2>9, <2>8 DEF linkVars, Inv, NothingWithoutLink
  <2> QED BY <2>10, <2>11, <2>12, <2>13, <2>14 DEF Inv
<1> QED BY <1>2, <1>3, <1>4 DEF Server

\* What every received message leaves of the wire.
LEMMA ReceiveWire ==
  ASSUME Assumptions, Inv, NEW types, Receive(types)
  PROVE  /\ Head(wire) \in Message /\ Head(wire).type \in types /\ wire' \in Seq(Message)
         /\ Head(wire) = wire[1] /\ 1 \in 1..Len(wire)
         /\ \A i \in 1..Len(wire') : i + 1 \in 1..Len(wire) /\ wire'[i] = wire[i + 1]
         /\ UNCHANGED <<linkVars, killed, sent, live, since, changeVars>>
<1>1. wire \in Seq(Message) /\ wire # << >> /\ wire' = Tail(wire)
  BY DEF Receive, Inv, TypeOK
<1> QED BY <1>1, HeadTailProperties DEF Receive

LEMMA ArriveInv == ASSUME Assumptions, Inv, Arrive PROVE Inv'
<1>1. ASSUME NEW types, Receive(types), calls' \subseteq calls, sent \subseteq calls',
             kill' \in {"no", "asking", "done", "failed"}, kill' = "no" => kill = "no",
             currentId' \in Listens \cup {None},
             listen' \in [Listens -> {"none", "asking", "streaming", "failed", "ended"}],
             \A n \in Listens : listen[n] # "none" => listen'[n] # "none",
             consumer' \in [Consumers -> {"none", "waiting", "unsubscribed", "done"}],
             \A k \in Consumers : consumer'[k] = "waiting" => consumer[k] = "waiting",
             got' \in [Consumers -> Seq(Changes)]
      PROVE  Inv'
  <2>1. /\ wire' \in Seq(Message) /\ 1 \in 1..Len(wire)
        /\ \A i \in 1..Len(wire') : i + 1 \in 1..Len(wire) /\ wire'[i] = wire[i + 1]
        /\ UNCHANGED <<linkVars, killed, sent, live, since, changeVars>>
    BY <1>1, ReceiveWire
  <2>2. TypeOK'
    BY <1>1, <2>1 DEF linkVars, changeVars, Inv, TypeOK
  <2>3. AskedListens'
    <3>1. \A i \in 1..Len(wire') :
            /\ wire'[i].id \in Listens
            /\ wire'[i].type \in {"id", "refused"} => listen[wire'[i].id] # "none"
      BY <2>1 DEF Inv, AskedListens, Message, TypeOK
    <3> QED BY <1>1, <3>1 DEF Inv, AskedListens
  <2>4. KilledIsSilent'
    BY <1>1, <2>1 DEF Inv, KilledIsSilent
  <2>5. AnsweredIsNotSent'
    BY <1>1, <2>1 DEF Inv, AnsweredIsNotSent
  <2>6. NothingWithoutLink'
    <3>1. link' = "connected"
      <4>1. wire # << >>
        BY <1>1 DEF Receive
      <4> QED BY <2>1, <4>1 DEF linkVars, Inv, NothingWithoutLink
    <3> QED BY <3>1 DEF NothingWithoutLink
  <2> QED BY <2>2, <2>3, <2>4, <2>5, <2>6 DEF Inv
<1>2. CASE ReceiveId
  <2> DEFINE n == Head(wire).id
  <2>1. /\ Receive({"id"}) /\ listen' = [listen EXCEPT ![n] = "streaming"]
        /\ currentId' = n /\ calls' = calls \ {LiveSelect(n)}
        /\ UNCHANGED <<kill, consumer, got>>
    BY <1>2 DEF ReceiveId, OpenStream
  <2>2. n \in Listens /\ LiveSelect(n) \notin sent
    BY <2>1, ReceiveWire DEF Message, Inv, AnsweredIsNotSent
  <2> HIDE DEF n
  <2> QED BY <1>1, <2>1, <2>2 DEF Inv, TypeOK
<1>3. CASE ReceiveRefusal
  <2> DEFINE n == Head(wire).id
  <2>1. /\ Receive({"refused"}) /\ listen' = [listen EXCEPT ![n] = "failed"]
        /\ calls' = calls \ {LiveSelect(n)}
        /\ UNCHANGED <<currentId, kill, consumer, got>>
    BY <1>3 DEF ReceiveRefusal
  <2>2. n \in Listens /\ LiveSelect(n) \notin sent
    BY <2>1, ReceiveWire DEF Message, Inv, AnsweredIsNotSent
  <2> HIDE DEF n
  <2> QED BY <1>1, <2>1, <2>2 DEF Inv, TypeOK
<1>4. CASE ReceiveKilled
  <2> DEFINE n == Head(wire).id
  <2>1. /\ Receive({"killed", "unknown"}) /\ kill' \in {"done", "failed"}
        /\ calls' = calls \ {KillQuery(n)}
        /\ UNCHANGED <<listen, currentId, consumer, got>>
    BY <1>4 DEF ReceiveKilled
  <2>2. KillQuery(n) \notin sent
    BY <2>1, ReceiveWire DEF Message, Inv, AnsweredIsNotSent
  <2> HIDE DEF n
  <2> QED BY <1>1, <2>1, <2>2 DEF Inv, TypeOK
<1>5. CASE ReceiveNotification
  <2> DEFINE streams == StreamsOf(Head(wire).id)
             copies  == [s \in 1..Cardinality(streams) |-> Head(wire).change]
  <2>1. Receive({"notification"}) /\ UNCHANGED <<listen, currentId, kill, calls>>
    BY <1>5 DEF ReceiveNotification
  <2>2. Head(wire).change \in Changes
    BY <2>1, ReceiveWire DEF Message
  <2>3. copies \in Seq(Changes)
    <3>1. streams \subseteq Listens
      BY DEF StreamsOf
    <3>2. Cardinality(streams) \in Nat
      BY <3>1, ListensFinite, FS_CardinalityType
    <3> HIDE DEF streams
    <3> QED BY <2>2, <3>2, IsASeq
  <2>4. CASE streams = {}
    BY <1>1, <1>5, <2>1, <2>4 DEF ReceiveNotification, Inv, TypeOK
  <2>5. CASE streams # {}
    <3>1. PICK throwing \in SUBSET Audience :
            /\ got' = [k \in Consumers |->
                 IF k \in Audience THEN got[k] \o copies ELSE got[k]]
            /\ consumer' = [k \in Consumers |->
                 IF k \in throwing \/ consumer[k] = "unsubscribed" THEN "done" ELSE consumer[k]]
      BY <1>5, <2>5 DEF ReceiveNotification
    <3> HIDE DEF copies
    <3>2. got' \in [Consumers -> Seq(Changes)]
      BY <2>3, <3>1 DEF Inv, TypeOK
    <3>3. /\ consumer' \in [Consumers -> {"none", "waiting", "unsubscribed", "done"}]
          /\ \A k \in Consumers : consumer'[k] = "waiting" => consumer[k] = "waiting"
      BY <3>1 DEF Inv, TypeOK
    <3> QED BY <1>1, <2>1, <3>2, <3>3 DEF Inv, TypeOK
  <2> QED BY <2>4, <2>5
<1> QED BY <1>2, <1>3, <1>4, <1>5 DEF Arrive

LEMMA UserInv == ASSUME Assumptions, Inv, User PROVE Inv'
<1>1. CASE Kill
  <2>1. /\ kill = "no" /\ killed' = TRUE /\ consumer' = CancelChannels
        /\ UNCHANGED <<linkVars, listen, currentId, live, wire, got, since, changeVars>>
    BY <1>1 DEF Kill
  <2>2. /\ consumer' \in [Consumers -> {"none", "waiting", "unsubscribed", "done"}]
        /\ \A k \in Consumers : consumer'[k] # "waiting"
    BY <2>1 DEF CancelChannels, Inv, TypeOK
  <2>3. /\ kill' \in {"asking", "done", "failed"}
        /\ calls' \subseteq Calls /\ sent' \subseteq calls'
        /\ link # "connected" => sent' = sent
    BY <1>1, TwoKinds DEF Kill, Inv, TypeOK, Calls
  <2>4. ASSUME NEW n \in Listens
        PROVE  /\ LiveSelect(n) \in calls' => LiveSelect(n) \in calls
               /\ LiveSelect(n) \in sent' => LiveSelect(n) \in sent
    BY <1>1, TwoKinds DEF Kill
  <2>5. TypeOK'
    BY <2>1, <2>2, <2>3 DEF linkVars, changeVars, Inv, TypeOK
  <2>6. KilledIsSilent'
    BY <2>2 DEF KilledIsSilent
  <2>7. AskedListens'
    <3>1. /\ wire' = wire /\ listen' = listen
          /\ \A n \in Listens : LiveSelect(n) \in calls' => LiveSelect(n) \in calls
      BY <2>1, <2>4
    <3> QED BY <3>1 DEF Inv, AskedListens
  <2>8. NothingWithoutLink'
    BY <2>1, <2>3 DEF linkVars, Inv, NothingWithoutLink
  <2>9. AnsweredIsNotSent'
    <3>1. \A i \in 1..Len(wire) : wire[i].id \in Listens
      BY DEF Inv, TypeOK, Message
    <3>2. \A i \in 1..Len(wire) :
            /\ wire[i].type \in {"id", "refused"} => LiveSelect(wire[i].id) \notin sent
            /\ wire[i].type \notin {"killed", "unknown"}
      BY <2>1 DEF Inv, AnsweredIsNotSent
    <3>3. kill' # "no" /\ wire' = wire
      BY <2>1, <2>3
    <3>4. \A n \in Listens : LiveSelect(n) \notin sent => LiveSelect(n) \notin sent'
      BY <2>4
    <3>5. \A i \in 1..Len(wire) :
            wire[i].type \in {"id", "refused"} => LiveSelect(wire[i].id) \notin sent'
      BY <3>1, <3>2, <3>4
    <3> QED BY <3>2, <3>3, <3>5 DEF AnsweredIsNotSent
  <2> QED BY <2>5, <2>6, <2>9, <2>8, <2>7 DEF Inv
<1>2. CASE Close
  BY <1>2, LinkInv
<1>3. ASSUME NEW k \in Consumers, Subscribe(k) \/ Unsubscribe(k) PROVE Inv'
  <2>1. /\ UNCHANGED <<linkVars, clientVars, serverVars, got, changeVars>>
        /\ consumer' \in [Consumers -> {"none", "waiting", "unsubscribed", "done"}]
        /\ since' \in [Consumers -> 0..MaxChanges]
        /\ killed => \A j \in Consumers : consumer'[j] = "waiting" => consumer[j] = "waiting"
    BY <1>3 DEF Subscribe, Unsubscribe, Inv, TypeOK
  <2>2. TypeOK'
    BY <2>1 DEF linkVars, clientVars, serverVars, changeVars, Inv, TypeOK
  <2>3. AskedListens' /\ AnsweredIsNotSent' /\ NothingWithoutLink' /\ KilledIsSilent'
    BY <2>1 DEF linkVars, clientVars, serverVars, Inv, AskedListens, AnsweredIsNotSent,
       NothingWithoutLink, KilledIsSilent
  <2> QED BY <2>2, <2>3 DEF Inv
<1> QED BY <1>1, <1>2, <1>3 DEF User

LEMMA StepInv == ASSUME Assumptions, Inv, [Next]_vars PROVE Inv'
<1>1. CASE UNCHANGED vars
  BY <1>1 DEF vars, Inv, TypeOK, AskedListens, AnsweredIsNotSent, NothingWithoutLink,
     KilledIsSilent
<1> QED BY <1>1, LinkInv, ServerInv, ArriveInv, UserInv DEF Next

\* The step property: whoever is not waiting is called by no handler, and the
\* listener of "connected" is gone.
LEMMA StepKilled ==
  ASSUME Assumptions, Inv, [Next]_vars, killed
  PROVE  got' = got /\ \A n \in Listens : listen[n] = "none" => listen'[n] = "none"
<1>1. CASE Lose \/ Connected \/ GiveUp \/ Close
  BY <1>1 DEF Lose, Connected, ListensAgain, GiveUp, Close, StreamsEnd, clientVars,
     consumerVars, Inv, TypeOK
<1>2. CASE Server \/ Kill \/ \E k \in Consumers : Subscribe(k) \/ Unsubscribe(k)
  BY <1>2 DEF Server, Change, ExecuteLive, ExecuteKill, Kill, Subscribe, Unsubscribe,
     clientVars, consumerVars
<1>3. CASE ReceiveId \/ ReceiveRefusal \/ ReceiveKilled
  <2>1. /\ Head(wire) = wire[1] /\ 1 \in 1..Len(wire)
        /\ ReceiveId \/ ReceiveRefusal => wire[1].type \in {"id", "refused"}
    <3>1. CASE ReceiveId
      BY <3>1, ReceiveWire DEF ReceiveId
    <3>2. CASE ReceiveRefusal
      <4>1. Receive({"refused"})
        BY <3>2 DEF ReceiveRefusal
      <4> QED BY <4>1, ReceiveWire
    <3>3. CASE ReceiveKilled /\ ~ReceiveId /\ ~ReceiveRefusal
      BY <3>3, ReceiveWire DEF ReceiveKilled
    <3> QED BY <1>3, <3>1, <3>2, <3>3
  <2>2. ReceiveId \/ ReceiveRefusal => listen[Head(wire).id] # "none"
    BY <2>1 DEF Inv, AskedListens
  <2> QED BY <1>3, <2>2 DEF ReceiveId, ReceiveRefusal, ReceiveKilled, Inv, TypeOK
<1>4. CASE ReceiveNotification
  <2>1. Audience = {}
    BY DEF Audience, Inv, KilledIsSilent
  <2> QED BY <1>4, <2>1 DEF ReceiveNotification, Inv, TypeOK
<1>5. CASE UNCHANGED vars
  BY <1>5 DEF vars
<1> QED BY <1>1, <1>2, <1>3, <1>4, <1>5 DEF Next, Arrive, User

-----------------------------------------------------------------------------
(* Each change once.  As long as no connection was lost while a LIVE       *)
(* SELECT was pending, there is one live query at a time.                  *)

OneLiveQuery ==
  /\ \A n \in Listens : LiveSelect(n) \in calls =>
       kind = "managed" /\ (~overlapped => n = connects /\ link = "connected")
  /\ kind = "unmanaged" => live \subseteq {1}
  /\ kind = "managed" /\ ~overlapped => live \subseteq {connects}

Notifies(i) == wire[i].type = "notification"

\* What is on its way comes in the order of the changes, ...
WireRises ==
  \A i, j \in 1..Len(wire) :
    i < j /\ Notifies(i) /\ Notifies(j) => wire[i].change < wire[j].change

WireIsPast == \A i \in 1..Len(wire) : Notifies(i) => wire[i].change <= changes

\* ... what handlers were called with came before it, ...
HandledFirst ==
  \A k \in Consumers : \A p \in 1..Len(got[k]) : \A i \in 1..Len(wire) :
    Notifies(i) => got[k][p] < wire[i].change

HandledIsPast == \A k \in Consumers : \A p \in 1..Len(got[k]) : got[k][p] <= changes

\* ... in that order too.
HandledRises ==
  \A k \in Consumers : \A p, q \in 1..Len(got[k]) : p < q => got[k][p] < got[k][q]

Rising == ~overlapped => /\ WireRises /\ WireIsPast
                         /\ HandledFirst /\ HandledIsPast /\ HandledRises

OnceInv == Inv /\ OneLiveQuery /\ Rising

LEMMA OnceInitInv == ASSUME Assumptions, Init PROVE OnceInv
<1>1. Inv
  BY InitInv
<1>2. OneLiveQuery
  BY TwoKinds DEF Init, OneLiveQuery, Inv, TypeOK, Assumptions, LiveSelect
<1>3. Rising
  BY DEF Init, Rising, WireRises, WireIsPast, HandledFirst, HandledIsPast, HandledRises
<1> QED BY <1>1, <1>2, <1>3 DEF OnceInv

\* There is no more than one live query when none overlaps another.
LEMMA LiveIsOne ==
  ASSUME Assumptions, OnceInv, ~overlapped
  PROVE  \A m, n \in live : m = n
BY DEF OnceInv, Inv, TypeOK, OneLiveQuery, Assumptions

LEMMA Numbers ==
  ASSUME Assumptions, Inv
  PROVE  /\ changes \in Nat /\ Len(wire) \in Nat
         /\ \A i \in 1..Len(wire) : wire[i] \in Message /\ (Notifies(i) => wire[i].change \in Nat)
         /\ \A k \in Consumers : /\ got[k] \in Seq(Changes) /\ Len(got[k]) \in Nat
                                /\ \A p \in 1..Len(got[k]) : got[k][p] \in Nat
<1>1. \A i \in 1..Len(wire) : wire[i] \in Message /\ (Notifies(i) => wire[i].change \in Nat)
  BY DEF Inv, TypeOK, Message, Changes, Notifies
<1>2. \A k \in Consumers : got[k] \in Seq(Changes)
  BY DEF Inv, TypeOK
<1>3. Changes \subseteq Nat
  BY DEF Changes, Assumptions
<1>4. changes \in Nat /\ Len(wire) \in Nat
  BY DEF Inv, TypeOK, Assumptions
<1>5. ASSUME NEW k \in Consumers PROVE Len(got[k]) \in Nat /\ \A p \in 1..Len(got[k]) : got[k][p] \in Nat
  <2>1. got[k] \in Seq(Changes)
    BY <1>2
  <2> HIDE DEF Changes
  <2> QED BY <1>3, <2>1, ElementOfSeq, LenProperties
<1> QED BY <1>1, <1>2, <1>4, <1>5

LEMMA OneLiveQueryStep == ASSUME Assumptions, OnceInv, [Next]_vars PROVE OneLiveQuery'
<1>1. CASE Lose
  <2>1. live' = {} /\ UNCHANGED <<kind, connects, calls>> /\ link' = "reconnecting"
    BY <1>1 DEF Lose, LoseSocket, clientVars
  <2>2. (overlapped => overlapped') /\ \A n \in Listens : LiveSelect(n) \in calls => overlapped'
    BY <1>1 DEF Lose
  <2> QED BY <2>1, <2>2 DEF OnceInv, OneLiveQuery
<1>2. CASE Connected
  <2>1. live' = {} /\ link' = "connected" /\ link # "connected" /\ UNCHANGED <<kind, overlapped>>
    BY <1>2 DEF Connected, OnceInv, Inv, NothingWithoutLink
  <2>2. ASSUME NEW n \in Listens, LiveSelect(n) \in calls'
        PROVE  LiveSelect(n) \in calls \/ (kind = "managed" /\ n = connects')
    BY <1>2, <2>2, TwoKinds DEF Connected, ListensAgain
  <2> QED BY <2>1, <2>2 DEF OnceInv, OneLiveQuery
<1>3. CASE GiveUp \/ Close
  <2>1. live' = {} /\ calls' = {}
    BY <1>3 DEF GiveUp, Close, StreamsEnd, LoseSocket
  <2> QED BY <2>1 DEF OneLiveQuery
<1>4. ASSUME NEW n \in Listens, ExecuteLive(n) PROVE OneLiveQuery'
  <2>1. LiveSelect(n) \in calls /\ live' \subseteq live \cup {n}
    BY <1>4 DEF ExecuteLive, OnceInv, Inv, TypeOK
  <2>2. UNCHANGED <<kind, link, connects, overlapped, calls>>
    BY <1>4 DEF ExecuteLive, linkVars, clientVars
  <2> QED BY <2>1, <2>2 DEF OnceInv, OneLiveQuery
<1>5. ASSUME UNCHANGED <<kind, link, connects, overlapped>>, live' \subseteq live,
             \A n \in Listens : LiveSelect(n) \in calls' => LiveSelect(n) \in calls
      PROVE  OneLiveQuery'
  BY <1>5 DEF OnceInv, OneLiveQuery
<1>6. ASSUME NEW n \in Listens, ExecuteKill(n) PROVE OneLiveQuery'
  BY <1>5, <1>6 DEF ExecuteKill, linkVars, clientVars
<1>7. CASE Change \/ Arrive
  BY <1>5, <1>7 DEF Change, Arrive, Receive, ReceiveId, ReceiveRefusal, ReceiveKilled,
     ReceiveNotification, linkVars, clientVars
<1>8. CASE Kill
  <2>1. \A n \in Listens : LiveSelect(n) \in calls' => LiveSelect(n) \in calls
    BY <1>8, TwoKinds DEF Kill
  <2> QED BY <1>5, <1>8, <2>1 DEF Kill, linkVars
<1>9. ASSUME NEW k \in Consumers, Subscribe(k) \/ Unsubscribe(k) PROVE OneLiveQuery'
  BY <1>5, <1>9 DEF Subscribe, Unsubscribe, linkVars, clientVars, serverVars
<1>10. CASE UNCHANGED vars
  BY <1>5, <1>10 DEF vars
<1> QED BY <1>1, <1>2, <1>3, <1>4, <1>6, <1>7, <1>8, <1>9, <1>10 DEF Next, Server, User

LEMMA ReceiveShifts ==
  ASSUME Assumptions, Inv, NEW types, Receive(types), NEW i \in 1..Len(wire'), Notifies(i)'
  PROVE  i + 1 \in 1..Len(wire) /\ Notifies(i + 1) /\ wire'[i] = wire[i + 1]
<1>1. i + 1 \in 1..Len(wire) /\ wire'[i] = wire[i + 1]
  BY ReceiveWire
<1> QED BY <1>1 DEF Notifies

LEMMA RisingStep == ASSUME Assumptions, OnceInv, [Next]_vars PROVE Rising'
<1> SUFFICES ASSUME ~overlapped' PROVE Rising'
  BY DEF Rising
<1>1. ~overlapped
  <2>1. overlapped' = overlapped \/ Lose
    BY DEF Next, Connected, GiveUp, Close, StreamsEnd, Server, Change, ExecuteLive, ExecuteKill,
       Arrive, Receive, ReceiveId, ReceiveRefusal, ReceiveKilled, ReceiveNotification, User,
       Kill, Subscribe, Unsubscribe, linkVars, vars
  <2> QED BY <2>1 DEF Lose
<1>2. CASE Lose \/ GiveUp \/ Close
  <2>1. wire' = << >> /\ UNCHANGED <<got, changes>>
    BY <1>2 DEF Lose, GiveUp, Close, StreamsEnd, LoseSocket, consumerVars
  <2> QED BY <1>1, <2>1 DEF OnceInv, Rising, WireRises, WireIsPast, HandledFirst,
             HandledIsPast, HandledRises
<1>3. ASSUME UNCHANGED <<got, changes, wire>> PROVE Rising'
  BY <1>1, <1>3 DEF OnceInv, Rising, Notifies, WireRises, WireIsPast, HandledFirst,
     HandledIsPast, HandledRises
<1>4. CASE Connected \/ Kill \/ UNCHANGED vars
           \/ \E k \in Consumers : Subscribe(k) \/ Unsubscribe(k)
  BY <1>3, <1>4 DEF Connected, Kill, Subscribe, Unsubscribe, consumerVars, changeVars,
     serverVars, vars
<1>5. ASSUME NEW n \in Listens, ExecuteLive(n) \/ ExecuteKill(n) PROVE Rising'
  <2>1. PICK type \in {"id", "refused", "killed", "unknown"} : Answer(type, n)
    BY <1>5 DEF ExecuteLive, ExecuteKill
  <2> DEFINE m == [type |-> type, id |-> n, change |-> None]
  <2>2. m \in Message /\ m.type # "notification"
    BY DEF Message
  <2>3. /\ UNCHANGED <<got, changes>> /\ Len(wire') = Len(wire) + 1
        /\ \A i \in 1..Len(wire) : wire'[i] = wire[i]
        /\ wire'[Len(wire) + 1] = m
    BY <1>5, <2>1, <2>2, AppendProperties DEF ExecuteLive, ExecuteKill, Answer, consumerVars,
       changeVars, OnceInv, Inv, TypeOK
  <2>4. \A i \in 1..Len(wire') : Notifies(i)' => i \in 1..Len(wire) /\ Notifies(i)
    BY SMTT(30), <2>2, <2>3 DEF Notifies, OnceInv, Inv, TypeOK
  <2> QED BY <1>1, <2>3, <2>4 DEF OnceInv, Rising, WireRises, WireIsPast, HandledFirst,
             HandledIsPast, HandledRises
<1>6. CASE Change
  <2> DEFINE told == {[type |-> "notification", id |-> n, change |-> changes'] : n \in live}
             added == SetToSeq(told)
  <2>1. changes' = changes + 1 /\ changes \in Nat /\ wire' = wire \o added /\ got' = got
    BY <1>6 DEF Change, consumerVars, OnceInv, Inv, TypeOK, Assumptions
  <2>2. CASE live = {}
    <3>1. told = {} /\ IsFiniteSet(told)
      BY <2>2, FS_EmptySet
    <3>2. added = << >>
      BY <3>1, SetToSeqIsSeq
    <3>3. wire' = wire
      <4> HIDE DEF added
      <4> QED BY <2>1, <3>2, ConcatEmptySeq DEF OnceInv, Inv, TypeOK
    <3> HIDE DEF told, added
    <3>4. HandledIsPast' /\ WireIsPast'
      BY <1>1, <2>1, <3>3, Numbers DEF OnceInv, Rising, Notifies, HandledIsPast, WireIsPast
    <3> QED BY <1>1, <2>1, <3>3, <3>4 DEF OnceInv, Rising, Notifies, WireRises,
               HandledFirst, HandledRises
  <2>3. ASSUME NEW n \in live PROVE Rising'
    <3> DEFINE m == [type |-> "notification", id |-> n, change |-> changes']
    <3>1. told = {m}
      BY <1>1, <2>3, LiveIsOne
    <3>2. Cardinality(told) = 1 /\ IsFiniteSet(told)
      BY <3>1, FS_Singleton
    <3>3. added \in Seq({m}) /\ Len(added) = 1
      <4>1. SetToSeq({m}) \in [1..1 -> {m}]
        BY <3>1, <3>2, SetToSeqIsFunction
      <4>2. added = SetToSeq({m})
        BY <3>1
      <4> HIDE DEF m, told, added
      <4> QED BY <4>1, <4>2, OneElement
    <3>4. m \in Message /\ added[1] = m
      BY <1>6, <2>1, <3>3 DEF Message, Change, Changes, OnceInv, Inv, TypeOK, Assumptions
    <3> HIDE DEF m, told, added
    <3>5. /\ Len(wire') = Len(wire) + 1 /\ wire'[Len(wire) + 1] = m
          /\ \A i \in 1..Len(wire) : wire'[i] = wire[i]
      <4>1. wire \in Seq(Message) /\ added \in Seq(Message)
        BY <3>3, <3>4 DEF OnceInv, Inv, TypeOK
      <4>2. /\ Len(wire \o added) = Len(wire) + Len(added)
            /\ \A i \in 1..(Len(wire) + Len(added)) :
                 (wire \o added)[i] = IF i <= Len(wire) THEN wire[i] ELSE added[i - Len(wire)]
        BY <4>1, ConcatProperties
      <4>3. Len(wire) \in Nat
        BY <4>1
      <4> QED BY <2>1, <3>3, <3>4, <4>2, <4>3
    <3>6. m.change = changes'
      BY DEF m
    <3>7. \A i \in 1..Len(wire') : Notifies(i)' =>
            \/ i \in 1..Len(wire) /\ Notifies(i) /\ wire'[i] = wire[i]
            \/ i = Len(wire) + 1 /\ wire'[i].change = changes + 1
      BY <2>1, <3>5, <3>6, Numbers DEF OnceInv, Notifies
    <3>8. WireRises' /\ WireIsPast'
      BY <1>1, <2>1, <3>5, <3>7, Numbers DEF OnceInv, Rising, WireRises, WireIsPast
    <3>9. HandledFirst'
      BY <1>1, <2>1, <3>7, Numbers DEF OnceInv, Rising, HandledFirst, HandledIsPast
    <3>10. HandledIsPast' /\ HandledRises'
      BY <1>1, <2>1, Numbers DEF OnceInv, Rising, HandledIsPast, HandledRises
    <3> QED BY <3>8, <3>9, <3>10 DEF Rising
  <2> QED BY <2>2, <2>3
<1>7. ASSUME NEW types, Receive(types)
      PROVE  /\ WireRises' /\ WireIsPast' /\ changes' = changes
             /\ \A i \in 1..Len(wire') : /\ i + 1 \in 1..Len(wire)
                                        /\ wire'[i] = wire[i + 1]
                                        /\ Notifies(i)' => Notifies(i + 1)
  <2>1. /\ \A i \in 1..Len(wire') : i + 1 \in 1..Len(wire) /\ wire'[i] = wire[i + 1]
        /\ changes' = changes
    BY <1>7, ReceiveWire DEF changeVars, OnceInv
  <2>2. \A i \in 1..Len(wire') : Notifies(i)' => Notifies(i + 1)
    BY <2>1 DEF Notifies
  <2>3. Len(wire') \in Nat
    BY <1>7, ReceiveWire DEF OnceInv
  <2>4. WireRises'
    BY <1>1, <2>1, <2>2, <2>3, Numbers DEF OnceInv, Rising, WireRises
  <2>5. WireIsPast'
    BY <1>1, <2>1, <2>2 DEF OnceInv, Rising, WireIsPast
  <2> QED BY <2>1, <2>2, <2>4, <2>5
<1>11. ASSUME NEW types, Receive(types), got' = got PROVE Rising'
  <2>1. /\ WireRises' /\ WireIsPast' /\ changes' = changes
        /\ \A i \in 1..Len(wire') : /\ i + 1 \in 1..Len(wire)
                                   /\ wire'[i] = wire[i + 1]
                                   /\ Notifies(i)' => Notifies(i + 1)
    BY <1>7, <1>11
  <2>4. ASSUME NEW k \in Consumers, NEW p \in 1..Len(got'[k]), NEW i \in 1..Len(wire'),
               Notifies(i)'
        PROVE  got'[k][p] < wire'[i].change
    <3>1. i + 1 \in 1..Len(wire) /\ Notifies(i + 1) /\ wire'[i] = wire[i + 1]
      BY <1>11, <2>4, ReceiveShifts DEF OnceInv
    <3> QED BY <1>1, <1>11, <2>4, <3>1 DEF OnceInv, Rising, HandledFirst
  <2>2. HandledFirst'
    BY <2>4 DEF HandledFirst
  <2>3. HandledIsPast' /\ HandledRises'
    BY <1>1, <1>11, <2>1 DEF OnceInv, Rising, HandledIsPast, HandledRises
  <2> QED BY <2>1, <2>2, <2>3 DEF Rising
<1>8. CASE ReceiveId \/ ReceiveRefusal \/ ReceiveKilled
  BY <1>8, <1>11 DEF ReceiveId, ReceiveRefusal, ReceiveKilled
<1>9. CASE ReceiveNotification
  <2> DEFINE change  == Head(wire).change
             streams == StreamsOf(Head(wire).id)
             copies  == [s \in 1..Cardinality(streams) |-> change]
  <2>1. Receive({"notification"})
    BY <1>9 DEF ReceiveNotification
  <2>2. change \in Changes /\ Notifies(1) /\ change = wire[1].change /\ 1 \in 1..Len(wire)
    BY <2>1, ReceiveWire DEF Message, Notifies, OnceInv
  <2>5. /\ WireRises' /\ WireIsPast' /\ changes' = changes
        /\ \A i \in 1..Len(wire') : /\ i + 1 \in 1..Len(wire)
                                   /\ wire'[i] = wire[i + 1]
                                   /\ Notifies(i)' => Notifies(i + 1)
    BY <1>7, <2>1
  <2>3. CASE streams = {}
    <3>1. got' = got
      BY <1>9, <2>3 DEF ReceiveNotification
    <3> QED BY <1>11, <2>1, <3>1
  <2>4. CASE streams # {}
    <3>1. streams = {Head(wire).id}
      BY <2>4 DEF StreamsOf
    <3>2. Cardinality(streams) = 1
      BY <3>1, FS_Singleton
    <3>3. copies = <<change>>
      BY <3>2
    <3>4. got' = [k \in Consumers |-> IF k \in Audience THEN got[k] \o copies ELSE got[k]]
      BY <1>9, <2>4 DEF ReceiveNotification
    <3> HIDE DEF copies, streams, change
    <3>5. ASSUME NEW k \in Consumers
          PROVE  /\ got'[k] = got[k] \/ got'[k] = Append(got[k], change)
                 /\ \A p \in 1..Len(got'[k]) :
                      \/ p \in 1..Len(got[k]) /\ got'[k][p] = got[k][p]
                      \/ p = Len(got[k]) + 1 /\ got'[k][p] = change
      <4>1. got[k] \in Seq(Changes) /\ got'[k] \in {got[k], got[k] \o <<change>>}
        BY <3>3, <3>4, Numbers DEF OnceInv
      <4>2. got[k] \o <<change>> = Append(got[k], change)
        BY <2>2, <4>1, AppendIsConcat
      <4> QED BY <2>2, <4>1, <4>2, AppendProperties
    <3>6. ASSUME NEW i \in 1..Len(wire'), Notifies(i)' PROVE change < wire'[i].change
      <4>1. i + 1 \in 1..Len(wire) /\ Notifies(i + 1) /\ wire'[i] = wire[i + 1]
        BY <2>1, <3>6, ReceiveShifts DEF OnceInv
      <4>2. 1 < i + 1
        OBVIOUS
      <4> QED BY <1>1, <2>2, <4>1, <4>2 DEF OnceInv, Rising, WireRises
    <3>7. change <= changes
      BY <1>1, <2>2 DEF OnceInv, Rising, WireIsPast
    <3>8. change \in Nat /\ \A k \in Consumers : \A p \in 1..Len(got[k]) : got[k][p] < change
      BY <1>1, <2>2, Numbers DEF OnceInv, Rising, HandledFirst
    <3>9. ASSUME NEW k \in Consumers, NEW p \in 1..Len(got'[k]), NEW i \in 1..Len(wire'),
                 Notifies(i)'
          PROVE  got'[k][p] < wire'[i].change
      <4>1. i + 1 \in 1..Len(wire) /\ Notifies(i + 1) /\ wire'[i] = wire[i + 1]
        BY <2>1, <3>9, ReceiveShifts DEF OnceInv
      <4>2. CASE p \in 1..Len(got[k]) /\ got'[k][p] = got[k][p]
        BY <1>1, <4>1, <4>2 DEF OnceInv, Rising, HandledFirst
      <4>3. CASE got'[k][p] = change
        BY <3>6, <3>9, <4>3
      <4> QED BY <3>5, <4>2, <4>3
    <3>10. HandledFirst'
      BY <3>9 DEF HandledFirst
    <3>11. HandledIsPast'
      BY <1>1, <2>5, <3>5, <3>7 DEF OnceInv, Rising, HandledIsPast
    <3>12. ASSUME NEW k \in Consumers, NEW p \in 1..Len(got'[k]), NEW q \in 1..Len(got'[k]), p < q
           PROVE  got'[k][p] < got'[k][q]
      <4>1. Len(got[k]) \in Nat
        BY Numbers DEF OnceInv
      <4>2. p \in 1..Len(got[k]) /\ got'[k][p] = got[k][p]
        <5>1. q \in 1..Len(got[k]) \/ q = Len(got[k]) + 1
          BY <3>5
        <5>2. p # Len(got[k]) + 1
          BY <3>12, <4>1, <5>1
        <5> QED BY <3>5, <5>2
      <4>3. CASE q \in 1..Len(got[k]) /\ got'[k][q] = got[k][q]
        BY <1>1, <3>12, <4>2, <4>3 DEF OnceInv, Rising, HandledRises
      <4>4. CASE got'[k][q] = change
        BY <3>8, <4>2, <4>4
      <4> QED BY <3>5, <4>3, <4>4
    <3>13. HandledRises'
      BY <3>12 DEF HandledRises
    <3> QED BY <2>5, <3>10, <3>11, <3>13 DEF Rising
  <2> QED BY <2>3, <2>4
<1> QED BY <1>2, <1>4, <1>5, <1>6, <1>8, <1>9 DEF Next, Server, Arrive, User

-----------------------------------------------------------------------------
(* The theorems.                                                           *)

(* Types, and with them that an answer finds the #listen() that asked.     *)
THEOREM Types == ASSUME Assumptions PROVE Spec => []TypeOK
<1>1. Init => Inv
  BY InitInv
<1>2. Inv /\ [Next]_vars => Inv'
  BY StepInv
<1>3. Inv => TypeOK
  BY DEF Inv
<1> QED BY <1>1, <1>2, <1>3, PTL DEF Spec

(* kill() is final: no handler is called after it, and no live query is    *)
(* asked for, whatever is on its way and however often the connection is   *)
(* lost (live.ts:127).                                                     *)
THEOREM KillIsFinal == ASSUME Assumptions PROVE Spec => NothingAfterKill
<1>1. Init => Inv
  BY InitInv
<1>2. Inv /\ [Next]_vars => Inv'
  BY StepInv
<1>3. Inv /\ [Next]_vars =>
        [killed => /\ got' = got
                   /\ \A n \in Listens : listen[n] = "none" => listen'[n] = "none"]_vars
  BY StepKilled
<1> QED BY <1>1, <1>2, <1>3, PTL DEF Spec, NothingAfterKill

(* A handler is called once for every change, in the order of the changes, *)
(* over any number of restarts, if no connection was lost while a LIVE     *)
(* SELECT was pending (live.ts:74, :99).                                   *)
THEOREM OnceForEveryChange == ASSUME Assumptions PROVE Spec => []OncePerMessage
<1>1. Init => OnceInv
  BY OnceInitInv
<1>2. OnceInv /\ [Next]_vars => OnceInv'
  BY StepInv, OneLiveQueryStep, RisingStep DEF OnceInv
<1>3. OnceInv => OncePerMessage
  <2>1. ASSUME OnceInv, ~overlapped PROVE NoDuplicates
    <3>1. \A k \in Consumers : DOMAIN got[k] = 1..Len(got[k])
      BY <2>1 DEF OnceInv, Inv, TypeOK
    <3> QED BY <2>1, <3>1 DEF OnceInv, Rising, HandledRises, NoDuplicates
  <2> QED BY <2>1 DEF OncePerMessage
<1> QED BY <1>1, <1>2, <1>3, PTL DEF Spec

-----------------------------------------------------------------------------
(* What is delivered: a consumer that waits has its changes.               *)

\* The answer to a LIVE SELECT finds the #listen() that asked for it, once.
AnswersAwaited ==
  /\ \A n \in Listens : LiveSelect(n) \in calls => listen[n] = "asking"
  /\ \A i \in 1..Len(wire) :
       wire[i].type \in {"id", "refused"} => listen[wire[i].id] = "asking"

AnswersOnce ==
  \A i, j \in 1..Len(wire) :
    /\ wire[i].type \in {"id", "refused"} /\ wire[j].type \in {"id", "refused"}
    /\ wire[i].id = wire[j].id
    => i = j

\* Live query n has a stream, or will have one when the first m messages have
\* been received.
HeardBy(n, m) ==
  \/ listen[n] = "streaming"
  \/ \E j \in 1..m : wire[j].type = "id" /\ wire[j].id = n

\* No notification comes before the stream that it is for: the server answers
\* LIVE SELECT before it notifies, and the stream is opened with the answer.
NotificationsHeard == \A i \in 1..Len(wire) : Notifies(i) => HeardBy(wire[i].id, i - 1)
LiveIsHeard == \A n \in live : HeardBy(n, Len(wire))

\* Every change is with the consumer, on its way, or counted as missed.
OnItsWay == {wire[i].change : i \in {j \in 1..Len(wire) : Notifies(j)}}
Got(k) == {got[k][p] : p \in 1..Len(got[k])}
Accounted ==
  \A k \in Consumers : consumer[k] = "waiting" =>
    \A c \in Changes : since[k] < c /\ c <= changes => c \in Got(k) \cup missed \cup OnItsWay

DeliveryInv ==
  /\ Inv
  /\ AnswersAwaited
  /\ AnswersOnce
  /\ NotificationsHeard
  /\ LiveIsHeard
  /\ Accounted

-----------------------------------------------------------------------------
(* The initial state, and what the steps below have in common.             *)

LEMMA DeliveryInit == ASSUME Assumptions, Init PROVE DeliveryInv
<1>1. Inv
  BY InitInv
<1>2. 1 \in Listens /\ changes = 0 /\ wire = << >> /\ Len(wire) = 0
  BY DEF Init, Assumptions, Listens
<1>3. AnswersAwaited
  BY <1>2, TwoKinds DEF Init, AnswersAwaited
<1>4. AnswersOnce /\ NotificationsHeard
  BY <1>2 DEF AnswersOnce, NotificationsHeard
<1>5. LiveIsHeard
  BY <1>2 DEF Init, LiveIsHeard, HeardBy
<1>6. Accounted
  BY <1>2 DEF Init, Accounted
<1> QED BY <1>1, <1>3, <1>4, <1>5, <1>6 DEF DeliveryInv

LEMMA Shapes ==
  ASSUME Assumptions, Inv
  PROVE  /\ Len(wire) \in Nat /\ \A i \in 1..Len(wire) : wire[i] \in Message
         /\ changes \in Nat /\ Changes \subseteq Nat /\ since \in [Consumers -> Nat]
         /\ \A k \in Consumers : got[k] \in Seq(Changes) /\ Len(got[k]) \in Nat
BY DEF Assumptions, Inv, TypeOK, Changes

\* Steps that leave messages, streams and handlers as they are.
LEMMA QuietStep ==
  ASSUME DeliveryInv, Assumptions,
         UNCHANGED <<wire, listen, got, missed, changes>>, live' \subseteq live,
         \A n \in Listens : LiveSelect(n) \in calls' => LiveSelect(n) \in calls,
         \A k \in Consumers : consumer'[k] = "waiting" =>
           (consumer[k] = "waiting" /\ since'[k] = since[k]) \/ since'[k] = changes
  PROVE  AnswersAwaited' /\ AnswersOnce' /\ NotificationsHeard' /\ LiveIsHeard' /\ Accounted'
<1>1. AnswersAwaited' /\ AnswersOnce'
  BY DEF DeliveryInv, AnswersAwaited, AnswersOnce
<1>2. NotificationsHeard' /\ LiveIsHeard'
  BY DEF DeliveryInv, NotificationsHeard, LiveIsHeard, HeardBy, Notifies
<1>3. Accounted'
  <2>1. OnItsWay' = OnItsWay
    BY DEF OnItsWay, Notifies
  <2>2. \A k \in Consumers : Got(k)' = Got(k)
    BY DEF Got
  <2> QED BY <2>1, <2>2, Shapes DEF DeliveryInv, Accounted
<1> QED BY <1>1, <1>2, <1>3

\* A socket is lost, and what was on its way is counted as missed.
LEMMA LostStep ==
  ASSUME DeliveryInv, Assumptions, LoseSocket, UNCHANGED <<got, since>>,
         \A n \in Listens : LiveSelect(n) \in calls' => listen'[n] = "asking",
         \A k \in Consumers : consumer'[k] = "waiting" => consumer[k] = "waiting"
  PROVE  AnswersAwaited' /\ AnswersOnce' /\ NotificationsHeard' /\ LiveIsHeard' /\ Accounted'
<1>1. wire' = << >> /\ Len(wire') = 0 /\ live' = {} /\ changes' = changes
  BY DEF LoseSocket
<1>2. missed \subseteq missed' /\ OnItsWay \subseteq missed'
  <2>1. DOMAIN wire = 1..Len(wire)
    BY DEF DeliveryInv, Inv, TypeOK
  <2> QED BY <2>1 DEF LoseSocket, OnItsWay, Notifies, Range
<1>3. \A k \in Consumers : Got(k)' = Got(k)
  BY DEF Got
<1>4. Accounted'
  BY <1>1, <1>2, <1>3 DEF DeliveryInv, Accounted
<1>5. AnswersAwaited' /\ AnswersOnce' /\ NotificationsHeard' /\ LiveIsHeard'
  BY <1>1 DEF AnswersAwaited, AnswersOnce, NotificationsHeard, LiveIsHeard
<1> QED BY <1>4, <1>5

LEMMA LinkDelivery ==
  ASSUME Assumptions, DeliveryInv, Lose \/ Connected \/ GiveUp \/ Close
  PROVE  AnswersAwaited' /\ AnswersOnce' /\ NotificationsHeard' /\ LiveIsHeard' /\ Accounted'
<1>1. CASE Lose
  BY <1>1, LostStep DEF Lose, clientVars, consumerVars, DeliveryInv, AnswersAwaited
<1>2. ASSUME NEW asking \in {"asking", "failed"}, StreamsEnd(asking)
      PROVE  AnswersAwaited' /\ AnswersOnce' /\ NotificationsHeard' /\ LiveIsHeard' /\ Accounted'
  <2>1. LoseSocket /\ UNCHANGED <<got, since>> /\ calls' = {}
    BY <1>2 DEF StreamsEnd
  <2>2. \A k \in Consumers : consumer'[k] = "waiting" => consumer[k] = "waiting"
    BY <1>2 DEF StreamsEnd
  <2> QED BY <2>1, <2>2, LostStep
<1>3. CASE GiveUp \/ Close
  BY <1>2, <1>3 DEF GiveUp, Close
<1>4. CASE Connected
  <2>1. /\ wire = << >> /\ live = {} /\ Len(wire) = 0
        /\ UNCHANGED <<wire, live, got, since, missed, changes, consumer>>
    BY <1>4 DEF Connected, consumerVars, changeVars, DeliveryInv, Inv, NothingWithoutLink
  <2>2. AnswersAwaited'
    <3>1. \A n \in Listens : LiveSelect(n) \in calls' => listen'[n] = "asking"
      <4>1. connects' \in Listens
        BY <1>4 DEF Connected, DeliveryInv, Inv, TypeOK, Listens, Assumptions
      <4>2. \A n \in Listens : LiveSelect(n) \in calls => listen[n] = "asking"
        BY DEF DeliveryInv, AnswersAwaited
      <4>3. CASE ListensAgain
        <5>1. /\ listen' = [listen EXCEPT ![connects'] = "asking"]
              /\ calls' = calls \cup {LiveSelect(connects')}
          BY <1>4, <4>3 DEF Connected
        <5> QED BY <4>1, <4>2, <5>1, TwoKinds DEF DeliveryInv, Inv, TypeOK
      <4>4. CASE ~ListensAgain
        BY <1>4, <4>2, <4>4 DEF Connected
      <4> QED BY <4>3, <4>4
    <3> QED BY <2>1, <3>1 DEF AnswersAwaited
  <2>3. AnswersOnce' /\ NotificationsHeard' /\ LiveIsHeard'
    BY <2>1 DEF AnswersOnce, NotificationsHeard, LiveIsHeard
  <2>4. Accounted'
    <3>1. OnItsWay' = OnItsWay /\ \A k \in Consumers : Got(k)' = Got(k)
      BY <2>1 DEF OnItsWay, Notifies, Got
    <3> QED BY <2>1, <3>1 DEF DeliveryInv, Accounted
  <2> QED BY <2>2, <2>3, <2>4
<1> QED BY <1>1, <1>3, <1>4

-----------------------------------------------------------------------------
(* The server.                                                             *)

LEMMA AnswerStep ==
  ASSUME Assumptions, DeliveryInv,
         NEW type \in {"id", "refused", "killed", "unknown"}, NEW n \in Listens, Answer(type, n),
         type \in {"id", "refused"} => LiveSelect(n) \in sent,
         live' \subseteq IF type = "id" THEN live \cup {n} ELSE live,
         UNCHANGED <<clientVars, consumerVars, changeVars>>
  PROVE  AnswersAwaited' /\ AnswersOnce' /\ NotificationsHeard' /\ LiveIsHeard' /\ Accounted'
<1> DEFINE m == [type |-> type, id |-> n, change |-> None]
<1>1. m \in Message /\ m.type = type /\ m.id = n
  BY DEF Message
<1>2. /\ Len(wire) \in Nat /\ Len(wire') = Len(wire) + 1 /\ wire'[Len(wire) + 1] = m
      /\ \A i \in 1..Len(wire) : wire'[i] = wire[i]
  BY <1>1, AppendProperties DEF Answer, DeliveryInv, Inv, TypeOK
<1>3. UNCHANGED <<listen, calls, consumer, got, since, changes, missed>>
  BY DEF clientVars, consumerVars, changeVars
<1>4. type \in {"id", "refused"} =>
        /\ listen[n] = "asking"
        /\ \A i \in 1..Len(wire) : wire[i].type \in {"id", "refused"} => wire[i].id # n
  BY DEF DeliveryInv, Inv, TypeOK, AnswersAwaited, AnsweredIsNotSent
<1>5. \A i \in 1..Len(wire') : \/ i \in 1..Len(wire) /\ wire'[i] = wire[i]
                               \/ i = Len(wire) + 1 /\ wire'[i] = m
  BY <1>2
<1> HIDE DEF m
<1>6. AnswersAwaited'
  BY <1>1, <1>3, <1>4, <1>5 DEF DeliveryInv, AnswersAwaited
<1>7. AnswersOnce'
  BY <1>1, <1>4, <1>5 DEF DeliveryInv, AnswersOnce
<1>8. \A x \in Listens : \A p \in 0..Len(wire) : HeardBy(x, p) => HeardBy(x, p)'
  BY <1>2, <1>3 DEF HeardBy
<1>9. NotificationsHeard'
  <2> SUFFICES ASSUME NEW i \in 1..Len(wire'), Notifies(i)' PROVE HeardBy(wire[i].id, i - 1)' /\ wire'[i] = wire[i]
    BY DEF NotificationsHeard, HeardBy
  <2>1. i \in 1..Len(wire) /\ wire'[i] = wire[i] /\ Notifies(i)
    BY <1>1, <1>5 DEF Notifies
  <2>2. wire[i].id \in Listens /\ i - 1 \in 0..Len(wire)
    BY <1>2, <2>1, Shapes DEF DeliveryInv, Message
  <2> QED BY <1>8, <2>1, <2>2 DEF DeliveryInv, NotificationsHeard
<1>10. LiveIsHeard'
  <2> SUFFICES ASSUME NEW x \in live'
               PROVE  \/ listen'[x] = "streaming"
                      \/ \E j \in 1..Len(wire') : wire'[j].type = "id" /\ wire'[j].id = x
    BY DEF LiveIsHeard, HeardBy
  <2>1. CASE x \in live
    BY <1>2, <1>3, <2>1 DEF DeliveryInv, LiveIsHeard, HeardBy
  <2>2. CASE type = "id" /\ x = n
    <3>1. Len(wire) + 1 \in 1..Len(wire')
      BY <1>2
    <3> QED BY <1>1, <1>2, <2>2, <3>1
  <2> QED BY <2>1, <2>2
<1>11. Accounted'
  <2>1. OnItsWay \subseteq OnItsWay' /\ \A k \in Consumers : Got(k)' = Got(k)
    BY <1>2, <1>3, <1>5 DEF OnItsWay, Notifies, Got
  <2> QED BY <1>3, <2>1 DEF DeliveryInv, Accounted
<1> QED BY <1>6, <1>7, <1>9, <1>10, <1>11

\* SetToSeq() leaves no element out.
LEMMA SetToSeqIsOnto ==
  ASSUME NEW S, IsFiniteSet(S)
  PROVE  \A x \in S : \E i \in 1..Len(SetToSeq(S)) : SetToSeq(S)[i] = x
<1>1. Cardinality(S) \in Nat /\ ExistsBijection(1..Cardinality(S), S)
  BY FS_CardinalityType
<1>2. PICK f \in Bijection(1..Cardinality(S), S) : TRUE
  BY <1>1 DEF ExistsBijection
<1>3. f \in [1..Cardinality(S) -> S] /\ IsInjective(f)
  BY <1>2 DEF Bijection, Injection, IsInjective
<1>4. SetToSeq(S) \in [1..Cardinality(S) -> S] /\ IsInjective(SetToSeq(S))
  BY <1>3 DEF SetToSeq
<1> DEFINE g == SetToSeq(S)
<1>5. g \in Injection(1..Cardinality(S), S)
  BY <1>4 DEF Injection, IsInjective
<1>6. g \in Surjection(1..Cardinality(S), S)
  <2>1. Cardinality(1..Cardinality(S)) = Cardinality(S)
    BY <1>1, FS_Interval
  <2> HIDE DEF g
  <2> QED BY <1>5, <2>1, FS_Injection
<1>7. Len(g) = Cardinality(S)
  BY <1>1, <1>4, SetToSeqIsSeq, LenProperties
<1> QED BY <1>6, <1>7 DEF Surjection

LEMMA ChangeStep ==
  ASSUME Assumptions, DeliveryInv, Change
  PROVE  AnswersAwaited' /\ AnswersOnce' /\ NotificationsHeard' /\ LiveIsHeard' /\ Accounted'
<1> DEFINE told  == {[type |-> "notification", id |-> n, change |-> changes'] : n \in live}
           added == SetToSeq(told)
<1>1. /\ changes' = changes + 1 /\ wire' = wire \o added
      /\ UNCHANGED <<listen, calls, live, consumer, got, since>>
  BY DEF Change, clientVars, consumerVars
<1>2. changes' \in Changes /\ changes \in Nat
  BY DEF Change, Changes, DeliveryInv, Inv, TypeOK, Assumptions
<1>3. told \subseteq Message /\ \A m \in told : m.type = "notification" /\ m.id \in live /\ m.change = changes'
  BY <1>2 DEF Message, DeliveryInv, Inv, TypeOK
<1>4. IsFiniteSet(told)
  <2>1. IsFiniteSet(live)
    BY ListensFinite DEF DeliveryInv, Inv, TypeOK
  <2> DEFINE f == [n \in live |-> [type |-> "notification", id |-> n, change |-> changes']]
  <2>2. f \in Surjection(live, told)
    BY DEF Surjection
  <2> QED BY <2>1, <2>2, FS_Surjection
<1>5. added \in Seq(told)
  BY <1>4, SetToSeqIsSeq
<1>6. \A m \in told : \E i \in 1..Len(added) : added[i] = m
  BY <1>4, SetToSeqIsOnto
<1>7. live # {} => told # {}
  OBVIOUS
<1> HIDE DEF told, added
<1>8. /\ added \in Seq(Message) /\ Len(added) \in Nat
      /\ \A i \in 1..Len(added) : added[i] \in told
  BY <1>3, <1>5
<1>9. /\ Len(wire) \in Nat /\ Len(wire') = Len(wire) + Len(added)
      /\ \A i \in 1..Len(wire) : i \in 1..Len(wire') /\ wire'[i] = wire[i]
      /\ \A i \in 1..Len(added) : Len(wire) + i \in 1..Len(wire') /\ wire'[Len(wire) + i] = added[i]
      /\ \A i \in 1..Len(wire') : i \in 1..Len(wire) \/ i - Len(wire) \in 1..Len(added)
  <2>1. wire \in Seq(Message) /\ Len(wire) \in Nat
    BY DEF DeliveryInv, Inv, TypeOK
  <2>2. /\ Len(wire') = Len(wire) + Len(added)
        /\ \A i \in 1..(Len(wire) + Len(added)) :
             wire'[i] = IF i <= Len(wire) THEN wire[i] ELSE added[i - Len(wire)]
    BY <1>1, <1>8, <2>1, ConcatProperties
  <2> QED BY <1>8, <2>1, <2>2
<1>10. \A i \in 1..Len(wire') :
         \/ i \in 1..Len(wire) /\ wire'[i] = wire[i]
         \/ i > Len(wire) /\ wire'[i] \in told
  <2> SUFFICES ASSUME NEW i \in 1..Len(wire')
               PROVE  \/ i \in 1..Len(wire) /\ wire'[i] = wire[i]
                      \/ i > Len(wire) /\ wire'[i] \in told
    OBVIOUS
  <2>1. CASE i \in 1..Len(wire)
    BY <1>9, <2>1
  <2>2. CASE i - Len(wire) \in 1..Len(added)
    <3> DEFINE j == i - Len(wire)
    <3>2. wire'[Len(wire) + j] = added[j] /\ added[j] \in told
      BY <1>8, <1>9, <2>2
    <3>3. Len(wire) + j = i
      BY <1>9
    <3>1. wire'[i] \in told
      <4> HIDE DEF j
      <4> QED BY <3>2, <3>3
    <3> QED BY <1>9, <2>2, <3>1
  <2> QED BY <1>9, <2>1, <2>2
<1>11. AnswersAwaited' /\ AnswersOnce'
  BY <1>1, <1>3, <1>10 DEF DeliveryInv, AnswersAwaited, AnswersOnce
<1>12. NotificationsHeard'
  <2> SUFFICES ASSUME NEW i \in 1..Len(wire'), Notifies(i)'
               PROVE  \/ listen'[wire'[i].id] = "streaming"
                      \/ \E j \in 1..(i - 1) : wire'[j].type = "id" /\ wire'[j].id = wire'[i].id
    BY DEF NotificationsHeard, HeardBy
  <2>1. CASE i \in 1..Len(wire) /\ wire'[i] = wire[i]
    <3>1. HeardBy(wire[i].id, i - 1)
      BY <2>1 DEF DeliveryInv, NotificationsHeard, Notifies
    <3> QED BY <1>1, <1>9, <2>1, <3>1 DEF HeardBy
  <2>2. CASE i > Len(wire) /\ wire'[i] \in told
    <3>1. HeardBy(wire'[i].id, Len(wire))
      BY <1>3, <2>2 DEF DeliveryInv, LiveIsHeard
    <3>2. \A j \in 1..Len(wire) : j \in 1..(i - 1) /\ wire'[j] = wire[j]
      BY <1>9, <2>2
    <3> QED BY <1>1, <3>1, <3>2 DEF HeardBy
  <2> QED BY <1>10, <2>1, <2>2
<1>13. LiveIsHeard'
  <2> SUFFICES ASSUME NEW x \in live
               PROVE  \/ listen'[x] = "streaming"
                      \/ \E j \in 1..Len(wire') : wire'[j].type = "id" /\ wire'[j].id = x
    BY <1>1 DEF LiveIsHeard, HeardBy
  <2> QED BY <1>1, <1>9 DEF DeliveryInv, LiveIsHeard, HeardBy
<1>14. Accounted'
  <2>1. OnItsWay \subseteq OnItsWay' /\ missed \subseteq missed' /\ \A k \in Consumers : Got(k)' = Got(k)
    BY <1>1, <1>9 DEF OnItsWay, Notifies, Got, Change
  <2>2. changes' \in missed' \cup OnItsWay'
    <3>1. CASE live = {}
      BY <3>1 DEF Change
    <3>2. CASE live # {}
      <4>1. PICK m \in told : TRUE
        BY <1>7, <3>2
      <4>2. PICK i \in 1..Len(added) : added[i] = m
        BY <1>6
      <4>3. Len(wire) + i \in 1..Len(wire') /\ wire'[Len(wire) + i] = m
        BY <1>9, <4>2
      <4> QED BY <1>3, <4>3 DEF OnItsWay, Notifies
    <3> QED BY <3>1, <3>2
  <2>3. \A c \in Changes : c <= changes' => c <= changes \/ c = changes'
    BY <1>1, <1>2, Shapes DEF DeliveryInv
  <2> QED BY <1>1, <2>1, <2>2, <2>3 DEF DeliveryInv, Accounted
<1> QED BY <1>11, <1>12, <1>13, <1>14

LEMMA ServerDelivery ==
  ASSUME Assumptions, DeliveryInv, Server
  PROVE  AnswersAwaited' /\ AnswersOnce' /\ NotificationsHeard' /\ LiveIsHeard' /\ Accounted'
<1>1. ASSUME NEW n \in Listens, ExecuteLive(n)
      PROVE  AnswersAwaited' /\ AnswersOnce' /\ NotificationsHeard' /\ LiveIsHeard' /\ Accounted'
  <2>1. LiveSelect(n) \in sent /\ UNCHANGED <<clientVars, consumerVars, changeVars>>
    BY <1>1 DEF ExecuteLive
  <2>2. \/ Answer("id", n) /\ live' \subseteq live \cup {n}
        \/ Answer("refused", n) /\ live' \subseteq live
    BY <1>1 DEF ExecuteLive
  <2> QED BY <2>1, <2>2, AnswerStep
<1>2. ASSUME NEW n \in Listens, ExecuteKill(n)
      PROVE  AnswersAwaited' /\ AnswersOnce' /\ NotificationsHeard' /\ LiveIsHeard' /\ Accounted'
  <2>1. live' \subseteq live /\ UNCHANGED <<clientVars, consumerVars, changeVars>>
    BY <1>2 DEF ExecuteKill
  <2>2. Answer("killed", n) \/ Answer("unknown", n)
    BY <1>2 DEF ExecuteKill
  <2> QED BY <2>1, <2>2, AnswerStep
<1> QED BY <1>1, <1>2, ChangeStep DEF Server

-----------------------------------------------------------------------------
(* The messages.                                                           *)

LEMMA ReceiveKeeps ==
  ASSUME Assumptions, DeliveryInv, NEW types, Receive(types)
  PROVE  /\ Len(wire') = Len(wire) - 1
         /\ \A i \in 2..Len(wire) : i - 1 \in 1..Len(wire') /\ wire'[i - 1] = wire[i]
<1>1. /\ Len(wire) \in Nat /\ Len(wire') = Len(wire) - 1
      /\ \A i \in 1..Len(wire') : wire'[i] = wire[i + 1]
  <2>1. wire \in Seq(Message) /\ wire # << >> /\ wire' = Tail(wire)
    BY DEF Receive, DeliveryInv, Inv, TypeOK
  <2> QED BY <2>1, HeadTailProperties
<1> SUFFICES ASSUME NEW i \in 2..Len(wire) PROVE i - 1 \in 1..Len(wire') /\ wire'[i - 1] = wire[i]
  BY <1>1
<1> DEFINE h == i - 1
<1>2. h \in 1..Len(wire') /\ h + 1 = i
  BY <1>1
<1> HIDE DEF h
<1>3. wire'[h] = wire[i]
  BY <1>1, <1>2
<1> QED BY <1>2, <1>3 DEF h

\* What every received message does to the wire, whatever it does to streams.
LEMMA ReceiveStep ==
  ASSUME Assumptions, DeliveryInv, NEW types, Receive(types),
         \A n \in Listens : n # Head(wire).id => listen'[n] = listen[n],
         Head(wire).type = "id" => listen'[Head(wire).id] = "streaming",
         Head(wire).type # "refused" /\ listen[Head(wire).id] = "streaming" =>
           listen'[Head(wire).id] = "streaming",
         Head(wire).type \notin {"id", "refused"} => listen' = listen,
         \A n \in Listens : LiveSelect(n) \in calls' => LiveSelect(n) \in calls,
         Head(wire).type \in {"id", "refused"} => LiveSelect(Head(wire).id) \notin calls'
  PROVE  AnswersAwaited' /\ AnswersOnce' /\ NotificationsHeard' /\ LiveIsHeard'
<1> DEFINE m == wire[1]
<1>1. /\ m \in Message /\ Head(wire) = m /\ 1 \in 1..Len(wire) /\ wire # << >> /\ wire' = Tail(wire)
      /\ Len(wire) \in Nat /\ live' = live
  BY ReceiveWire, Shapes DEF DeliveryInv, Receive
<1>2. /\ Len(wire') = Len(wire) - 1
      /\ \A i \in 1..Len(wire') : i + 1 \in 1..Len(wire) /\ wire'[i] = wire[i + 1]
  BY <1>1, HeadTailProperties, ReceiveWire DEF DeliveryInv, Inv, TypeOK
<1>3. \A i \in 2..Len(wire) : i - 1 \in 1..Len(wire') /\ wire'[i - 1] = wire[i]
  BY ReceiveKeeps
<1> HIDE DEF m
<1>4. AnswersAwaited'
  <2>1. \A n \in Listens : LiveSelect(n) \in calls' => listen'[n] = "asking"
    <3>1. \A n \in Listens : LiveSelect(n) \in calls' => listen[n] = "asking"
      BY DEF DeliveryInv, AnswersAwaited
    <3>2. m.type \in {"id", "refused"} \/ listen' = listen
      BY <1>1
    <3> QED BY <1>1, <3>1, <3>2
  <2>2. ASSUME NEW i \in 1..Len(wire'), wire'[i].type \in {"id", "refused"}
        PROVE  listen'[wire'[i].id] = "asking"
    <3>1. /\ i + 1 \in 1..Len(wire) /\ wire'[i] = wire[i + 1] /\ i + 1 # 1
          /\ wire[i + 1].id \in Listens
      BY <1>2, Shapes DEF DeliveryInv, Message
    <3>2. listen[wire[i + 1].id] = "asking"
      BY <2>2, <3>1 DEF DeliveryInv, AnswersAwaited
    <3>3. m.type \in {"id", "refused"} => wire[i + 1].id # m.id
      BY <1>1, <2>2, <3>1 DEF DeliveryInv, AnswersOnce, m
    <3> QED BY <1>1, <3>1, <3>2, <3>3
  <2> QED BY <2>1, <2>2 DEF AnswersAwaited
<1>5. AnswersOnce'
  <2> SUFFICES ASSUME NEW i \in 1..Len(wire'), NEW j \in 1..Len(wire'),
                      wire'[i].type \in {"id", "refused"}, wire'[j].type \in {"id", "refused"},
                      wire'[i].id = wire'[j].id
               PROVE  i = j
    BY DEF AnswersOnce
  <2>1. i + 1 = j + 1
    BY <1>2 DEF DeliveryInv, AnswersOnce
  <2> QED BY <2>1
<1>6. ASSUME NEW n \in Listens, NEW p \in 0..Len(wire), p > 0, HeardBy(n, p),
             m.type # "refused" \/ n # m.id \/ listen[n] # "streaming"
      PROVE  HeardBy(n, p - 1)'
  <2>1. CASE listen[n] = "streaming"
    <3>1. listen'[n] = "streaming"
      BY <1>1, <1>6, <2>1
    <3> QED BY <3>1 DEF HeardBy
  <2>2. ASSUME NEW j \in 1..p, wire[j].type = "id", wire[j].id = n PROVE HeardBy(n, p - 1)'
    <3>1. CASE j = 1
      BY <1>1, <2>2, <3>1 DEF HeardBy, m
    <3>2. CASE j # 1
      <4>1. j \in 2..Len(wire) /\ j - 1 \in 1..(p - 1)
        BY <1>1, <1>6, <2>2, <3>2
      <4>2. wire'[j - 1] = wire[j]
        BY <1>3, <4>1
      <4> QED BY <2>2, <4>1, <4>2 DEF HeardBy
    <3> QED BY <3>1, <3>2
  <2> QED BY <1>6, <2>1, <2>2 DEF HeardBy
<1>7. m.type = "refused" => listen[m.id] # "streaming"
  BY <1>1 DEF DeliveryInv, AnswersAwaited, m
<1>8. NotificationsHeard'
  <2> SUFFICES ASSUME NEW i \in 1..Len(wire'), wire'[i].type = "notification"
               PROVE  \/ listen'[wire'[i].id] = "streaming"
                      \/ \E j \in 1..(i - 1) : wire'[j].type = "id" /\ wire'[j].id = wire'[i].id
    BY DEF NotificationsHeard, HeardBy, Notifies
  <2>1. i + 1 \in 1..Len(wire) /\ wire'[i] = wire[i + 1] /\ wire[i + 1].id \in Listens /\ (i + 1) - 1 = i
    BY <1>2, Shapes DEF DeliveryInv, Message
  <2>2. PICK x \in Listens : x = wire'[i].id
    BY <2>1
  <2>3. HeardBy(x, i) /\ i \in 0..Len(wire) /\ i > 0
    BY <2>1, <2>2 DEF DeliveryInv, NotificationsHeard, Notifies
  <2>4. HeardBy(x, i - 1)'
    BY <1>1, <1>6, <1>7, <2>3
  <2> QED BY <2>2, <2>4 DEF HeardBy
<1>9. LiveIsHeard'
  <2> SUFFICES ASSUME NEW x \in live
               PROVE  \/ listen'[x] = "streaming"
                      \/ \E j \in 1..Len(wire') : wire'[j].type = "id" /\ wire'[j].id = x
    BY <1>1 DEF LiveIsHeard, HeardBy
  <2>1. PICK m1 \in 0..Len(wire) : m1 = Len(wire) /\ m1 > 0
    BY <1>1
  <2>2. x \in Listens /\ HeardBy(x, m1)
    BY <2>1 DEF DeliveryInv, Inv, TypeOK, LiveIsHeard
  <2>3. HeardBy(x, m1 - 1)'
    BY <1>1, <1>6, <1>7, <2>1, <2>2
  <2> QED BY <1>2, <2>1, <2>3 DEF HeardBy
<1> QED BY <1>4, <1>5, <1>8, <1>9

\* A received message takes no change from a consumer that goes on waiting.
LEMMA ArriveDelivery ==
  ASSUME Assumptions, DeliveryInv, Arrive
  PROVE  AnswersAwaited' /\ AnswersOnce' /\ NotificationsHeard' /\ LiveIsHeard' /\ Accounted'
<1>1. ASSUME NEW types, Receive(types), "notification" \notin types, UNCHANGED <<consumer, got>>
      PROVE  Accounted'
  <2>1. /\ \A i \in 2..Len(wire) : i - 1 \in 1..Len(wire') /\ wire'[i - 1] = wire[i]
        /\ ~Notifies(1) /\ Len(wire) \in Nat
        /\ UNCHANGED <<since, missed, changes>>
    BY <1>1, ReceiveKeeps, ReceiveWire DEF DeliveryInv, Receive, changeVars, Notifies
  <2>2. OnItsWay \subseteq OnItsWay'
    <3> SUFFICES ASSUME NEW i \in 1..Len(wire), Notifies(i) PROVE wire[i].change \in OnItsWay'
      BY DEF OnItsWay
    <3>1. i \in 2..Len(wire)
      BY <2>1
    <3> DEFINE h == i - 1
    <3>2. h \in 1..Len(wire') /\ wire'[h] = wire[i]
      BY <2>1, <3>1
    <3> HIDE DEF h
    <3> QED BY <3>2 DEF OnItsWay, Notifies
  <2>3. \A k \in Consumers : Got(k)' = Got(k)
    BY <1>1 DEF Got
  <2> QED BY <1>1, <2>1, <2>2, <2>3 DEF DeliveryInv, Accounted
<1>2. CASE ReceiveId
  <2>1. Receive({"id"}) /\ UNCHANGED <<consumer, got>> /\ Head(wire).type = "id"
    BY <1>2 DEF ReceiveId, Receive
  <2>2. Head(wire).id \in Listens
    BY <2>1, ReceiveWire DEF DeliveryInv, Message
  <2>3. /\ listen' = [listen EXCEPT ![Head(wire).id] = "streaming"]
        /\ calls' = calls \ {LiveSelect(Head(wire).id)}
    BY <1>2 DEF ReceiveId, OpenStream
  <2>4. listen \in [Listens -> {"none", "asking", "streaming", "failed", "ended"}]
    BY DEF DeliveryInv, Inv, TypeOK
  <2>5. AnswersAwaited' /\ AnswersOnce' /\ NotificationsHeard' /\ LiveIsHeard'
    BY <2>1, <2>2, <2>3, <2>4, ReceiveStep
  <2> QED BY <1>1, <2>1, <2>5
<1>3. CASE ReceiveRefusal
  <2>1. Receive({"refused"}) /\ UNCHANGED <<consumer, got>> /\ Head(wire).type = "refused"
    BY <1>3 DEF ReceiveRefusal, Receive
  <2>2. Head(wire).id \in Listens
    BY <2>1, ReceiveWire DEF DeliveryInv, Message
  <2>3. /\ listen' = [listen EXCEPT ![Head(wire).id] = "failed"]
        /\ calls' = calls \ {LiveSelect(Head(wire).id)}
    BY <1>3 DEF ReceiveRefusal
  <2>4. listen \in [Listens -> {"none", "asking", "streaming", "failed", "ended"}]
    BY DEF DeliveryInv, Inv, TypeOK
  <2>5. AnswersAwaited' /\ AnswersOnce' /\ NotificationsHeard' /\ LiveIsHeard'
    BY <2>1, <2>2, <2>3, <2>4, ReceiveStep
  <2> QED BY <1>1, <2>1, <2>5
<1>4. CASE ReceiveKilled
  <2>1. /\ Receive({"killed", "unknown"}) /\ UNCHANGED <<consumer, got, listen>>
        /\ Head(wire).type \in {"killed", "unknown"} /\ calls' \subseteq calls
    BY <1>4 DEF ReceiveKilled, Receive
  <2>2. AnswersAwaited' /\ AnswersOnce' /\ NotificationsHeard' /\ LiveIsHeard'
    BY <2>1, ReceiveStep
  <2> QED BY <1>1, <2>1, <2>2
<1>5. CASE ReceiveNotification
  <2> DEFINE change  == Head(wire).change
             streams == StreamsOf(Head(wire).id)
             copies  == [s \in 1..Cardinality(streams) |-> change]
  <2>1. /\ Receive({"notification"}) /\ UNCHANGED <<listen, calls>>
        /\ Head(wire).type = "notification"
    BY <1>5 DEF ReceiveNotification, Receive
  <2>2. AnswersAwaited' /\ AnswersOnce' /\ NotificationsHeard' /\ LiveIsHeard'
    BY <2>1, ReceiveStep
  <2>3. /\ change \in Changes /\ Notifies(1) /\ 1 \in 1..Len(wire) /\ change = wire[1].change
        /\ Head(wire) = wire[1] /\ Head(wire).id \in Listens
    BY <2>1, ReceiveWire DEF Message, Notifies, DeliveryInv
  <2>4. HeardBy(Head(wire).id, 0)
    BY <2>3 DEF DeliveryInv, NotificationsHeard
  <2>5. streams = {Head(wire).id}
    BY <2>3, <2>4 DEF HeardBy, StreamsOf
  <2>6. Cardinality(streams) = 1
    BY <2>5, FS_Singleton
  <2>7. copies = <<change>>
    BY <2>6
  <2>8. PICK throwing \in SUBSET Audience :
          /\ got' = [k \in Consumers |-> IF k \in Audience THEN got[k] \o copies ELSE got[k]]
          /\ consumer' = [k \in Consumers |->
               IF k \in throwing \/ consumer[k] = "unsubscribed" THEN "done" ELSE consumer[k]]
    BY <1>5, <2>5 DEF ReceiveNotification
  <2> HIDE DEF copies, streams, change
  <2>9. ASSUME NEW k \in Consumers, consumer'[k] = "waiting"
        PROVE  consumer[k] = "waiting" /\ Got(k) \subseteq Got(k)' /\ change \in Got(k)'
    <3>1. consumer[k] = "waiting" /\ k \in Audience
      BY <2>8, <2>9 DEF Audience
    <3>2. got'[k] = got[k] \o <<change>> /\ got[k] \in Seq(Changes)
      BY <2>7, <2>8, <3>1, Shapes DEF DeliveryInv
    <3>3. got'[k] = Append(got[k], change)
      BY <2>3, <3>2, AppendIsConcat
    <3>4. /\ Len(got[k]) \in Nat /\ Len(got'[k]) = Len(got[k]) + 1
          /\ got'[k][Len(got[k]) + 1] = change
          /\ \A p \in 1..Len(got[k]) : got'[k][p] = got[k][p]
      BY <2>3, <3>2, <3>3, AppendProperties
    <3>5. Len(got[k]) + 1 \in 1..Len(got'[k]) /\ \A p \in 1..Len(got[k]) : p \in 1..Len(got'[k])
      BY <3>4
    <3> QED BY <3>1, <3>4, <3>5 DEF Got
  <2>10. OnItsWay \subseteq OnItsWay' \cup {change}
    <3> SUFFICES ASSUME NEW i \in 1..Len(wire), Notifies(i)
                 PROVE  wire[i].change \in OnItsWay' \cup {change}
      BY DEF OnItsWay
    <3>1. CASE i = 1
      BY <2>3, <3>1
    <3>2. CASE i # 1
      <4>1. i \in 2..Len(wire)
        BY <3>2, Shapes DEF DeliveryInv
      <4> DEFINE h == i - 1
      <4>2. h \in 1..Len(wire') /\ wire'[h] = wire[i]
        BY <2>1, <4>1, ReceiveKeeps
      <4> HIDE DEF h
      <4> QED BY <4>2 DEF OnItsWay, Notifies
    <3> QED BY <3>1, <3>2
  <2>11. UNCHANGED <<since, missed, changes>>
    BY <2>1 DEF Receive, changeVars
  <2>12. Accounted'
    BY <2>9, <2>10, <2>11 DEF DeliveryInv, Accounted
  <2> QED BY <2>2, <2>12
<1> QED BY <1>2, <1>3, <1>4, <1>5 DEF Arrive

-----------------------------------------------------------------------------
(* The application, and the theorem.                                       *)

LEMMA UserDelivery ==
  ASSUME Assumptions, DeliveryInv, \/ Kill \/ UNCHANGED vars
                                   \/ \E k \in Consumers : Subscribe(k) \/ Unsubscribe(k)
  PROVE  AnswersAwaited' /\ AnswersOnce' /\ NotificationsHeard' /\ LiveIsHeard' /\ Accounted'
<1>1. CASE Kill
  <2>1. \A n \in Listens : LiveSelect(n) \in calls' => LiveSelect(n) \in calls
    BY <1>1, TwoKinds DEF Kill
  <2>2. \A k \in Consumers : consumer'[k] # "waiting"
    BY <1>1 DEF Kill, CancelChannels
  <2> QED BY <1>1, <2>1, <2>2, QuietStep DEF Kill, changeVars
<1>2. ASSUME NEW k \in Consumers, Subscribe(k) PROVE
        AnswersAwaited' /\ AnswersOnce' /\ NotificationsHeard' /\ LiveIsHeard' /\ Accounted'
  <2>1. \A j \in Consumers : consumer'[j] = "waiting" =>
          (consumer[j] = "waiting" /\ since'[j] = since[j]) \/ since'[j] = changes
    BY <1>2 DEF Subscribe, DeliveryInv, Inv, TypeOK
  <2> QED BY <1>2, <2>1, QuietStep DEF Subscribe, clientVars, serverVars, changeVars
<1>3. ASSUME NEW k \in Consumers, Unsubscribe(k) PROVE
        AnswersAwaited' /\ AnswersOnce' /\ NotificationsHeard' /\ LiveIsHeard' /\ Accounted'
  <2>1. \A j \in Consumers : consumer'[j] = "waiting" =>
          (consumer[j] = "waiting" /\ since'[j] = since[j]) \/ since'[j] = changes
    BY <1>3 DEF Unsubscribe, DeliveryInv, Inv, TypeOK
  <2> QED BY <1>3, <2>1, QuietStep DEF Unsubscribe, clientVars, serverVars, changeVars
<1>4. CASE UNCHANGED vars
  BY <1>4, QuietStep DEF vars
<1> QED BY <1>1, <1>2, <1>3, <1>4

LEMMA DeliveryStep == ASSUME Assumptions, DeliveryInv, [Next]_vars PROVE DeliveryInv'
<1>1. Inv'
  BY StepInv DEF DeliveryInv
<1>2. AnswersAwaited' /\ AnswersOnce' /\ NotificationsHeard' /\ LiveIsHeard' /\ Accounted'
  BY LinkDelivery, ServerDelivery, ArriveDelivery, UserDelivery DEF Next, User
<1> QED BY <1>1, <1>2 DEF DeliveryInv

LEMMA DeliveryImplies == ASSUME Assumptions, DeliveryInv PROVE UpToDate
<1> SUFFICES ASSUME wire = << >>, NEW k \in Consumers, consumer[k] = "waiting",
                    NEW c \in (since[k] + 1)..changes
             PROVE  c \in Range(got[k]) \cup missed
  BY DEF UpToDate
<1>1. OnItsWay = {}
  BY DEF OnItsWay
<1>2. c \in Changes /\ since[k] < c /\ c <= changes
  BY Shapes DEF DeliveryInv, Inv, TypeOK, Changes, Assumptions
<1>3. Got(k) \subseteq Range(got[k])
  BY Shapes DEF DeliveryInv, Got, Range
<1> QED BY <1>1, <1>2, <1>3 DEF DeliveryInv, Accounted

(* A consumer that waits when nothing is on its way has got every change   *)
(* made since it subscribed, but for those no live query was there to      *)
(* report and those a lost connection took with it (live.ts:165).          *)
THEOREM NothingFallsBetween == ASSUME Assumptions PROVE Spec => []UpToDate
<1>1. Init => DeliveryInv
  BY DeliveryInit
<1>2. DeliveryInv /\ [Next]_vars => DeliveryInv'
  BY DeliveryStep
<1>3. DeliveryInv => UpToDate
  BY DeliveryImplies
<1> QED BY <1>1, <1>2, <1>3, PTL DEF Spec
=============================================================================
