------------------------------- MODULE Publisher -------------------------------
(***************************************************************************)
(* Publisher: listeners of events, which are called synchronously, and may *)
(* subscribe, unsubscribe, publish and throw while they are called.        *)
(*                                                                         *)
(* The listeners of an event are a JavaScript Set.  A loop over it visits  *)
(* what is added to it, does not visit what is removed, and goes on over   *)
(* the same Set when the publisher has put another in its place.           *)
(***************************************************************************)
EXTENDS Naturals, Sequences, FiniteSets, SequencesExt

CONSTANTS
  Events,
  Listeners,      \* functions given to subscribe()
  Firsts,         \* calls of subscribeFirst(), each with a listener per event
  MaxSteps,       \* bound: calls of subscribe(), subscribeFirst() and publish()
  MaxDepth        \* bound: publish() inside listeners

VARIABLES
  entries,        \* the Sets: [event, set, order, who]
  current,        \* per event: the Set in #subscriptions
  loops,          \* publish() calls that are running, the innermost last
  resolved,       \* per call of subscribeFirst(): how often it was called
  steps,          \* calls so far; they number the entries
  calls           \* history: <<publish(), entry>> of every call of a listener

vars == <<entries, current, loops, resolved, steps, calls>>

Init ==
  /\ entries = {} /\ current = [e \in Events |-> 1]
  /\ loops = << >> /\ steps = 0 /\ calls = << >>
  /\ resolved = [f \in Firsts |-> 0]

TypeOK ==
  /\ \A e \in entries : e.event \in Events /\ e.order \in 1..steps /\ e.who \in Listeners \cup Firsts
  /\ current \in [Events -> Nat \ {0}] /\ Len(loops) <= MaxDepth /\ steps \in 0..MaxSteps
  /\ resolved \in [Firsts -> Nat]

\* What the code that runs is: a listener, or the application outside of them.
Idle(loop) == loop.calling = 0
Runs == IF loops = << >> THEN TRUE ELSE ~Idle(Last(loops))

Entry(event, who) == {e \in entries : e.event = event /\ e.who = who /\ e.set = current[event]}

-----------------------------------------------------------------------------
(* Faulty variants of the definitions below.                               *)

\* The functions subscribeFirst() got are not called.
WithoutOthers(e, rest) == rest \ {e}

\* The loop is left when a listener throws.
LeavesAtFirst(loop) == [loop EXCEPT !.calling = 0, !.last = MaxSteps]

-----------------------------------------------------------------------------

\* delete(), and a new Set for the event when this one is empty.
RemoveAll(gone) ==
  /\ entries' = entries \ gone
  /\ current' = [e \in Events |->
       IF (\E g \in gone : g.event = e) /\ ~\E k \in entries \ gone : k.event = e
         THEN current[e] + 1 ELSE current[e]]

Subscribe(event, l) ==
  /\ Runs /\ steps < MaxSteps
  /\ steps' = steps + 1
  /\ entries' = IF Entry(event, l) # {} THEN entries
                ELSE entries \cup {[event |-> event, set |-> current[event], order |-> steps', who |-> l]}
  /\ UNCHANGED <<current, loops, resolved, calls>>

\* The function that subscribe() returned.
Unsubscribe(event, l) ==
  /\ Runs /\ Entry(event, l) # {}
  /\ RemoveAll(Entry(event, l))
  /\ UNCHANGED <<loops, resolved, steps, calls>>

\* subscribeFirst(): one listener for each event.
SubscribeFirst(f) ==
  /\ Runs /\ steps < MaxSteps
  /\ resolved[f] = 0 /\ ~\E e \in entries : e.who = f
  /\ steps' = steps + 1
  /\ entries' = entries \cup {[event |-> e, set |-> current[e], order |-> steps', who |-> f] : e \in Events}
  /\ UNCHANGED <<current, loops, resolved, calls>>

Publish(event) ==
  /\ Runs /\ steps < MaxSteps /\ Len(loops) < MaxDepth
  /\ \E e \in entries : e.event = event
  /\ steps' = steps + 1
  /\ loops' = Append(loops, [id |-> steps', event |-> event, set |-> current[event],
                             last |-> 0, calling |-> 0, there |-> entries])
  /\ UNCHANGED <<entries, current, resolved, calls>>

\* What the loop has not visited.
Ahead(loop) == {e \in entries : e.event = loop.event /\ e.set = loop.set /\ e.order > loop.last}

Innermost(loop) == loops' = [loops EXCEPT ![Len(loops)] = loop]

\* Unsubscribe the other listeners of this subscribeFirst().
WithOthers(e, rest) == {o \in rest : o.who # e.who}

\* The loop calls the next listener; a listener of subscribeFirst() is done at
\* once.
CallNext ==
  /\ loops # << >> /\ Idle(Last(loops))
  /\ LET loop == Last(loops) IN
     \E e \in Ahead(loop) :
       /\ \A o \in Ahead(loop) : e.order <= o.order
       /\ calls' = Append(calls, <<loop.id, e>>)
       /\ IF e.who \in Firsts
            THEN /\ RemoveAll(entries \ WithOthers(e, entries))
                 /\ resolved' = [resolved EXCEPT ![e.who] = @ + 1]
                 /\ Innermost([loop EXCEPT !.last = e.order])
            ELSE /\ Innermost([loop EXCEPT !.last = e.order, !.calling = e.order])
                 /\ UNCHANGED <<entries, current, resolved>>
  /\ UNCHANGED steps

Returns ==
  /\ Runs /\ loops # << >>
  /\ Innermost([Last(loops) EXCEPT !.calling = 0])
  /\ UNCHANGED <<entries, current, resolved, steps, calls>>

\* The failure is kept for PublishError, and the loop goes on to the next listener.
GoesOn(loop) == [loop EXCEPT !.calling = 0]

Throws ==
  /\ Runs /\ loops # << >>
  /\ Innermost(GoesOn(Last(loops)))
  /\ UNCHANGED <<entries, current, resolved, steps, calls>>

\* publish() returns, or throws PublishError into the listener that called it,
\* which may handle it.
Done ==
  /\ loops # << >> /\ Idle(Last(loops)) /\ Ahead(Last(loops)) = {}
  /\ loops' = Front(loops)
  /\ UNCHANGED <<entries, current, resolved, steps, calls>>

Next ==
  \/ \E event \in Events, l \in Listeners : Subscribe(event, l) \/ Unsubscribe(event, l)
  \/ \E f \in Firsts : SubscribeFirst(f)
  \/ \E event \in Events : Publish(event)
  \/ CallNext \/ Returns \/ Throws \/ Done

Spec == Init /\ [][Next]_vars

-----------------------------------------------------------------------------
(* Properties.                                                             *)

\* The calls of one publish().
CallsOf(id) == {i \in DOMAIN calls : calls[i][1] = id}

(* When publish() is about to return it has called each listener that was  *)
(* subscribed all along exactly once, whatever the others did meanwhile.   *)
EveryListenerOnce ==
  IF loops = << >> THEN TRUE
  ELSE LET loop == Last(loops) IN Idle(loop) /\ Ahead(loop) = {} =>
      \A e \in loop.there \cap entries : e.event = loop.event =>
        Cardinality({i \in CallsOf(loop.id) : calls[i][2] = e}) = 1

(* subscribeFirst() resolves once, and leaves no listener behind.          *)
FirstIsOnce ==
  \A f \in Firsts : resolved[f] <= 1 /\ (resolved[f] = 1 => ~\E e \in entries : e.who = f)
=============================================================================
