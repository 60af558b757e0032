----------------------------- MODULE RpcChannel -----------------------------
(***************************************************************************)
(* What an engine promises the code that sends RPC calls through it, with  *)
(* no socket, no reconnect loop and no request table in sight:             *)
(*                                                                         *)
(*  - a call refused as unavailable is never executed;                     *)
(*  - a call is answered only with a result the server really computed     *)
(*    for it, and it is answered at most once;                             *)
(*  - the server may execute an accepted call more than once (calls are    *)
(*    sent again after a reconnect): delivery is at least once;            *)
(*  - calls are terminated only together with the connection, and a        *)
(*    connection that was declared disconnected never comes back.          *)
(*                                                                         *)
(* WebSocketEngine implements this specification.                          *)
(***************************************************************************)
EXTENDS Naturals

CONSTANT Calls            \* the RPC calls of the application

VARIABLES
  outcome,                \* what the caller of send() has been told
  executed,               \* how often the server executed the call
  results,                \* the results (TRUE: ok, FALSE: error) it computed
  gone                    \* "disconnected" has been published

vars == <<outcome, executed, results, gone>>

Refusals == {"unavailable", "thrown"}
Answers  == {"resolved", "failed"}
Outcomes == {"unissued", "pending", "terminated"} \cup Refusals \cup Answers

Init ==
  /\ outcome = [c \in Calls |-> "unissued"]
  /\ executed = [c \in Calls |-> 0]
  /\ results = [c \in Calls |-> {}]
  /\ gone = FALSE

\* The application makes a call; it is accepted or refused on the spot.
Issue(c) ==
  /\ outcome[c] = "unissued"
  /\ ~gone
  /\ \E o \in {"pending"} \cup Refusals : outcome' = [outcome EXCEPT ![c] = o]
  /\ UNCHANGED <<executed, results, gone>>

\* A call that threw on its way into the socket may still have been recorded.
Execute(c, ok) ==
  /\ outcome[c] \notin {"unissued", "unavailable"}
  /\ executed' = [executed EXCEPT ![c] = @ + 1]
  /\ results' = [results EXCEPT ![c] = @ \cup {ok}]
  /\ UNCHANGED <<outcome, gone>>

Answer(c, ok) ==
  /\ outcome[c] = "pending"
  /\ ok \in results[c]
  /\ outcome' = [outcome EXCEPT ![c] = IF ok THEN "resolved" ELSE "failed"]
  /\ UNCHANGED <<executed, results, gone>>

\* The connection is gone for good; the calls still pending are told so, or,
\* when the application itself closed the connection, told nothing.
Disconnect ==
  /\ ~gone
  /\ gone' = TRUE
  /\ \/ UNCHANGED outcome
     \/ outcome' = [c \in Calls |->
                      IF outcome[c] = "pending" THEN "terminated" ELSE outcome[c]]
  /\ UNCHANGED <<executed, results>>

Next ==
  \/ \E c \in Calls : Issue(c)
  \/ \E c \in Calls, ok \in BOOLEAN : Execute(c, ok) \/ Answer(c, ok)
  \/ Disconnect

Spec == Init /\ [][Next]_vars
=============================================================================
