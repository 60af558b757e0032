-------------------------- MODULE MCWebSocketEngine --------------------------
(* Instances of WebSocketEngine for TLC. *)
EXTENDS WebSocketEngineProofs, TLC

Symmetry == Permutations(Calls)

\* Reconnecting off, no attempt allowed, one attempt, attempts without limit.
AllOptions ==
  {[enabled |-> FALSE, attempts |-> 1], [enabled |-> TRUE, attempts |-> 0],
   [enabled |-> TRUE, attempts |-> 1], [enabled |-> TRUE, attempts |-> -1]}

\* One attempt, and attempts without limit.
RetryOptions ==
  {[enabled |-> TRUE, attempts |-> 1], [enabled |-> TRUE, attempts |-> -1]}
=============================================================================
