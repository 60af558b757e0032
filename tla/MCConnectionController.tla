----------------------- MODULE MCConnectionController -----------------------
(***************************************************************************)
(* Instances of ConnectionController for TLC. One run has both kinds of    *)
(* application: a careful one, and one that calls at any time (with three  *)
(* connect() calls and one socket per engine, or two of each).             *)
(***************************************************************************)
EXTENDS ConnectionController

InBounds ==
  careful \/ made <= 2 \/ \A e \in Engines : sockets[e] <= 1 /\ loop[e] # "cooldown"

MixedSpec ==
  Init /\ [][Next /\ UNCHANGED careful /\ InBounds']_<<vars, careful>> /\ Fairness
=============================================================================
