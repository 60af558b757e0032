-------------------------- MODULE MCLiveSubscription --------------------------
(***************************************************************************)
(* Instances of LiveSubscription for TLC.                                  *)
(***************************************************************************)
EXTENDS LiveSubscription

\* Bound: the third connection, or the second change.
Small == connects <= 2 \/ changes <= 1

SmallSpec == Init /\ [][Next /\ Small']_vars /\ Fairness
=============================================================================
