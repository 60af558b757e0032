------------------------------ MODULE MCSessions ------------------------------
(***************************************************************************)
(* Instances of Sessions for TLC.  The calls are numbered in the order in  *)
(* which they are made: which is which does not matter.                    *)
(***************************************************************************)
EXTENDS Sessions, Sequences

CONSTANTS o1, o2, o3, o4, v2
FourCalls == <<o1, o2, o3, o4>>

Numbered == \A i \in 2..4 : op'[FourCalls[i]] # "new" => op'[FourCalls[i - 1]] # "new"

\* Bound: without care, two calls, one value and two sockets.
Small ==
  careful \/ /\ op[o3] = "new" /\ \A c \in calls : c.value # v2
             /\ socket + (IF link = "reconnecting" THEN 1 ELSE 0) <= 2

MixedSpec ==
  /\ Init
  /\ [][Next /\ Numbered /\ Small']_vars
  /\ Fairness
=============================================================================
