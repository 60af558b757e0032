------------------------------ MODULE Diagnostics ------------------------------
(***************************************************************************)
(* DiagnosticsEngine, a decorator of an engine: it tells a callback of the *)
(* application about every call, before, while and after the delegate      *)
(* handles it.  The callback may throw.                                    *)
(*                                                                         *)
(* A call is "plain" (#diagnose() and its return), "attach" (#diagnose()   *)
(* that nobody awaits) or "stream" (query() and liveQuery(), which yield   *)
(* what the delegate yields).  A stream that nobody reads, or whose reader *)
(* leaves early, is not read to its end.                                   *)
(***************************************************************************)
EXTENDS Naturals, Sequences, SequencesExt

CONSTANTS
  Calls,
  Items           \* what the delegate yields: a sequence

VARIABLES
  kind,           \* per call
  at,             \* per call: where it is
  told,           \* per call: the phases the callback was told
  delegate,       \* per call: what the delegate made of it
  result,         \* per call: what the caller gets, at last
  yielded,        \* per call: what a stream has yielded
  threw           \* history: calls whose callback threw

vars == <<kind, at, told, delegate, result, yielded, threw>>

Init ==
  /\ kind \in [Calls -> {"plain", "attach", "stream"}]
  /\ at = [c \in Calls |-> "none"]
  /\ told = [c \in Calls |-> << >>]
  /\ delegate = [c \in Calls |-> "none"]
  /\ result = [c \in Calls |-> "none"]
  /\ yielded = [c \in Calls |-> << >>]
  /\ threw = {}

TypeOK ==
  /\ \A c \in Calls : /\ kind[c] \in {"plain", "attach", "stream"}
                      /\ at[c] \in {"none", "delegated", "streaming", "settled", "left"}
                      /\ told[c] \in Seq({"before", "progress", "success", "failure"})
                      /\ delegate[c] \in {"none", "pending", "ok", "failed"}
                      /\ result[c] \in {"none", "ok", "failed", "thrown"}
                      /\ IsPrefix(yielded[c], Items)
  /\ threw \subseteq Calls

Put(f, c, v) == [f EXCEPT ![c] = v]
Tell(c, phase) == told' = Put(told, c, Append(told[c], phase))
Throws(c) == threw' = threw \cup {c}

-----------------------------------------------------------------------------
(* Faulty variants of the definitions below.                               *)

\* The callback is not told of the items.
TellsNothing(c) == UNCHANGED told

\* The catch tells the callback, and forgets to throw.
Swallowed(c, how, phases) ==
  /\ told' = Put(told, c, told[c] \o phases)
  /\ at' = Put(at, c, "settled") /\ result' = Put(result, c, "ok")

-----------------------------------------------------------------------------

\* The callback is told before the delegate is called; if it throws, the
\* delegate never is.
Begin(c) ==
  /\ at[c] = "none"
  /\ Tell(c, "before")
  /\ \/ /\ at' = Put(at, c, IF kind[c] = "stream" THEN "streaming" ELSE "delegated")
        /\ delegate' = Put(delegate, c, "pending")
        /\ result' = (IF kind[c] = "attach" THEN Put(result, c, "ok") ELSE result)
        /\ UNCHANGED threw
     \/ /\ Throws(c)
        /\ at' = Put(at, c, "settled")
        /\ result' = Put(result, c, IF kind[c] = "attach" THEN "ok" ELSE "thrown")
        /\ UNCHANGED delegate
  /\ UNCHANGED <<kind, yielded>>

Settle(c, how) ==
  /\ at' = Put(at, c, "settled")
  /\ result' = (IF kind[c] = "attach" THEN result ELSE Put(result, c, how))

\* The catch of #diagnose() and of the iterators.
Caught(c, how, phases) ==
  /\ told' = Put(told, c, told[c] \o phases)
  /\ Settle(c, how)

\* The delegate is done: "after" with success, in the try block; if the
\* callback throws there, "after" again, without success.
Succeed(c) ==
  /\ at[c] = "delegated" \/ (at[c] = "streaming" /\ yielded[c] = Items)
  /\ delegate' = Put(delegate, c, "ok")
  /\ \/ Tell(c, "success") /\ Settle(c, "ok") /\ UNCHANGED threw
     \/ Caught(c, "thrown", <<"success", "failure">>) /\ Throws(c)
  /\ UNCHANGED <<kind, yielded>>

Fail(c) ==
  /\ at[c] \in {"delegated", "streaming"}
  /\ delegate' = Put(delegate, c, "failed")
  /\ \/ Caught(c, "failed", <<"failure">>) /\ UNCHANGED threw
     \/ Caught(c, "thrown", <<"failure">>) /\ Throws(c)
  /\ UNCHANGED <<kind, yielded>>

TellProgress(c) == Tell(c, "progress")

Yield(c) ==
  /\ at[c] = "streaming" /\ yielded[c] # Items
  /\ yielded' = Put(yielded, c, Append(yielded[c], Items[Len(yielded[c]) + 1]))
  /\ TellProgress(c)
  /\ UNCHANGED <<kind, at, delegate, result, threw>>

\* The callback throws at an item: the reader gets the error instead of it.
YieldThrows(c) ==
  /\ at[c] = "streaming" /\ yielded[c] # Items
  /\ Caught(c, "thrown", <<"progress", "failure">>) /\ Throws(c)
  /\ UNCHANGED <<kind, delegate, yielded>>

\* return() of the generator: no catch, and no "after".
Leave(c) ==
  /\ at[c] = "streaming"
  /\ at' = Put(at, c, "left")
  /\ UNCHANGED <<kind, told, delegate, result, yielded, threw>>

Next ==
  \E c \in Calls :
    Begin(c) \/ Succeed(c) \/ Fail(c) \/ Yield(c) \/ YieldThrows(c) \/ Leave(c)

Spec == Init /\ [][Next]_vars

-----------------------------------------------------------------------------
(* Properties.                                                             *)

\* What the callback should have been told of a call.
Account(c) ==
  <<"before">> \o [i \in 1..Len(yielded[c]) |-> "progress"] \o
  CASE at[c] \in {"delegated", "streaming", "left"} -> << >>
    [] delegate[c] = "ok"     -> <<"success">>
    [] delegate[c] = "failed" -> <<"failure">>
    [] OTHER -> << >>

(* A callback that does not throw sees each call begin once, advance with  *)
(* every item, and end once as the delegate ended it; and the caller gets  *)
(* what the delegate gave, but for attach(), which says "ok" at once.      *)
Transparent ==
  \A c \in Calls \ threw : at[c] # "none" =>
    /\ told[c] = Account(c)
    /\ kind[c] # "attach" /\ at[c] = "settled" => result[c] = delegate[c]
    /\ kind[c] = "attach" => result[c] = "ok"

(* A callback that throws can turn a call that succeeded into a failure,   *)
(* and be told that it did both; but no failure becomes a success.         *)
FailuresStay == \A c \in Calls : delegate[c] = "failed" /\ kind[c] # "attach" => result[c] # "ok"
=============================================================================
