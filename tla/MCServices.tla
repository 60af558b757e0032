------------------------------ MODULE MCServices ------------------------------
(***************************************************************************)
(* One instance for TLC of two modules that have no state in common: the   *)
(* transport of the Spectron client, and the engines that run the database *)
(* in process.  The part called subject moves.  The other stays where      *)
(* nothing is under way: all calls idle, or a worker whose READY is past.  *)
(***************************************************************************)
EXTENDS SpectronTransport

CONSTANTS
  s1, s2,             \* the calls of the client, in the order they are made
  Connect,            \* the request of open() to an engine
  EngineCalls,        \* its send(), importSql() and exportSql()
  EngineCloses,       \* its close()
  EngineKinds         \* which engines

\* The requests of an engine are told apart, and there are three engines.
ASSUME EnginesAssumption ==
  /\ Connect \notin EngineCalls \cup EngineCloses
  /\ EngineCalls \cap EngineCloses = {}
  /\ EngineKinds \subseteq {"worker", "local", "node"}

VARIABLES
  subject,                                            \* which part moves
  kind, fresh, status, active, handle, held, inbox, outbox, at, db, reader, raced

engineVars ==
  <<kind, fresh, status, active, handle, held, inbox, outbox, at, db, reader, raced>>

Engine == INSTANCE EmbeddedEngine WITH
            Calls <- EngineCalls, Closes <- EngineCloses, Kinds <- EngineKinds

\* Calls meet in the keys the server has seen, which only remember() sends: the
\* second call is one, and made after the first.
Numbered == call[s2].at # "idle" => call[s1].at # "idle" /\ call[s2].op.idempotent

ServicesNext ==
  /\ UNCHANGED subject
  /\ \/ subject = "engine" /\ Engine!Next
        /\ UNCHANGED <<clock, call, travelling, seen, effects, stored>>
     \/ subject = "client" /\ Next /\ Numbered'
        /\ UNCHANGED <<kind, fresh, status, active, handle, held, inbox, outbox, at, db,
                       reader, raced>>

ServicesInit ==
  /\ subject \in {"engine", "client"} /\ Init /\ Engine!Init
  /\ subject = "client" => kind = "worker" /\ ~fresh

ServicesSpec ==
  /\ ServicesInit
  /\ [][ServicesNext]_<<subject, vars, engineVars>>
  /\ Fairness /\ Engine!Fairness

-----------------------------------------------------------------------------

(* After close() nothing runs on, and "connected" is published by an       *)
(* engine that can be used (the embedded engines).                         *)
ClosedIsOver      == Engine!ClosedIsOver
ConnectedIsUsable == Engine!ConnectedIsUsable

(* The calls of an engine and its close() settle, and so do the calls of   *)
(* the Spectron client.                                                    *)
EveryCallSettles == Engine!CallsSettle /\ Settles
CloseReturns == Engine!CloseReturns
=============================================================================
