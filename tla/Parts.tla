-------------------------------- MODULE Parts --------------------------------
(***************************************************************************)
(* The parts of the library that share no state with the connection or     *)
(* with each other, and that PartsProofs proves about: "part" tells which  *)
(* of them a behaviour is about.  The variables of the others stay 0.      *)
(***************************************************************************)
EXTENDS Part, Integers, Sequences, FiniteSets

CONSTANTS
  Statements, Modes, Selections, RetryOptions, MaxThens, MaxFailures, \* QueryExecution
  Calls, Namespaces, Settings, Users, MaxEngines,                     \* HttpEngine
  Requests, Sessions, Transactions, Names, ConnectOptions, Yes, No,   \* EmbeddedDatabase
  Items,                                                              \* Diagnostics
  Events, Listeners, Firsts, MaxSteps, MaxDepth,                      \* Publisher
  Radix, TargetScale, MaxNum, MaxScale,                               \* Decimals
  Undefined, JsNull

VARIABLES                                    \* beside those of Part
  call,                                      \* of the query, or per call over HTTP
  phase, thens, dispatched, sends, attempts, chunks, responses, outcome,
  applied, failures, last, before, after,
  made, engine, opened, timer, status, session, handshake, log, crossed,
  options, granted, attached, live_queries, running, transactions, tx, ends, task, outrun,
  told, delegate, result, yielded, threw,
  entries, current, loops, resolved, steps, calls,
  dec, num, over, doubt

queryVars == <<phase, thens, dispatched, sends, attempts, chunks, responses, frames,
               outcome, applied, failures, last, before, after>>
httpVars  == <<made, engine, opened, timer, status, session, handshake, log, crossed>>
databaseVars ==
  <<options, granted, attached, live_queries, running, transactions, tx, ends, task, outrun>>
diagnosedVars == <<kind, at, told, delegate, result, yielded, threw>>
publishedVars == <<entries, current, loops, resolved, steps, calls>>
decimalVars == <<dec, num, over, doubt>>
partsVars ==
  <<part, call, queryVars, httpVars, databaseVars, diagnosedVars, publishedVars, decimalVars>>

Query     == INSTANCE QueryExecution WITH Options <- RetryOptions
Http      == INSTANCE HttpEngine WITH Values <- Settings, None <- Undefined, Null <- JsNull
Database  == INSTANCE EmbeddedDatabase WITH Options <- ConnectOptions, None <- Undefined
Diagnosed == INSTANCE Diagnostics
Published == INSTANCE Publisher
Numbers   == INSTANCE Decimals

-----------------------------------------------------------------------------
(* What the constants are.  The statements of a query are numbered, and a  *)
(* query is tried again a number of times, or (-1) without end.  What an   *)
(* option of connect() allows or denies is all, nothing or a list; it may  *)
(* not be given, and "undefined" and null are nothing else.  The radix is  *)
(* even, and has the digits of the decimals a program combines others with.*)

Lists   == {Yes, No} \cup SUBSET Names
Rules   == [all : Lists] \cup [allow : {Undefined} \cup Lists, deny : {Undefined} \cup Lists]
GivenAs == {Undefined} \cup Rules

ASSUME PartsAssumption ==
  /\ IsFiniteSet(Statements) /\ Statements = 1..Cardinality(Statements)
  /\ Selections \subseteq Seq(Statements)
  /\ MaxThens \in Nat /\ MaxFailures \in Nat
  /\ \A option \in RetryOptions : option.attempts \in Nat \cup {-1}
  /\ Undefined # JsNull /\ {Undefined, JsNull} \cap (Namespaces \cup Settings \cup Users) = {}
  /\ MaxEngines \in Nat
  /\ Yes # No /\ Undefined \notin {Yes, No}
  /\ \A list \in SUBSET Names : list \notin {Yes, No, Undefined}
  /\ \A rule \in Rules : rule # Undefined
  /\ ConnectOptions \subseteq {Yes, No, Undefined} \cup [Database!Kinds -> GivenAs]
  /\ Items \in Seq({Items[i] : i \in DOMAIN Items})
  /\ Listeners \cap Firsts = {} /\ MaxSteps \in Nat /\ MaxDepth \in Nat
  /\ Radix \in Nat /\ Radix >= 4 /\ Radix % 2 = 0 /\ TargetScale \in Nat

-----------------------------------------------------------------------------
NoQuery ==
  /\ phase = 0 /\ thens = 0 /\ dispatched = 0 /\ sends = 0 /\ attempts = 0
  /\ chunks = 0 /\ responses = 0 /\ frames = 0 /\ outcome = 0 /\ applied = 0
  /\ failures = 0 /\ last = 0 /\ before = 0 /\ after = 0

NoHttp ==
  /\ made = 0 /\ engine = 0 /\ opened = 0 /\ timer = 0 /\ status = 0
  /\ session = 0 /\ handshake = 0 /\ log = 0 /\ crossed = 0

NoDatabase ==
  /\ options = 0 /\ granted = 0 /\ attached = 0 /\ live_queries = 0 /\ running = 0
  /\ transactions = 0 /\ tx = 0 /\ ends = 0 /\ task = 0 /\ outrun = 0

NoDiagnosed ==
  /\ kind = 0 /\ at = 0 /\ told = 0 /\ delegate = 0 /\ result = 0
  /\ yielded = 0 /\ threw = 0

NoPublished ==
  /\ entries = 0 /\ current = 0 /\ loops = 0 /\ resolved = 0 /\ steps = 0 /\ calls = 0

NoDecimals == dec = 0 /\ num = 0 /\ over = 0 /\ doubt = 0

PartsInit ==
  \/ /\ part = "query" /\ Query!Init
     /\ NoHttp /\ NoDatabase /\ NoDiagnosed /\ NoPublished /\ NoDecimals
  \/ /\ part = "http" /\ Http!Init
     /\ NoQuery /\ NoDatabase /\ NoDiagnosed /\ NoPublished /\ NoDecimals
  \/ /\ part = "database" /\ Database!Init
     /\ call = 0 /\ NoQuery /\ NoHttp /\ NoDiagnosed /\ NoPublished /\ NoDecimals
  \/ /\ part = "diagnostics" /\ Diagnosed!Init
     /\ call = 0 /\ NoQuery /\ NoHttp /\ NoDatabase /\ NoPublished /\ NoDecimals
  \/ /\ part = "publisher" /\ Published!Init
     /\ call = 0 /\ NoQuery /\ NoHttp /\ NoDatabase /\ NoDiagnosed /\ NoDecimals
  \/ /\ part = "decimals" /\ Numbers!Init
     /\ call = 0 /\ NoQuery /\ NoHttp /\ NoDatabase /\ NoDiagnosed /\ NoPublished

PartsNext ==
  /\ UNCHANGED part
  /\ \/ /\ part = "query" /\ Query!Next
        /\ UNCHANGED <<httpVars, databaseVars, diagnosedVars, publishedVars, decimalVars>>
     \/ /\ part = "http" /\ Http!Next
        /\ UNCHANGED <<queryVars, databaseVars, diagnosedVars, publishedVars, decimalVars>>
     \/ /\ part = "database" /\ Database!Next
        /\ UNCHANGED <<call, queryVars, httpVars, diagnosedVars, publishedVars, decimalVars>>
     \/ /\ part = "diagnostics" /\ Diagnosed!Next
        /\ UNCHANGED <<call, queryVars, httpVars, databaseVars, publishedVars, decimalVars>>
     \/ /\ part = "publisher" /\ Published!Next
        /\ UNCHANGED <<call, queryVars, httpVars, databaseVars, diagnosedVars, decimalVars>>
     \/ /\ part = "decimals" /\ Numbers!Next
        /\ UNCHANGED <<call, queryVars, httpVars, databaseVars, diagnosedVars, publishedVars>>

PartsSpec == PartsInit /\ [][PartsNext]_partsVars

-----------------------------------------------------------------------------
(* The properties.                                                         *)

(* What collect(), responses() and stream() give is the last answer, whole *)
(* and of one attempt; the query is sent when it is awaited, once for all  *)
(* its handlers (query.ts, dispatched-promise.ts).                         *)
AnswersAreWhole ==
  part = "query" =>
    Query!TypeOK /\ Query!SentAsAwaited /\ Query!ResolvesWithLastAnswer /\ Query!EveryStatementEnds

(* A query that is one transaction takes effect at most once, however it   *)
(* is retried, and a conflict is retried until the attempts are spent      *)
(* (retry.ts).                                                             *)
RetriedSafely == part = "query" => Query!AtomicOnce /\ Query!GivesUpOnlyWhenSpent

(* Over HTTP, requests run as if the server kept the session, and answers  *)
(* find the connection they were asked on (http.ts).                       *)
ActsAsSession == part = "http" => Http!RunsAsKept /\ Http!AnswersFindTheirConnection

(* The embedded database grants what the options say, leaves no live query *)
(* of a session that is gone, and ends a transaction once (mod.rs,         *)
(* options.rs).                                                            *)
TablesAreKept ==
  part = "database" =>
    Database!OptionsMean /\ Database!NoLiveQueryEscapes /\ Database!EndsOnce

(* The diagnostics change nothing of a call but what their callback throws,*)
(* and hide no failure (diagnostics.ts).                                   *)
DiagnosticsAreTransparent == part = "diagnostics" => Diagnosed!Transparent /\ Diagnosed!FailuresStay

(* Every listener hears an event once, also when listeners subscribe and   *)
(* leave while it is published, and subscribeFirst() resolves once         *)
(* (publisher.ts).                                                         *)
ListenersHearOnce == part = "publisher" => Published!EveryListenerOnce /\ Published!FirstIsOnce

(* After any sequence of operations a decimal is the number that           *)
(* arithmetic says and survives each of its notations, but for what the    *)
(* constructors misread: numbers that print with an exponent, and tuples   *)
(* whose parts are out of order (decimal.ts).                              *)
ValuesAreExact == part = "decimals" => Numbers!DecimalsAreExact /\ Numbers!NotationsAreExact
=============================================================================
