-------------------------------- MODULE Data --------------------------------
(***************************************************************************)
(* More parts of the library, those that pass data on, and that DataProofs *)
(* proves about: the channel of live messages, the builders and bound      *)
(* queries, the reader of a chat, durations and dates, and the errors of   *)
(* the server.  They share no state with the connection or with each       *)
(* other: "part" tells which of them a behaviour is about.  The variables  *)
(* of the others stay 0, but for the channel's, which rests in its initial *)
(* state.                                                                  *)
(***************************************************************************)
EXTENDS Part, FiniteSets, ChannelIterator

CONSTANTS
  BuilderKinds, MaxBuilders, MaxBound, MaxLength,            \* Statements
  MaxFrames, Delta, Keep, Last, Sentinel,                    \* ChatStream
  Thousand, Sixty, HoursPerDay, DaysPerWeek, DaysPerYear,    \* Instants
  Grain, MaxSpan, MaxTime, Amounts

VARIABLES
  headers, builders, bound, fresh, sent,     \* beside "kind"
  closed, rest, buffer, out,                 \* beside "frames" and "at"
  span, spanIs, time, timeIs,
  error, form, raw, back

chatVars    == <<frames, closed, rest, buffer, out, at>>
builderVars == <<kind, headers, builders, bound, fresh, sent>>
instantVars == <<span, spanIs, time, timeIs>>
errorVars   == <<error, form, raw, back>>
dataVars    == <<vars, part, builderVars, chatVars, instantVars, errorVars>>

Builders == INSTANCE Statements WITH Kinds <- BuilderKinds
Chat     == INSTANCE ChatStream
Times    == INSTANCE Instants
Errors   == INSTANCE ServerErrors

-----------------------------------------------------------------------------
(* What the constants are: the builders there are, lines of a chat that    *)
(* can be told apart and from the ends of lines, and ratios of units that  *)
(* are not zero.                                                           *)

ASSUME DataAssumption ==
  /\ BuilderKinds \subseteq {"select", "create", "update", "upsert", "insert", "relate", "delete",
                   "run", "api", "auth", "live"}
  /\ MaxBuilders \in Nat /\ MaxBound \in Nat /\ MaxLength \in Nat
  /\ MaxFrames \in Nat
  /\ \A line \in {Delta, Keep, Last, Sentinel} : line \notin {Chat!CR, Chat!LF}
  /\ Keep \notin {Delta, Last, Sentinel} /\ Delta \notin {Last, Sentinel}
  /\ {Thousand, Sixty, HoursPerDay, DaysPerWeek, DaysPerYear} \subseteq Nat \ {0}
  /\ MaxSpan \in Nat /\ MaxTime \in Nat /\ Amounts \subseteq Nat

-----------------------------------------------------------------------------
NoBuilders == kind = 0 /\ headers = 0 /\ builders = 0 /\ bound = 0 /\ fresh = 0 /\ sent = 0
NoChat     == frames = 0 /\ closed = 0 /\ rest = 0 /\ buffer = 0 /\ out = 0 /\ at = 0
NoInstants == span = 0 /\ spanIs = 0 /\ time = 0 /\ timeIs = 0
NoErrors   == error = 0 /\ form = 0 /\ raw = 0 /\ back = 0

DataInit ==
  /\ Init
  /\ \/ part = "channel"  /\ NoBuilders /\ NoChat /\ NoInstants /\ NoErrors
     \/ part = "builders" /\ Builders!Init /\ NoChat /\ NoInstants /\ NoErrors
     \/ part = "chat"     /\ Chat!Init /\ NoBuilders /\ NoInstants /\ NoErrors
     \/ part = "instants" /\ Times!Init /\ NoBuilders /\ NoChat /\ NoErrors
     \/ part = "errors"   /\ Errors!Init /\ NoBuilders /\ NoChat /\ NoInstants

DataNext ==
  /\ UNCHANGED part
  /\ \/ part = "channel"  /\ Next /\ UNCHANGED <<builderVars, chatVars, instantVars, errorVars>>
     \/ part = "builders" /\ Builders!Next /\ UNCHANGED <<vars, chatVars, instantVars, errorVars>>
     \/ part = "chat"     /\ Chat!Next /\ UNCHANGED <<vars, builderVars, instantVars, errorVars>>
     \/ part = "instants" /\ Times!Next /\ UNCHANGED <<vars, builderVars, chatVars, errorVars>>
     \/ part = "errors"   /\ Errors!Next /\ UNCHANGED <<vars, builderVars, chatVars, instantVars>>

DataSpec == DataInit /\ [][DataNext]_dataVars

-----------------------------------------------------------------------------
(* The properties.                                                         *)

(* A builder sends what was said to it, and the parameters of a bound      *)
(* query stay with their values (query/*.ts, bound-query.ts).              *)
BuildersSay == part = "builders" => Builders!SaysWhatWasSaid /\ Builders!ReadAsMeant

(* Of every error the application is told what the server meant            *)
(* (parse-error.ts).                                                       *)
ErrorsAreTold == part = "errors" => Errors!TellsWhatWasMeant

(* The server is told what the application meant, and the application what *)
(* the server meant.                                                       *)
SaysWhatWasMeant == BuildersSay /\ ErrorsAreTold

(* The chunks of a chat are those the server said, however the network     *)
(* cuts them (streaming.ts).                                               *)
ChunksAsSaid == part = "chat" => Chat!ChunksAsSaid

(* Durations and dates compute the exact instant, and a duration survives  *)
(* its text (duration.ts, datetime.ts).                                    *)
InstantsAreExact ==
  part = "instants" => Times!SpansAreExact /\ Times!SpansReadBack /\ Times!TimesAreExact
=============================================================================
