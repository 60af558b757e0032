---------------------------- MODULE ServerErrors ----------------------------
(***************************************************************************)
(* An error of the server, from what it says on the wire to what the       *)
(* application reads from the error it catches.  An error has a kind,      *)
(* details, which may have details of their own, and a cause, which is an  *)
(* error.  Messages and names are left out.                                *)
(***************************************************************************)
EXTENDS Integers, Sequences

VARIABLES
    error,   \* the error of the server, and its causes, outermost first
    form,    \* how it is sent
    raw,     \* what is sent
    back     \* the ServerError, and its causes

vars == <<error, form, raw, back>>

-----------------------------------------------------------------------------
\* Details are {kind, details?}, and what is neither is some text.
Detail(kind, details) == [kind |-> kind, details |-> details]
Nothing   == [kind |-> "nothing"]
Content   == [kind |-> "content"]
Plain(kind) == Detail(kind, Nothing)

Plains ==
    [Validation    |-> {"Parse", "InvalidRequest"},
     Configuration |-> {"LiveQueryNotSupported", "BadLiveQueryConfig"},
     Query         |-> {"NotExecuted", "Cancelled", "TransactionConflict"},
     Serialization |-> {"Serialization", "Deserialization"},
     NotAllowed    |-> {"Scripting"},
     NotFound      |-> {"Transaction"},
     AlreadyExists |-> {}, Thrown |-> {}, Internal |-> {}, Connection |-> {"Uninitialised"}]

Named ==
    [Validation    |-> {"InvalidParameter", "InvalidContent"},
     Configuration |-> {},
     Query         |-> {"TimedOut"},
     Serialization |-> {},
     NotAllowed    |-> {"Method", "Function", "Target"},
     NotFound      |-> {"Method", "Session", "Table", "Record", "Namespace", "Database"},
     AlreadyExists |-> {"Session", "Table", "Record"},
     Thrown |-> {}, Internal |-> {}, Connection |-> {}]

AuthDetails ==
    {Plain("TokenExpired"), Plain("InvalidAuth"), Detail("InvalidRole", Content),
     Detail("NotAllowed", Content)}

Kinds == DOMAIN Plains

DetailsOf(kind) ==
    {Nothing} \cup {Plain(d) : d \in Plains[kind]} \cup {Detail(d, Content) : d \in Named[kind]}
        \cup IF kind = "NotAllowed" THEN {Detail("Auth", d) : d \in AuthDetails} ELSE {}

Error == UNION {{[kind |-> k, details |-> d] : d \in DetailsOf(k)} : k \in Kinds}

-----------------------------------------------------------------------------
(* What is sent: {code, message} by an old server, the error itself as the *)
(* answer of a request, and as the result of a statement, where its        *)
(* details may be wrapped in details with the kind of the error.           *)

Codes == {-32700, -32601, -32602, -32000, -32001, -32003, -32006, -32007, -32604, 0}
Forms == {"old", "rpc", "result", "wrapped result"}

Wrapped(e) == IF e.details = Nothing THEN Plain(e.kind) ELSE Detail(e.kind, e.details)

Sent(es, f) ==
    IF f = "wrapped result" THEN [es EXCEPT ![1].details = Wrapped(es[1])] ELSE es

KindOfCode(code) ==
    CASE code \in {-32700, -32600, -32603}           -> "Validation"
      [] code = -32601                               -> "NotFound"
      [] code \in {-32602, -32002}                   -> "NotAllowed"
      [] code \in {-32604, -32605, -32606}           -> "Configuration"
      [] code = -32001                               -> "Connection"
      [] code \in {-32003, -32004, -32005, -32009}   -> "Query"
      [] code = -32006                               -> "Thrown"
      [] code \in {-32007, -32008}                   -> "Serialization"
      [] OTHER                                       -> "Internal"

\* A faulty variant: whatever has details is taken for wrapped.
UnwrapAny(kind, details) ==
    IF details # Nothing /\ details.details \notin {Nothing, Content}
    THEN details.details ELSE details

\* Details that repeat the kind, and have details which are an object, are wrapped.
Unwrap(kind, details) ==
    IF details # Nothing /\ details.kind = kind /\ details.details # Nothing
    THEN details.details ELSE details

\* createServerError(): an unknown kind, and "Connection", have no class of their own.
ClassOf(kind) ==
    IF kind \in {"Validation", "Configuration", "Thrown", "Query", "Serialization",
                 "NotAllowed", "NotFound", "AlreadyExists", "Internal"}
    THEN kind ELSE "ServerError"

Parsed(kind, details) == [class |-> ClassOf(kind), kind |-> kind, details |-> details]

ParseCauses(es) == [i \in 1..(Len(es) - 1) |-> Parsed(es[i + 1].kind, es[i + 1].details)]

ParseRpcError(es) == <<Parsed(es[1].kind, es[1].details)>> \o ParseCauses(es)

ParseQueryError(es) ==
    <<Parsed(es[1].kind, Unwrap(es[1].kind, es[1].details))>> \o ParseCauses(es)

-----------------------------------------------------------------------------
(* What an error class tells: whether, or for whom, it has some details.   *)
Getters ==
    {<<"Validation", "Parse">>, <<"Validation", "InvalidParameter">>,
     <<"Configuration", "LiveQueryNotSupported">>, <<"Query", "NotExecuted">>,
     <<"Query", "TimedOut">>, <<"Query", "Cancelled">>, <<"Query", "TransactionConflict">>,
     <<"Serialization", "Deserialization">>, <<"NotAllowed", "Auth", "TokenExpired">>,
     <<"NotAllowed", "Auth", "InvalidAuth">>, <<"NotAllowed", "Scripting">>,
     <<"NotAllowed", "Method">>, <<"NotAllowed", "Function">>, <<"NotFound", "Table">>,
     <<"NotFound", "Record">>, <<"NotFound", "Method">>, <<"NotFound", "Namespace">>,
     <<"NotFound", "Database">>, <<"AlreadyExists", "Record">>, <<"AlreadyExists", "Table">>}

Tells(e, getter) ==
    /\ e.class = getter[1]
    /\ e.details # Nothing /\ e.details.kind = getter[2]
    /\ Len(getter) = 3 => e.details.details # Nothing /\ e.details.details.kind = getter[3]

-----------------------------------------------------------------------------
Init ==
    /\ error \in {<<e>> : e \in Error} \cup {<<e, c>> : e \in Error, c \in Error}
    /\ form \in Forms
    /\ raw = <<>> /\ back = <<>>

\* The server.
Send ==
    /\ raw = <<>>
    /\ \/ form # "old" /\ raw' = Sent(error, form)
       \/ form = "old" /\ \E code \in Codes : raw' = <<[code |-> code]>>
    /\ UNCHANGED <<error, form, back>>

Parse ==
    /\ raw # <<>> /\ back = <<>>
    /\ back' = CASE form = "old" -> <<Parsed(KindOfCode(raw[1].code), Nothing)>>
                 [] form = "rpc" -> ParseRpcError(raw)
                 [] OTHER        -> ParseQueryError(raw)
    /\ UNCHANGED <<error, form, raw>>

Next == Send \/ Parse

Spec == Init /\ [][Next]_vars

-----------------------------------------------------------------------------
\* What the server meant by an error, asked as a getter does.
Means(e, getter) ==
    /\ e.kind = getter[1]
    /\ \/ Len(getter) = 2 /\ e.details \in {Plain(getter[2]), Detail(getter[2], Content)}
       \/ Len(getter) = 3 /\ e.details = Detail(getter[2], Plain(getter[3]))

\* However an error is sent, each error of the chain tells exactly what the
\* server meant (parse-error.ts:152): a conflict, which decides about a retry,
\* is never missed or imagined.  Of an old server's nothing more is told.
TellsWhatWasMeant ==
    back # <<>> =>
        IF form = "old" THEN \A getter \in Getters : ~Tells(back[1], getter)
        ELSE /\ Len(back) = Len(error)
             /\ \A i \in DOMAIN back :
                  /\ back[i].kind = error[i].kind
                  /\ \A getter \in Getters : Tells(back[i], getter) <=> Means(error[i], getter)
=============================================================================
