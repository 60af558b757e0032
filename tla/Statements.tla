------------------------------ MODULE Statements ------------------------------
(***************************************************************************)
(* The statement builders (query/*.ts), what an application makes of them  *)
(* (api/queryable.ts), and the bound queries they compile to               *)
(* (utils/bound-query.ts, utils/tagged-template.ts).                       *)
(*                                                                         *)
(* A builder is a promise with options.  Each of its setters returns a new *)
(* builder and leaves the old one, which may be awaited or set again.  A   *)
(* BoundQuery is an object that is changed in place by append(), and that  *)
(* a Query made of it shares.  The text of a statement is its sequence of  *)
(* clauses, each with the parameter it names; what a clause says beyond    *)
(* its value is left out.                                                  *)
(***************************************************************************)
EXTENDS Integers, Sequences, FiniteSets

CONSTANTS
  Kinds,          \* the builders
  MaxBuilders,    \* bound: builders
  MaxBound,       \* bound: BoundQuery objects
  MaxLength       \* bound: clauses of a text that is appended to

VARIABLES
  kind,           \* what the application builds; fixed
  headers,        \* #headers of the SurrealApi
  builders,       \* the builders: their options, and history: the calls made
  bound,          \* the BoundQuery objects, and history: what each was meant to say
  fresh,          \* getIncrementalID()
  sent            \* history: the request sent last, and by which builder

vars == <<kind, headers, builders, bound, fresh, sent>>

None == ""
Has(o, s) == s \in DOMAIN o

\* {...o, [s]: v}
With(o, s, v) == [t \in DOMAIN o \cup {s} |-> IF t = s THEN v ELSE o[t]]

-----------------------------------------------------------------------------
(* The setters: what a call of the application sets.                       *)

Common == {<<"json", "true">>, <<"retry", "true">>}
Output == {<<"output", "diff">>}
Timed  == {<<"timeout", "1">>}
Versioned == {<<"version", "1">>}

\* where() with an expression, one that compiles to nothing, and none at all.
Where == {<<"where", "condition">>, <<"where", "blank">>, <<"where", "none">>}

SelectSetters ==
  {<<"json", "true">>, <<"selection", "fields">>, <<"selection", "value">>,
   <<"start", "0">>, <<"start", "1">>, <<"limit", "0">>, <<"limit", "1">>, <<"fetch", "1">>}
    \cup Where \cup Timed \cup Versioned
CreateSetters == Common \cup Output \cup Timed \cup Versioned
                   \cup {<<"mutation", "content">>, <<"mutation", "patch">>}
UpdateSetters == Common \cup Where \cup Output \cup Timed
                   \cup {<<"mutation", m>> : m \in {"content", "merge", "replace", "patch"}}
UpsertSetters == UpdateSetters
InsertSetters == Common \cup Output \cup Timed \cup Versioned
                   \cup {<<"relation", "true">>, <<"ignore", "true">>}
RelateSetters == Common \cup Output \cup Timed \cup Versioned \cup {<<"unique", "true">>}
DeleteSetters == Common \cup Output \cup Timed \cup Versioned
RunSetters    == Common
ApiSetters    == {<<"json", "true">>, <<"header", "1">>, <<"header", "2">>, <<"query", "1">>}
AuthSetters   == {<<"json", "true">>}
LiveSetters   == {<<"selection", s>> : s \in {"fields", "value", "diff"}}
                   \cup {<<"fetch", "1">>} \cup Where

Setters ==
  CASE kind = "select" -> SelectSetters [] kind = "create" -> CreateSetters
    [] kind = "update" -> UpdateSetters [] kind = "upsert" -> UpsertSetters
    [] kind = "insert" -> InsertSetters [] kind = "relate" -> RelateSetters
    [] kind = "delete" -> DeleteSetters [] kind = "run"    -> RunSetters
    [] kind = "api"    -> ApiSetters    [] kind = "auth"   -> AuthSetters
    [] kind = "live"   -> LiveSetters

\* What the methods of SurrealQueryable start with, their overloads included.
Roots ==
  CASE kind = "delete" -> {[what |-> w, output |-> "before"] : w \in {"record", "table"}}
    [] kind = "insert" -> {[what |-> "data"], [what |-> "data", table |-> "table"]}
    [] kind = "relate" ->
         {[what |-> "one"], [what |-> "many"], [what |-> "one", data |-> "data"]}
    [] kind = "run"    -> {[what |-> "name"], [what |-> "name", version |-> "1"],
                           [what |-> "name", args |-> "1"]}
    [] kind = "api"    -> {With(headers, "what", "path")}
    [] kind = "auth"   -> {[what |-> "auth"]}
    [] OTHER           -> {[what |-> w] : w \in {"record", "table"}}

-----------------------------------------------------------------------------
(* The statements: clauses of a name and a value; None for one without.    *)

Clause(o, s)  == IF Has(o, s) THEN << <<s, o[s]>> >> ELSE << >>
NonZero(o, s) == IF Has(o, s) /\ o[s] # "0" THEN << <<s, o[s]>> >> ELSE << >>

\* surql` TIMEOUT ${_timeout(timeout)}`, where _timeout() says TIMEOUT again.
Timeout(o) == IF Has(o, "timeout") THEN << <<"TIMEOUT", None>>, <<"timeout", o.timeout>> >> ELSE << >>

Selection(o) == IF Has(o, "selection") THEN << <<"selection", o.selection>> >> ELSE << <<"*", None>> >>

SelectStatement(o) ==
  Selection(o) \o Clause(o, "what") \o Clause(o, "where") \o NonZero(o, "start")
    \o NonZero(o, "limit") \o Clause(o, "fetch") \o Timeout(o) \o Clause(o, "version")
CreateStatement(o) ==
  Clause(o, "what") \o Clause(o, "mutation") \o Clause(o, "output") \o Timeout(o)
    \o Clause(o, "version")
UpdateStatement(o) ==
  Clause(o, "what") \o Clause(o, "mutation") \o Clause(o, "where") \o Clause(o, "output")
    \o Timeout(o)
UpsertStatement(o) == UpdateStatement(o)
InsertStatement(o) ==
  Clause(o, "relation") \o Clause(o, "ignore") \o Clause(o, "table") \o Clause(o, "what")
    \o Clause(o, "output") \o Timeout(o) \o Clause(o, "version")
RelateStatement(o) ==
  (IF o.what = "one" THEN << <<"ONLY", None>> >> ELSE << >>)
    \o Clause(o, "what") \o Clause(o, "data") \o Clause(o, "output") \o Timeout(o)
    \o Clause(o, "version")
DeleteStatement(o) ==
  Clause(o, "what") \o Clause(o, "output") \o Timeout(o) \o Clause(o, "version")
RunStatement(o)  == Clause(o, "what") \o Clause(o, "version") \o Clause(o, "args")
\* The request of an API call is one value: what was set before it is in it.
ApiStatement(o)  == Clause(o, "what") \o Clause(o, "header") \o Clause(o, "query")
AuthStatement(o) == Clause(o, "what")
LiveStatement(o) == Selection(o) \o Clause(o, "what") \o Clause(o, "where") \o Clause(o, "fetch")

Statement(o) ==
  CASE kind = "select" -> SelectStatement(o) [] kind = "create" -> CreateStatement(o)
    [] kind = "update" -> UpdateStatement(o) [] kind = "upsert" -> UpsertStatement(o)
    [] kind = "insert" -> InsertStatement(o) [] kind = "relate" -> RelateStatement(o)
    [] kind = "delete" -> DeleteStatement(o) [] kind = "run"    -> RunStatement(o)
    [] kind = "api"    -> ApiStatement(o)    [] kind = "auth"   -> AuthStatement(o)
    [] kind = "live"   -> LiveStatement(o)

\* A setter, on a copy of the options.
Updated(o, c) ==
  IF c = <<"where", "none">> THEN [s \in DOMAIN o \ {"where"} |-> o[s]] ELSE With(o, c[1], c[2])

-----------------------------------------------------------------------------
(* Faulty variants of the definitions below.                               *)

\* A setter changes the options it was called on, and returns a builder of them.
SetsInPlace(b, c) ==
  LET options == Updated(builders[b].options, c)
  IN builders' = Append([builders EXCEPT ![b].options = options],
                        [builders[b] EXCEPT !.options = options, !.calls = Append(@, c)])

\* append() assigns the parameters without looking at those it has.
MergesBlindly(one, two) == TRUE

-----------------------------------------------------------------------------
(* BoundQuery.                                                             *)

\* A statement as a bound query: each value has a parameter of its own.
Bound(statement) ==
  LET name(i) == <<"bind", fresh + i>>
      given == {i \in DOMAIN statement : statement[i][2] # None}
  IN [text   |-> [i \in DOMAIN statement |->
                    [says |-> statement[i][1], names |-> IF i \in given THEN {name(i)} ELSE {}]],
      params |-> [n \in {name(i) : i \in given} |-> statement[n[2] - fresh][2]],
      meant  |-> statement]

\* What the server reads.
Read(q) ==
  [i \in DOMAIN q.text |->
     <<q.text[i].says, IF q.text[i].names = {} THEN None
                       ELSE q.params[CHOOSE n \in q.text[i].names : TRUE]>>]

Disjoint(one, two) == DOMAIN one.params \cap DOMAIN two.params = {}

\* mergeBindings() looks at every name before it assigns one.
Merge(one, two) ==
  IF Disjoint(one, two)
    THEN [text   |-> one.text \o two.text,
          params |-> [n \in DOMAIN one.params \cup DOMAIN two.params |->
                        IF n \in DOMAIN two.params THEN two.params[n] ELSE one.params[n]],
          meant  |-> one.meant \o two.meant]
    ELSE one

\* A query the application writes itself, with a parameter it names.
Written(value) ==
  [text   |-> <<[says |-> "own", names |-> {<<"own", 0>>}]>>,
   params |-> [n \in {<<"own", 0>>} |-> value],
   meant  |-> << <<"own", value>> >>]

-----------------------------------------------------------------------------
(* Actions.                                                                *)

Init ==
  /\ kind \in Kinds
  /\ headers = << >>
  /\ builders = << >>
  /\ bound = << >>
  /\ fresh = 0
  /\ sent = [by |-> 0, says |-> {}]

\* SurrealApi.header(): the default of the requests to come, or none.
Header(value) ==
  /\ kind = "api"
  /\ headers' \in {[header |-> value], << >>}
  /\ UNCHANGED <<kind, builders, bound, fresh, sent>>

\* A method of SurrealQueryable, or SurrealApi.invoke().
Begin ==
  /\ Len(builders) < MaxBuilders
  /\ \E o \in Roots :
       builders' = Append(builders, [options |-> o, calls |-> << >>, root |-> o])
  /\ UNCHANGED <<kind, headers, bound, fresh, sent>>

Sets(b, c) ==
  builders' = Append(builders, [builders[b] EXCEPT !.options = Updated(@, c), !.calls = Append(@, c)])

Set ==
  /\ Len(builders) < MaxBuilders
  /\ \E b \in DOMAIN builders, c \in Setters : Sets(b, c)
  /\ UNCHANGED <<kind, headers, bound, fresh, sent>>

\* compile(): every call builds the statement anew.
Compile ==
  /\ Len(bound) < MaxBound
  /\ \E b \in DOMAIN builders : bound' = Append(bound, Bound(Statement(builders[b].options)))
  /\ fresh' = fresh + 12
  /\ UNCHANGED <<kind, headers, builders, sent>>

\* new BoundQuery() of a text and parameters, or of another.
Create ==
  /\ Len(bound) < MaxBound
  /\ \/ \E v \in {"1", "2"} : bound' = Append(bound, Written(v))
     \/ \E q \in DOMAIN bound : bound' = Append(bound, bound[q])
  /\ UNCHANGED <<kind, headers, builders, fresh, sent>>

\* append() of another, or of itself, or of a text; it throws on a conflict.
AppendTo ==
  /\ \E q \in DOMAIN bound, other \in {bound[r] : r \in DOMAIN bound} \cup {Written("1"), Written("2")} :
       /\ Len(bound[q].text) + Len(other.text) <= MaxLength
       /\ bound' = [bound EXCEPT ![q] = Merge(@, other)]
  /\ UNCHANGED <<kind, headers, builders, fresh, sent>>

\* surql of two queries.
Interpolate ==
  /\ Len(bound) < MaxBound
  /\ \E q, r \in DOMAIN bound :
       Disjoint(bound[q], bound[r]) /\ bound' = Append(bound, Merge(bound[q], bound[r]))
  /\ UNCHANGED <<kind, headers, builders, fresh, sent>>

Options(o) == {<<s, o[s]>> : s \in DOMAIN o \cap {"json", "retry"}}

Keywords == {"*", "ONLY", "TIMEOUT"}

Clauses(statement) == {statement[i] : i \in {j \in DOMAIN statement : statement[j][1] \notin Keywords}}

\* dispatch(): the statement is built when the promise is awaited.
Dispatch ==
  /\ \E b \in DOMAIN builders :
       LET o == builders[b].options
       IN sent' = [by |-> b, says |-> Clauses(Read(Bound(Statement(o)))) \cup Options(o)]
  /\ fresh' = fresh + 12
  /\ UNCHANGED <<kind, headers, builders, bound>>

Next ==
  \/ \E v \in {"1", "2"} : Header(v)
  \/ Begin \/ Set \/ Compile \/ Create \/ AppendTo \/ Interpolate \/ Dispatch

Spec == Init /\ [][Next]_vars

\* Bounds: what is compiled and sent, and the objects there are.
Bounds == fresh <= 24 /\ Len(builders) + Len(bound) <= 3

-----------------------------------------------------------------------------
(* Properties.                                                             *)

\* What the code does not hear: unique() of a relation is kept in the options
\* and never written, and a start or a limit of 0 counts as none.
Unheard == {<<"unique", "true">>, <<"start", "0">>, <<"limit", "0">>, <<"where", "none">>}

\* The last call for each clause, or what the root said of it.
Said(b) ==
  LET calls == builders[b].calls
      root  == builders[b].root
      last  == {calls[i] : i \in {j \in DOMAIN calls :
                  \A k \in DOMAIN calls : calls[k][1] = calls[j][1] => k <= j}}
  IN last \cup {<<s, root[s]>> : s \in {t \in DOMAIN root : \A c \in last : c[1] # t}}

(* A builder sends what was said in the calls that led to it, each clause  *)
(* as it was said last, and nothing of other builders made from the same   *)
(* one, of defaults set later, or of what was appended to a compiled query.*)
SaysWhatWasSaid == sent.by # 0 => sent.says = Said(sent.by) \ Unheard

(* Every parameter of a bound query has the value it was written with, and *)
(* none is left out, however queries are appended and interpolated.        *)
ReadAsMeant == \A q \in DOMAIN bound : Read(bound[q]) = bound[q].meant
=============================================================================
