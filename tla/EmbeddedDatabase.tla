--------------------------- MODULE EmbeddedDatabase ---------------------------
(***************************************************************************)
(* The Rust side of the embedded engines (packages/wasm/src-rust and       *)
(* packages/node/src-rust): the options a datastore is opened with, the    *)
(* table of live queries, and the table of transactions.                   *)
(*                                                                         *)
(* Requests run concurrently; what they do under a lock, or between two    *)
(* awaits, is one step.  The datastore and the dispatch of a request to    *)
(* the methods below belong to surrealdb-core.                             *)
(***************************************************************************)
EXTENDS Naturals, FiniteSets

CONSTANTS
  Requests,       \* calls of live, kill, detach, query, commit and cancel
  Sessions,       \* sessions the application may detach
  Transactions,   \* ids of transactions
  Names,          \* names of functions, hosts or features
  Options,        \* the capabilities given to connect()
  Yes, No,        \* true and false, where an option may be a list as well
  None            \* no session, or an option that is not given

Kinds == {"functions", "network", "experimental"}

VARIABLES
  options,        \* of connect()
  granted,        \* the capabilities made of them: per kind what is allowed and denied
  attached,       \* sessions
  live_queries,   \* the table: pairs of a live query and its session
  running,        \* live queries of the datastore
  transactions,   \* the table of transactions
  tx,             \* per transaction: its state in the datastore
  ends,           \* history, per transaction: calls of commit() and cancel() on it
  task,           \* per request: what it does next, and to what
  outrun          \* history: live queries that were registered after a cleanup of their session

vars == <<options, granted, attached, live_queries, running, transactions, tx, ends, task, outrun>>
liveVars == <<attached, live_queries, running, outrun>>
txVars   == <<transactions, tx, ends>>

-----------------------------------------------------------------------------
(* Faulty variants of the definitions below.                               *)

\* The macro copied without its names: network options change the features.
KindOfNetwork(k) == IF k = "network" THEN "experimental" ELSE k

\* cleanup_lqs() drops the entries and leaves the queries.
CollectsNothing(lqs) == {}

\* commit() and cancel() find the transaction and leave it in the table.
LeavesInTable(t) == UNCHANGED transactions

-----------------------------------------------------------------------------
(* options.rs.                                                             *)

\* process_targets!, and the Booleans beside it.
Targets(t) == CASE t = Yes -> Names [] t = No -> {} [] OTHER -> t

\* capabilities::Capabilities::default() of surrealdb-core.
Default == [allow |-> [k \in Kinds |-> IF k = "functions" THEN Names ELSE {}],
            deny  |-> [k \in Kinds |-> {}]]

\* The capability an option sets.
KindOf(k) == k

\* An option that is a Boolean or a list replaces what is allowed; one with
\* "allow" and "deny" sets what it gives of the two.
Given(opt, part) ==
  IF opt = None THEN None
  ELSE IF "allow" \in DOMAIN opt THEN opt[part]
  ELSE IF part = "allow" THEN opt.all ELSE None

Set(part, config) ==
  [k \in Kinds |->
     LET from == {j \in Kinds : KindOf(j) = k /\ Given(config[j], part) # None}
     IN IF from = {} THEN Default[part][k]
        ELSE Targets(Given(config[CHOOSE j \in from : TRUE], part))]

\* TryFrom<CapabilitiesConfig>: true, false, or what each kind gives.
Capabilities(config) ==
  CASE config = Yes  -> [allow |-> [k \in Kinds |-> Names], deny |-> Default.deny]
    [] config = No   -> [Default EXCEPT !.allow["functions"] = {}]
    [] config = None -> Default
    [] OTHER -> [allow |-> Set("allow", config), deny |-> Set("deny", config)]

\* Capabilities::allows_...() of surrealdb-core.
Allows(k, name) == name \in granted.allow[k] \ granted.deny[k]

-----------------------------------------------------------------------------

\* connect() has returned.
Init ==
  /\ options \in Options /\ granted = Capabilities(options)
  /\ attached = Sessions /\ live_queries = {} /\ running = {} /\ outrun = {}
  /\ transactions = {} /\ tx = [t \in Transactions |-> "none"]
  /\ ends = [t \in Transactions |-> 0]
  /\ task = [r \in Requests |-> [does |-> "none"]]

Does(r, what) == task[r].does = what
Goes(r, to) == task' = [task EXCEPT ![r] = to]
Ends(r, how) == Goes(r, [does |-> how])

\* The LIVE statement of a session's query runs in the datastore; the id of the
\* live query is that of the request.
Live(r) ==
  /\ Does(r, "none")
  /\ \E s \in attached \cup {None} :
       /\ running' = running \cup {r}
       /\ Goes(r, [does |-> "handle_live", session |-> s])
  /\ UNCHANGED <<options, granted, attached, live_queries, outrun, txVars>>

\* handle_live().
HandleLive(r) ==
  /\ Does(r, "handle_live")
  /\ live_queries' = live_queries \cup {<<r, task[r].session>>}
  /\ outrun' = IF task[r].session \in attached \cup {None} THEN outrun ELSE outrun \cup {r}
  /\ Ends(r, "ok")
  /\ UNCHANGED <<options, granted, attached, running, txVars>>

\* The KILL statement.
Kill(r) ==
  /\ Does(r, "none")
  /\ \E q \in running :
       /\ running' = running \ {q}
       /\ Goes(r, [does |-> "handle_kill", query |-> q])
  /\ UNCHANGED <<options, granted, attached, live_queries, outrun, txVars>>

\* handle_kill().
HandleKill(r) ==
  /\ Does(r, "handle_kill")
  /\ live_queries' = {e \in live_queries : e[1] # task[r].query}
  /\ Ends(r, "ok")
  /\ UNCHANGED <<options, granted, attached, running, outrun, txVars>>

\* What retain() collects for delete_queries().
Collected(lqs) == {e[1] : e \in lqs}

\* cleanup_lqs() of a session that is detached, up to its await.
Detach(r) ==
  /\ Does(r, "none")
  /\ \E s \in attached :
       LET gone == {e \in live_queries : e[2] = s} IN
       /\ attached' = attached \ {s}
       /\ live_queries' = live_queries \ gone
       /\ Goes(r, [does |-> "delete", queries |-> Collected(gone)])
  /\ UNCHANGED <<options, granted, running, outrun, txVars>>

\* cleanup_all_lqs(), up to its await.
CleanupAll(r) ==
  /\ Does(r, "none")
  /\ live_queries' = {}
  /\ Goes(r, [does |-> "delete", queries |-> Collected(live_queries)])
  /\ UNCHANGED <<options, granted, attached, running, outrun, txVars>>

\* kvs.delete_queries().
Delete(r) ==
  /\ Does(r, "delete")
  /\ running' = running \ task[r].queries
  /\ Ends(r, "ok")
  /\ UNCHANGED <<options, granted, attached, live_queries, outrun, txVars>>

-----------------------------------------------------------------------------

\* begin().
Begin(r) ==
  /\ Does(r, "none")
  /\ \E t \in Transactions :
       /\ tx[t] = "none"
       /\ tx' = [tx EXCEPT ![t] = "open"]
       /\ transactions' = transactions \cup {t}
  /\ Ends(r, "ok")
  /\ UNCHANGED <<options, granted, ends, liveVars>>

\* get_tx(): a query of a transaction shares it.
Query(r) ==
  /\ Does(r, "none")
  /\ \E t \in Transactions :
       /\ tx[t] # "none"
       /\ IF t \in transactions THEN Goes(r, [does |-> "query", tx |-> t]) ELSE Ends(r, "not found")
  /\ UNCHANGED <<options, granted, txVars, liveVars>>

\* The datastore refuses a statement in a transaction that is closed.
Statement(r) ==
  /\ Does(r, "query")
  /\ Ends(r, IF tx[task[r].tx] = "open" THEN "ok" ELSE "closed")
  /\ UNCHANGED <<options, granted, txVars, liveVars>>

\* transactions.remove().
TakesFromTable(t) == transactions' = transactions \ {t}

\* commit() and cancel(), up to their await.
CommitOrCancel(r) ==
  /\ Does(r, "none")
  /\ \E t \in Transactions, how \in {"commit", "cancel"} :
       /\ tx[t] # "none"
       /\ IF t \in transactions
            THEN TakesFromTable(t) /\ Goes(r, [does |-> how, tx |-> t])
            ELSE UNCHANGED transactions /\ Ends(r, "not found")
  /\ UNCHANGED <<options, granted, tx, ends, liveVars>>

\* tx.commit() or tx.cancel(); a conflict fails the commit, and closes it too.
EndsTransaction(r) ==
  /\ Does(r, "commit") \/ Does(r, "cancel")
  /\ LET t == task[r].tx IN
       /\ tx' = [tx EXCEPT ![t] = IF Does(r, "commit") THEN "committed" ELSE "cancelled"]
       /\ ends' = [ends EXCEPT ![t] = @ + 1]
  /\ \E how \in {"ok", "conflict"} : (how = "conflict" => Does(r, "commit")) /\ Ends(r, how)
  /\ UNCHANGED <<options, granted, transactions, liveVars>>

Next ==
  \E r \in Requests :
    \/ Live(r) \/ HandleLive(r) \/ Kill(r) \/ HandleKill(r)
    \/ Detach(r) \/ CleanupAll(r) \/ Delete(r)
    \/ Begin(r) \/ Query(r) \/ Statement(r) \/ CommitOrCancel(r) \/ EndsTransaction(r)

Spec == Init /\ [][Next]_vars

-----------------------------------------------------------------------------
(* Properties.                                                             *)

(* Each kind of capability is what its own option says, and a name that is *)
(* denied is never allowed: the same thirty lines are in options.rs once   *)
(* for every kind.                                                         *)
OptionsMean ==
  options \notin {Yes, No, None} =>
    \A k \in Kinds, name \in Names :
      LET allow == Given(options[k], "allow")
          deny  == Given(options[k], "deny")
      IN Allows(k, name) <=>
           /\ allow = None => k = "functions"
           /\ allow \notin {None, Yes} => allow # No /\ name \in allow
           /\ deny \notin {None, No} => deny # Yes /\ name \notin deny

(* No live query outlives its session, once the requests under way are     *)
(* done: the datastore runs a query only for a session that is attached,   *)
(* and knows it from the table.  The exception is a LIVE that was          *)
(* registered after the cleanup of its session had gone through the table. *)
NoLiveQueryEscapes ==
  (\A r \in Requests : ~Does(r, "handle_live") /\ ~Does(r, "handle_kill") /\ ~Does(r, "delete")) =>
    \A q \in running :
      /\ \E e \in live_queries : e[1] = q
      /\ q \notin outrun => \A e \in live_queries : e[1] = q => e[2] \in attached \cup {None}

(* A transaction is ended by one commit() or cancel(), whatever runs       *)
(* beside it, and what has ended is in the table no more.                  *)
EndsOnce ==
  \A t \in Transactions :
    /\ ends[t] <= 1
    /\ t \in transactions <=> /\ tx[t] = "open"
                              /\ \A r \in Requests : Does(r, "commit") \/ Does(r, "cancel") => task[r].tx # t
=============================================================================
