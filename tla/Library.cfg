SPECIFICATION LibrarySpec
CONSTANTS
  Statements = {1, 2, 3}
  Modes = {"collect", "responses", "stream"}
  Selections <- SomeSelections
  RetryOptions <- SomeRetryOptions
  MaxThens = 2
  MaxFailures = 3
  Calls = {c1, c2}
  Namespaces = {n1}
  Settings = {x1}
  Users = {u1}
  MaxEngines = 2
  Requests = {r1, r2, r3, r4}
  Sessions = {s1}
  Transactions = {t1}
  Names = {"a", "b"}
  ConnectOptions <- SomeOptions
  Yes = Yes
  No = No
  Items <- SomeItems
  Events = {"e1", "e2"}
  Listeners = {"l1", "l2"}
  Firsts = {"f1"}
  MaxSteps = 4
  MaxDepth = 2
  Radix = 4
  TargetScale = 2
  MaxNum = 600
  MaxScale = 3
  Undefined = Undefined
  JsNull = JsNull
  MaxValues = 5
  MaxNexts = 5
  Prompt = FALSE
  BuilderKinds = {"select", "create", "update", "upsert", "insert", "relate", "delete", "run", "live", "api", "auth"}
  MaxBuilders = 3
  MaxBound = 2
  MaxLength = 5
  MaxFrames = 3
  Delta = "delta"
  Keep = "keep"
  Last = "last"
  Sentinel = "sentinel"
  Thousand = 2
  Sixty = 2
  HoursPerDay = 2
  DaysPerWeek = 2
  DaysPerYear = 5
  Grain = 2
  MaxSpan = 340
  MaxTime = 40
  Amounts = {0, 1, 3, 7, 13}
INVARIANTS
  AnswersAreWhole
  RetriedSafely
  ActsAsSession
  TablesAreKept
  DiagnosticsAreTransparent
  ListenersHearOnce
  InOrder
  SaysWhatWasMeant
  ChunksAsSaid
  InstantsAreExact
  ReadsWhatWasMeant
  ValuesAreExact
CHECK_DEADLOCK FALSE
