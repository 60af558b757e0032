SPECIFICATION Spec
CONSTANTS
  Users = {u1}
  Provider = service
  ProviderFails = TRUE
  Ways = {"signin", "authenticate"}
  Root = root
  Forks = {fork}
  Lifetimes = {2}
  Refreshes = TRUE
  Margin = 1
  SkipRenewal = FALSE
  MaxDelay = 100
  Quiet = TRUE
  None = none
  MaxTime = 2
  MaxGrants = 2
  Handshakes = {h1, h2}
  First = h1
  MaxCalls = 2
INVARIANTS
  RenewedInTime
  ServerAgrees
  ChosenStaysUnraced
  NoBusyRenewal
CHECK_DEADLOCK FALSE
