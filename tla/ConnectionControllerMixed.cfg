SPECIFICATION MixedSpec
CONSTANTS
  MaxEngines = 3
  MaxSockets = 2
INVARIANTS
  LatestConnectWins
  CarefulConnection
PROPERTIES
  EnginesAsPromised
  CloseReturns
CHECK_DEADLOCK FALSE
