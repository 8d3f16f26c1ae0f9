SPECIFICATION StartSpec
CONSTANT WIFI_CONTROLLER_RETRY_MAX = 5
CHECK_DEADLOCK FALSE
INVARIANTS
  NeverAbandoned
  ClientAfterAddress
PROPERTIES
  ReturnsOrKeepsTrying
  BootCompletes
  StationKeptUp
