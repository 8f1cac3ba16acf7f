SPECIFICATION FairSpec
CONSTANTS
  Daemons = {d1, d2}
  Nobody = Nobody
  MaxHandlers = 2
INVARIANTS
  ReadyWhenReachable
  ServingIsReachable
  NoSocketLeftBehind
PROPERTIES
  StaleIsNoObstacle
  LateComerYields
  SignalStops
