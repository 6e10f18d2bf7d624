SPECIFICATION FairSpec
CONSTANTS
  Conns = {c1, c2}
  MaxDrops = 1
  Starters = {s1, s2}
  Closers = {k1, k2}
  NoConn = NoConn
  NoStart = NoStart
INVARIANTS
  TypeOK
  NoConnectionLeak
  SingleRuntime
  CloseFencesStart
  ConnectedHasRuntime
  RefusedOnlyWhileBusy
PROPERTIES
  ImplementsLifecycle
  CallsReturn
  AbandonedDialsEnd
  HealthConverges
  ClosedInTheEnd
