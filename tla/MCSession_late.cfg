SPECIFICATION Spec
CONSTANTS
  Conns = {c1, c2}
  MaxDrops = 1
  Starters = {s1}
  Closers = {k1, k2}
  NoConn = NoConn
  NoStart = NoStart
PROPERTY
  NoLateRuntime
