SPECIFICATION FairSpec
CONSTANTS
  Starters = {s1, s2}
  Closers = {k1}
  Hooks = {h1}
  Handlers = {m1}
  MaxContexts = 2
  MaxDue = 2
INVARIANTS
  ClientTypeOK
  EnabledHasContext
  StartedAtRest
  StoppedAtRest
PROPERTIES
  CanceledWhileDisabled
  HandlersToldToStop
