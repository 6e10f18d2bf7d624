SPECIFICATION FairSpec
CONSTANTS
  Watches = {w1}
  Stoppers = {s1, s2}
  Closers = {k1, k2}
  NoWatch = NoWatch
  MaxUpdates = 2
INVARIANTS
  NoStrayConsumer
  StoppedByOne
  StopIsFinal
PROPERTIES
  WatchCallsReturn
  WatchesEndWithConnection
