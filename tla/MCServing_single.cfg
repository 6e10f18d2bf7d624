SPECIFICATION WatchedSpec
CONSTANTS
  Keys = {k1, k2}
  Subs = {s1, s2, s3}
  MaxID = 2
  MaxLosses = 1
  MaxHooks = 2
  Activators = {a1}
  Starters = {a1}
  Deactivators = {d1}
  NoSub = NoSub
  NoKey = NoKey
SYMMETRY Symmetry
INVARIANTS
  SubsTypeOK
  NoOrphan
  OneLivePerIntent
  CountsSettle
  ServingUncrossed
