SPECIFICATION Spec
CONSTANTS
  Keys = {k1}
  Subs = {s1, s2, s3}
  MaxID = 1
  MaxLosses = 1
  MaxHooks = 1
  Activators = {a1, a2}
  Starters = {a1}
  Deactivators = {}
  NoSub = NoSub
  NoKey = NoKey
SYMMETRY Symmetry
INVARIANTS
  OneLivePerIntent
CHECK_DEADLOCK FALSE
