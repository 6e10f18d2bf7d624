SPECIFICATION Spec
CONSTANTS
  Keys = {k1, k2}
  Subs = {s1, s2, s3}
  MaxID = 2
  MaxLosses = 2
  MaxHooks = 1
  Activators = {a1, a2}
  Starters = {a1}
  Deactivators = {}
  NoSub = NoSub
  NoKey = NoKey
SYMMETRY Symmetry
INVARIANTS
  IndexExact
  ServingAll
PROPERTIES
  OrphansByOverwriting
CHECK_DEADLOCK FALSE
