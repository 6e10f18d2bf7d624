SPECIFICATION Spec
CONSTANTS
  Keys = {k1}
  Subs = {s1, s2, s3}
  MaxID = 1
  MaxLosses = 0
  MaxHooks = 1
  Activators = {a1}
  Starters = {a1}
  Deactivators = {d1}
  NoSub = NoSub
  NoKey = NoKey
SYMMETRY Symmetry
INVARIANTS
  ServingAll
