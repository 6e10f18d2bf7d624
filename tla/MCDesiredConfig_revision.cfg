SPECIFICATION Spec
CONSTANTS
  Calls = {c1, c2}
  Silent = {}
  Agents = {a}
  NoCall = NoCall
  MaxCrashes = 0
CHECK_DEADLOCK FALSE
INVARIANTS
  RevisionNamesEntry
