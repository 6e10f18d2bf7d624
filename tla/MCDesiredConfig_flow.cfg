SPECIFICATION FairSpec
CONSTANTS
  Calls = {c1, c2, c3}
  Silent = {c3}
  Agents = {a}
  NoCall = NoCall
  MaxCrashes = 1
CHECK_DEADLOCK FALSE
INVARIANTS
  NotifiedIsStored
  AcceptedIsDurable
  ReconciledKnows
PROPERTIES
  ImplementsSlot
  AcceptedBecomesKnown
