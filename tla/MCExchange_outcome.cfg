SPECIFICATION Spec
CONSTANTS
  Configs <- PlainConfigs
  Names <- SomeNames
  None = None
  Refused = Refused
CHECK_DEADLOCK FALSE
INVARIANT
  OutcomeNamesConfig
