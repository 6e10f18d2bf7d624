SPECIFICATION Spec
CONSTANTS
  Configs <- SomeConfigs
  Names <- SomeNames
  None = None
  Refused = Refused
CHECK_DEADLOCK FALSE
INVARIANTS
  SentIsRead
  StoredIsUsable
  AddresseesApart
  KindsApart
  CallsBounded
