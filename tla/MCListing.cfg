SPECIFICATION Spec
CONSTANTS
  Owners = {ana, bob}
  DefaultLimit = 2
  MaxLimit = 2
  MaxOperations = 4
CHECK_DEADLOCK FALSE
INVARIANTS
  TypeOK
  MissesAreBounded
  OwnListIsComplete
  RepeatsNeedLateInserts
