SPECIFICATION Spec
CONSTANTS
  Default = "default"
  MaxFails = 3
INVARIANTS
  TypeOK
  NeverHalfRebuilt
  NothingLost
  ReadyIsComplete
PROPERTIES
  Migrated
