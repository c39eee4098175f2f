SPECIFICATION Spec
CONSTANTS
  None = None
  Calls = {c1, c2}
  Users <- MCUsers
  MasterKeys = {k1, k2}
  ServerKey = k1
  CompressionSettings <- MCCompressionSettings
  EncryptionSettings <- MCEncryptionSettings
  MaxRewrites = 2
  MaxStarts = 2
INVARIANTS
  TypeOK
  NothingInClear
  FailsOnlyInTrouble
PROPERTIES
  ImplementsService
  NoClearFallback
  ShutdownDrains
CHECK_DEADLOCK FALSE
