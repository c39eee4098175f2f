SPECIFICATION Spec
CONSTANTS
  MaxInFlight = 2
INVARIANTS
  TypeOK
  SaslIsMutual
  HandshakeBounded
PROPERTIES
  HandshakeEnds
CHECK_DEADLOCK FALSE
