SPECIFICATION FairSpec
CONSTANTS
  None = None
  Threads = {t1, t2}
  Passwords = {p1, p2}
  Salts = {s1, s2}
INVARIANTS
  TypeOK
  LockDiscipline
  CacheCoherent
  ReturnsOwnKey
PROPERTIES
  ImplementsService
  SomeCallReturns
