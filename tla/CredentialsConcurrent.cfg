SPECIFICATION Spec
CONSTANTS
  None = None
  Procs = {p1, p2}
  Requests = {r1}
  Users = {alice, bob}
  Passwords = {x}
  MaxKeys = 1
  Deaths = TRUE
SYMMETRY Symmetric
INVARIANTS
  SafeUnlessOverlapped
  LoginsUseOwnPassword
PROPERTIES
  DamageIsFinal
