SPECIFICATION Spec
CONSTANTS
  None = None
  Procs = {p1, p2}
  Requests = {r1}
  Users = {alice}
  Passwords = {x, y}
  MaxKeys = 3
  Deaths = TRUE
SYMMETRY Symmetric
INVARIANTS
  TypeOK
  SafeUnlessOverlapped
