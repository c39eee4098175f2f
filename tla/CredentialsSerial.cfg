SPECIFICATION Spec
CONSTANTS
  None = None
  Procs = {p1}
  Requests = {r1}
  Users = {alice, bob}
  Passwords = {x, y}
  MaxKeys = 2
  Deaths = FALSE
PROPERTIES
  ImplementsVault
  StartsWithWholeFile
