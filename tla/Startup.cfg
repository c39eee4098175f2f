SPECIFICATION Spec
CONSTANTS
  None = None
  Servers = {s1, s2}
  Files <- MCFiles
  MaxEdits = 1
  MaxLines = 2
INVARIANTS
  TypeOK
  ServedConfIsNormal
  HandlersSeeConfig
  LogKept
CHECK_DEADLOCK FALSE
