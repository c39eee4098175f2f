SPECIFICATION Spec
CONSTANTS
  Tools <- MCTools
  Known <- MCKnown
  MaxCalls = 1
  max_tool_rounds = 2
  MaxPrompts = 1
INVARIANTS
  TextIsForced
