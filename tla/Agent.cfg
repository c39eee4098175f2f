SPECIFICATION FairSpec
CONSTANTS
  Tools <- MCTools
  Known <- MCKnown
  MaxCalls = 2
  max_tool_rounds = 2
  MaxPrompts = 2
INVARIANTS
  TypeOK
  RoundsBounded
PROPERTIES
  ImplementsTranscript
  PromptEnds
