SPECIFICATION Spec
CONSTANTS
  Replies <- MCReplies
  Fields <- MCFields
  Word <- MCWord
  MaxU64 <- MCMaxU64
INVARIANTS
  OutcomeBesideBackups
