SPECIFICATION Spec
CONSTANTS
  Environment <- MCEnvironment
  ExactItems = 1
  UnionItems = 1
  Functions <- MCFunctions
  Texts <- MCTexts
  Results <- MCResults
CHECK_DEADLOCK FALSE
INVARIANTS StorageDescribed  MissingIsFlagged
