CONSTANTS
  Tokens <- AllTokens
  MaxLen = 8
SPECIFICATION Spec
INVARIANT GroupingTaken
CHECK_DEADLOCK FALSE
