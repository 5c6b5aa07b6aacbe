CONSTANTS
  Tokens <- AllTokens
  MaxLen = 8
SPECIFICATION FairSpec
INVARIANTS TypeOK AcceptedIsSentence RefusedForGood
PROPERTY ParsesEnd
CHECK_DEADLOCK FALSE
