SPECIFICATION Spec
CONSTANTS
  ClarifyMaxTurns = 1
  MaxTurns = 4
  NoCase = NoCase
CHECK_DEADLOCK FALSE
INVARIANTS
  TurnNumbersAreUnique
  SavedBeforeSent
PROPERTIES
  NothingLost
  ImplementsReplyFlow
