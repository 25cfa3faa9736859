CONSTANTS
  Schema <- Messages
  Services <- Methods
  Objects <- MCObjects
  MaxInt32 = 20
  MaxSafe = 40
  MaxSwaps = 2
SPECIFICATION Spec
INVARIANTS OnlyUnfitRefused RequestArrives AnswerArrives JsonKeepsMessage
