SPECIFICATION PageSpec
CONSTANTS
  Catalog <- MCCatalog
  Comma = 0
  MaxResponses = 2
  MaxShown = 1
  Lists <- MCLists
  MaxQuestions = 2
INVARIANTS
  AnswersThePage
  SuggestsOthers
  PercentsAddUp
