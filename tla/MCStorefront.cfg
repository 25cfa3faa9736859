CONSTANTS
  Currencies = {USD, EUR}
  None = {1000}
  MaxRequests = 2
  MaxTroubles = 1
SYMMETRY Symmetry
SPECIFICATION Spec
INVARIANTS TypeOK ShownIsCart PaidOnce
PROPERTIES FormKept
