CONSTANTS
  Tabs = {t1, t2}
  Modules = {"Api", "CartDetail"}
  Currencies = {"USD", "EUR"}
  USD = "USD"
  None = None
  MaxLoads = 3
  MaxClears = 1
SYMMETRY Symmetry
SPECIFICATION SessionSpec
CHECK_DEADLOCK FALSE
INVARIANT SameUser
PROPERTIES UserKept
