CONSTANTS
    Requests = {r1, r2}
    Adds = {a1, a2}
    Users = {u1, u2}
    Products = {p1}
    Overload = 1
    MaxQuantity = 2
    MaxFaults = 1
SPECIFICATION Spec
INVARIANTS
    TypeOK
    FlightInv
    NothingBoughtWhenEmpty
    BoughtWasAdded
    UnitsConserved
PROPERTY ImplementsSaga
CHECK_DEADLOCK FALSE
SYMMETRY Symm
