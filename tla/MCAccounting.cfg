CONSTANTS
    o1 = o1
    o2 = o2
    o3 = o3
    Orders <- MCOrders
    Addressed <- MCAddressed
    MaxLog = 4
    MaxCrashes = 2
    MaxFaults = 1
SPECIFICATION FairSpec
INVARIANTS
    TypeOK
    NothingForgotten
    RecordedUnlessFaulty
PROPERTIES
    ImplementsLedger
    PoisonedUntilRestart
    NeverStuck
CHECK_DEADLOCK FALSE
