CONSTANTS
    Calls = {c1, c2, c3}
    MaxDrops = 2
SPECIFICATION FairSpec
INVARIANTS
    TypeOK
    OneThreadConnects
PROPERTIES
    EveryCallEnds
    ServedAgain
CHECK_DEADLOCK FALSE
