CONSTANTS
    o1 = o1
    o2 = o2
    o3 = o3
    Orders <- MCOrders
    Addressed <- MCAddressed
    MaxLog = 3
    MaxCrashes = 1
    MaxFaults = 0
SPECIFICATION FairSpec
PROPERTY EveryOrderRecorded
CHECK_DEADLOCK FALSE
