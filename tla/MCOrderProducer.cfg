CONSTANTS
    Orders = {o1, o2, o3}
    Overload = 1
    Capacity = 2
    MaxFailed = 1
SPECIFICATION FairSpec
INVARIANTS
    TypeOK
    AnswersAddUp
PROPERTIES
    AnsweredUnlessLogged
    AcceptedUnlessFull
CHECK_DEADLOCK FALSE
