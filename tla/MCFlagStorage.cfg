CONSTANTS
    Flags = {f1}
    Variants = {on, off}
    Editors = {e1, e2}
    MaxSent = 3
    MaxCrashes = 1
SPECIFICATION FairSpec
INVARIANTS
    FileIsState
PROPERTIES
    ImplementsDocument
    NoPageWaitsForever
CHECK_DEADLOCK FALSE
