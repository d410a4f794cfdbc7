SPECIFICATION FairSpec
CONSTANTS
    Worker = {w1, w2}
    Caller = caller
    Idle = idle
    Capacity = 4
    DrainLimit = 2
INVARIANTS
    CountersExact
    AssertsHold
    VisibleAdmitted
PROPERTIES
    IsLedger
    NoStarvation
    ShutdownEnds
