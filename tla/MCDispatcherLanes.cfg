SPECIFICATION FairSpec
CONSTANTS
    x = x
    s = s
    c = c
    p = p
    Thread = {a}
    Task <- MCTask
    Lane = {"serial", "barrier"}
    Background = {"serial"}
    Fair = {"serial"}
    Parallel = {"barrier"}
    LaneOf <- MCLaneOf
    ProducerOf <- MCProducerOf
    Timed = {s, c}
    Cycle = {c}
    LaneCapacity = 2
    LaneBudget = 2
    MaxInbox = 2
INVARIANTS
    SlotsExact
PROPERTIES
    StoppedNeverRuns
    ProducerOrder
    AcceptedRuns
CHECK_DEADLOCK FALSE
