SPECIFICATION FairSpec
CONSTANTS
    MaxEntries = 2
    MaxAfter = 1
INVARIANTS
    OneContinuation
    WaitingIsReleased
    QueuedHasEntry
PROPERTIES
    ThoughtEnds
CHECK_DEADLOCK FALSE
