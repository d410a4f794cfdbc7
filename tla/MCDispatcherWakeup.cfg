SPECIFICATION FairWakeupSpec
CONSTANTS
    Publisher = {a, b}
    Slices = 1
INVARIANTS
    SleepsOverNothing
    FlagCoversInbox
PROPERTIES
    PublishedIsMerged
    CompletionsAreTaken
    ShutdownIsSeen
