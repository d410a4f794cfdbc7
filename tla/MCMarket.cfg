SPECIFICATION FairSpec
CONSTANTS
    ann = ann
    bob = bob
    Player = {ann, bob}
    Id = {1, 2}
    MaxAmount = 2
    Prices = {1, 2}
    Fee = 1
    MaxOffers = 2
    Purse <- MCPurse
    Stash <- MCStash
    Locker <- MCLocker
    MaxBatches = 2
    PartialInFlight = FALSE
PROPERTIES
    NothingIsCloned
    TradesArePaid
    ExpiredReturn
CHECK_DEADLOCK FALSE
