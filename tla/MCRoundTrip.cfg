SPECIFICATION SavedSpec
CONSTANTS
    ItemIds <- MCItemIds
    Kinds <- MCKinds
    MaxStack <- MCMaxStack
    Slots <- MCSlots
    SlotsOf <- MCSlotsOf
    Pickupable <- MCKinds
    Capacity = 2
    Positions = {"p1", "p2"}
    WorldIds <- MCWorldIds
    DefaultId <- MCDefaultId
    Placements <- MCPlacements
    Starter <- MCStarter
    NoItem = NoItem
    NoSave = NoSave
PROPERTY
    RoundTrip
