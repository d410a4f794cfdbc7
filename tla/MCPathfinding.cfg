SPECIFICATION SearchSpec
CONSTANTS
    Width = 4
    Height = 3
    MaxNodes = 8
    Starts <- LeftColumn
    NoTile = NoTile
INVARIANT
    TreeIsSound
PROPERTY
    ImplementsQuery
CHECK_DEADLOCK FALSE
