SPECIFICATION SavedFairSpec
CONSTANTS
    Actors <- MCActors
    Player = "player"
    Walker = "villager"
    Mortal = {"player"}
    Nobody = Nobody
    NoStep = NoStep
    Ground <- MCGround
    Solid <- MCSolid
    DoorAt <- MCDoorAt
    DoorOpen <- MCDoorOpen
    StairTo <- MCStairTo
    Home <- MCHome
    HomeFacing <- MCHomeFacing
    Goal <- MCGoal
    Supplied <- NoRoutes
    StepFrames = 2
    MaxRoute = 4
    NoSave = NoSave
    SavedOn <- InTheDoorway
INVARIANTS
    OccupancyExact
    NobodyShutIn
    DrawnWhereItGoes
PROPERTIES
    MovesAreLegal
    MotionSettles
