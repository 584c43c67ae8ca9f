SPECIFICATION FairSpec
CONSTANTS
    Protected = {"p"}
    MainPatches = {"m1", "m2"}
    BlockerPatches = {"b2"}
    Clashing = {"m2"}
    WaitTicks = 1
    MaxEvents = 2
INVARIANTS
    TypeOK
    ReviewerWorkKept
    GreenMeansThisHead
PROPERTIES
    OwnWorkKept
    RemovalLosesNothing
    MergedBaseIsLeft
    WorkShips
    BaseMoveIsAnswered
