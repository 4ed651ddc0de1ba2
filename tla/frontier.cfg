\* Two systems and the gate between them: ratings, jumps, ferries, losses.
SPECIFICATION Spec
CONSTANTS
    Systems <- GateSystems
    NeedRating <- GateNeed
    Gates <- GateSet
    Worlds <- GateWorlds
    Models <- GateModels
    Items <- NoItems
    Ratings <- GateRatings
    Tracks = {"hull", "power"}
    MaxGrade = 1
    StartFuel = 2
    StartHull = 1
    StartCredits = 1
    StartRating = 1
    LegacyCargo = 1
    RefuelPerPoint = 1
    RepairPerPoint = 1
    FerryMarkup = 2
    SalvageAdvance = 1
    SalvageThreshold = 1
    MaxCredits = 2
    MaxDevices = 0
    MaxShips = 2
    MaxSkiffs = 1
    MaxVouchers = 0
INVARIANTS
    ActiveIsHere
    FleetWithinReach
PROPERTIES
    OriginsAccounted
    LossTakesOneHull
CHECK_DEADLOCK FALSE
