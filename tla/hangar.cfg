\* One yard, two hulls, every kind of device.
SPECIFICATION Spec
CONSTANTS
    Systems <- YardSystems
    NeedRating <- YardNeed
    Gates = {}
    Worlds <- YardWorlds
    Models <- YardModels
    Items <- YardItems
    Ratings <- YardRatings
    Tracks = {"hull", "power"}
    MaxGrade = 0
    StartFuel = 1
    StartHull = 1
    StartCredits = 2
    StartRating = 0
    LegacyCargo = 0
    RefuelPerPoint = 1
    RepairPerPoint = 1
    FerryMarkup = 2
    SalvageAdvance = 1
    SalvageThreshold = 0
    MaxCredits = 2
    MaxDevices = 2
    MaxShips = 2
    MaxSkiffs = 1
    MaxVouchers = 0
INVARIANTS
    TypeOK
    CargoFits
    LoadoutsAreLegal
PROPERTIES
    NoShipyardProfit
CHECK_DEADLOCK FALSE
