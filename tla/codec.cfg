\* Rows of all eight versions, two hulls, one of which may be retired.
SPECIFICATION Spec
CONSTANTS
    Models <- TwoModels
    Catalogs <- TwoCatalogs
    StartFuel = 2
    MaxHull = 2
    TankSize = 1
    Refund = 1
    Rows <- AllRows
    None = None
INVARIANTS
    LoadedIsWhole
    ReloadIsFaithful
PROPERTY
    HoldingsSurvive
CHECK_DEADLOCK FALSE
