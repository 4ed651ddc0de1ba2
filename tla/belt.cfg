\* An unarmed hauler: jammer, EMP, low hull, every random event.
SPECIFICATION Spec
CONSTANTS
    Hold = 4
    Volumes = {5}
    Tank = 6
    MaxHull = 2
    ShieldMax = 0
    BurstReturn = 0
    EventGate = 2
    Kinds = {"outage", "blackout", "life", "shift", "surge"}
    Starts = {3}
    JamCharges = 1
    JamTicks = 1
    EmpLaunchers = 1
    EmpTicks = 2
    Laser = FALSE
    Cannon = 0
    Missiles = 0
    PirateHull = 1
    PirateHit = 1
    LaserHit = 1
    MissileHit = 1
    Points = 1
    FuelMiner = 1
    DockRepair = 1
    StableTicks = 0
    BaseEscape = 4
    CargoEscape = 4
    FuelOutCap = 4
    Budget = 16
    MaxVouchers = 1
INVARIANTS
    TypeOK
    CargoAccounted
    NoDeadShipFlies
    PaidPiratesLeave
    OutcomeTruthful
PROPERTIES
    OreNeverAppears
    AbandonedRunEnds
