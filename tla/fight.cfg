\* A warship: laser, autocannon, missile and shield; an unstable belt.
SPECIFICATION Spec
CONSTANTS
    Hold = 2
    Volumes = {2}
    Tank = 4
    MaxHull = 2
    ShieldMax = 3
    BurstReturn = 2
    EventGate = 0
    Kinds = {}
    Starts = {1, 2}
    JamCharges = 0
    JamTicks = 0
    EmpLaunchers = 0
    EmpTicks = 0
    Laser = TRUE
    Cannon = 2
    Missiles = 1
    PirateHull = 5
    PirateHit = 2
    LaserHit = 1
    MissileHit = 2
    Points = 1
    FuelMiner = 0
    DockRepair = 0
    StableTicks = 2
    BaseEscape = 4
    CargoEscape = 4
    FuelOutCap = 4
    Budget = 16
    MaxVouchers = 2
INVARIANTS
    NoDeadShipFlies
    BurstShieldStaysWeak
PROPERTIES
    VouchersAreKept
