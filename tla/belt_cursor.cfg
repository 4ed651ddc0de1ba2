\* A docked pilot flies to a belt of two contacts and mines the last one out.
SPECIFICATION FromDock
CONSTANTS
    ChanCap = 1
    Rocks = 2
    Slots = {1}
    Pages = 1
    Countdown = 1
    Calm = TRUE
    MaxStale = 1
    None = None
INVARIANTS
    BeltKeysHitARock
CHECK_DEADLOCK FALSE
