\* The ship is lost while the terminal is slow.
SPECIFICATION FairSpec
CONSTANTS
    ChanCap = 1
    Rocks = 1
    Slots = {1}
    Pages = 1
    Countdown = 1
    Calm = TRUE
    MaxStale = 1
    None = None
PROPERTIES
    LostShipIsShown
CHECK_DEADLOCK FALSE
