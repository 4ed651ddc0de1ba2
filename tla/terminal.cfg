\* One terminal, a channel of one, a belt of one contact.
SPECIFICATION FairSpec
CONSTANTS
    ChanCap = 1
    Rocks = 1
    Slots = {1, 2}
    Pages = 2
    Countdown = 2
    Calm = FALSE
    MaxStale = 1
    None = None
INVARIANTS
    TypeOK
    PortShowsTheSave
    SummaryTellsTheTruth
    JumpClockRuns
    ChoiceStaysWithItsSlot
PROPERTIES
    SurvivedRunIsShown
CHECK_DEADLOCK FALSE
