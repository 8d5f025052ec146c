CONSTANTS
    TIME_NEAR = 2
    TIME_LEVEL = 2
    TIME_SLOT_LEN = 10
    Waits = {5, 19, 20, 50, 90}
    MaxTimers = 2
    MaxNow = 17
    MaxLag = 3
SPECIFICATION FairSpec
INVARIANTS PlacedAsIfNew CalledOnTime SafeBelowHorizon TicksFollowClock
PROPERTIES DueTimersCalled
CHECK_DEADLOCK FALSE
