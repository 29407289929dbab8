\* One player and one thread that asks.
CONSTANTS
    Client = {c1}
    Movable = {}
    Delay = {0}
    TickLag = 1
    SliceTicks = 1
    SliceRounds = 1
    MaxThreads = 1
    MaxSequence = 1
    MaxTick = 1
SPECIFICATION Spec
INVARIANT SchedulerHasEarliestTask
CHECK_DEADLOCK FALSE
