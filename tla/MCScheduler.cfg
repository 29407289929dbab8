\* One player, one walker, slices of two ticks and two rounds.
CONSTANTS
    Client = {c1}
    Movable = {m1}
    Delay <- AllDelays
    TickLag = 2
    SliceTicks = 2
    SliceRounds = 2
    MaxThreads = 2
    MaxSequence = 4
    MaxTick = 3
SPECIFICATION FairSpec
INVARIANT OneContinuation
INVARIANT TailIsIdle
PROPERTY ImplementsTimerQueue
PROPERTY DueThreadRuns
CHECK_DEADLOCK FALSE
