\* One session, an owner queue that holds MaxDeferred and two batches, no
\* rejected events.
CONSTANTS
    MaxSessions = 1
    MaxEvents = 4
    Kind = {"plain", "browser", "resource"}
    Capacity = 11
    MaxReplay = 2
    MaxDeferred = 3
SPECIFICATION FairSpec
INVARIANT NoEventLost
PROPERTY ReplayStable
PROPERTY EveryEventHandled
CHECK_DEADLOCK FALSE
