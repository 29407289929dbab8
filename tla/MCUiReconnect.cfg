\* Two sessions, a tiny owner queue, rejected events, replays and deferral.
CONSTANTS
    MaxSessions = 2
    MaxEvents = 2
    Kind = {"plain", "browser", "resource", "bad"}
    Capacity = 1
    MaxReplay = 1
    MaxDeferred = 2
SPECIFICATION Spec
INVARIANT SequencedInOrder
INVARIANT AppliedOnceInOrder
INVARIANT CurrentQueueIntact
CHECK_DEADLOCK FALSE
