CONSTANTS
    MaxSessions = 2
    MaxSlices = 2
SPECIFICATION FairSpec
INVARIANT NobodyWaitsForBoot
INVARIANT NeverRefused
INVARIANT InteractiveIsEarned
INVARIANT ReadyIsInteractive
PROPERTY EveryRequestAnswered
PROPERTY LobbyClientsEnabled
CHECK_DEADLOCK FALSE
