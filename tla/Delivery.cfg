CONSTANTS
    MaxOutstanding = 2
    MaxBufferBytes = 3
    MaxEventBytes = 2
    MaxReplayEvents = 1
    MaxReplayBytes = 2
    EventSizes <- MCSizes
    MaxCommitted = 4
    MaxUnsent = 1
    MaxInFlight = 1
    MaxFaults = 1
SPECIFICATION Spec
INVARIANTS WindowBounded WindowAccounted NoSilentHole
PROPERTY ImplementsFeed
CHECK_DEADLOCK FALSE
VIEW MCView
