CONSTANTS
    MaxOutstanding = 1
    MaxBufferBytes = 6
    MaxEventBytes = 2
    MaxReplayEvents = 2
    MaxReplayBytes = 6
    EventSizes <- MCSmall
    MaxCommitted = 3
    MaxInFlight = 2
    MaxFaults = 1
    Sdks <- MCSdks
    QueueSize = 1
    MaxCatchUps = 1
    MaxUnsent = 1
SPECIFICATION FeedSpec
PROPERTIES RunIsConsumed
CHECK_DEADLOCK FALSE
