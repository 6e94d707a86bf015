CONSTANTS
    MaxOutstanding = 2
    MaxBufferBytes = 6
    MaxEventBytes = 2
    MaxReplayEvents = 2
    MaxReplayBytes = 2
    EventSizes <- MCAnySize
    MaxCommitted = 4
    MaxInFlight = 2
    MaxFaults = 1
    Sdks <- MCSdks
    QueueSize = 2
    MaxCatchUps = 1
    MaxUnsent = 1
SPECIFICATION FeedSafety
INVARIANT FeedTypeOK
PROPERTY FeedIsSound
CHECK_DEADLOCK FALSE
VIEW MCView
