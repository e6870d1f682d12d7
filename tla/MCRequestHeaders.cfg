SPECIFICATION Spec

CONSTANTS
    LongMax = 63
    MaxValue = 3
    MilliUs = 2
    SecondUs = 4
    MinuteUs = 8
    HourUs = 16
    Metadata <- MCMetadata
    UserAgents = {"", "agent"}
    TimeoutArgs <- MCTimeoutArgs
    MaxTime = 3
    InlineCapacity = 9
    MaxMetadata = 11

INVARIANTS
    TypeOK
    HeadersExact
    TimeoutMatchesDeadline
    MetadataRoundTrip

CHECK_DEADLOCK FALSE
