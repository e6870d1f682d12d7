SPECIFICATION FairSpec

CONSTANTS
    Cap = 2
    Requests <- MCRequests
    ScratchLen = 2
    DrainMax = 3
    MaxIterations = 2
    Grace = 1
    UsPerMs = 2
    PollMax = 1
    Deadlines <- MCDeadlines
    MaxTime = 4
    MaxFrames = 2
    MaxArrivals = 3

INVARIANTS
    TypeOK
    WireMatchesSession
    TimeoutIsOwn
    PreflightVerdict

PROPERTY
    OperationEnds

CHECK_DEADLOCK FALSE
