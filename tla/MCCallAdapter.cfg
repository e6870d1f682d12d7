SPECIFICATION FairSpec
CONSTANTS
    p1 = p1
    huge = huge
    none = none
    m1 = m1
    bad = bad
    NULL = NULL
    Payloads <- MCPayloads
    TooLong <- MCTooLong
    Metadata <- MCMetadata
    Invalid <- MCInvalid
    NoMetadata <- none
    MaxBatches = 3
    MaxDepth = 2
    MaxMessages = 2
INVARIANTS
    TypeOK
    RetryRepeatsRefused
    ProcessedAtMostOnce
    CredentialsMergedOnce
    DeliveredInOrder
PROPERTIES
    StatusFinal
    CancelIsFinal
    BatchReturns
