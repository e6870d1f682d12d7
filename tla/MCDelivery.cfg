CONSTANTS
    Scripts <- DeliveryScripts
    Fields <- DeliveryFields
    HttpStatuses = {200}
    ResetCodes = {"NO_ERROR"}
    MaxChunk = 13
    MaxReceive = 2
    MaxMetadata = 1
    MaxReadAheadMessages = 2
    MaxReadAheadBytes = 1
SPECIFICATION Spec
INVARIANTS
    TypeOK
    ParserExact
    OkMeansWhole
PROPERTIES
    ReadAheadBounded
    NoMessageAfterViolation
    MeetsContract
