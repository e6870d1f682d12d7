CONSTANTS
    Scripts <- Compressed
    Fields <- ClassificationFields
    HttpStatuses = {200, 503}
    ResetCodes = {"REFUSED_STREAM"}
    MaxChunk = 5
    MaxReceive = 1
    MaxMetadata = 2
    MaxReadAheadMessages = 1
    MaxReadAheadBytes = 1
SPECIFICATION Spec
INVARIANTS
    InvalidContentTypeReset
