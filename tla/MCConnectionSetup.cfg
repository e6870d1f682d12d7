SPECIFICATION Spec

CONSTANTS
    Channels = {ch1, ch2}
    CredObjects = {o1, o2}
    host = host
    name = name
    pem = pem
    Texts <- MCTexts
    NULL = NULL
    EMPTY = EMPTY
    SslArguments <- MCSslArguments
    ChannelOptions <- MCChannelOptions
    MaxCached = 2
    MaxAddresses = 2

INVARIANTS
    TypeOK
    SettingsMatch
    NoHandleLeak
    ServedReady

SYMMETRY MCSymmetry
