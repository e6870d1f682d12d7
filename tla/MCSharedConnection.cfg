CONSTANTS
    key1 = key1
    key2 = key2
    conn1 = conn1
    conn2 = conn2
    call1 = call1
    call2 = call2
    NULL = NULL
    Keys = {key1}
    Conns = {conn1}
    Calls = {call1, call2}
    Deadlined = {call1, call2}
    MaxPersistent = 1
    MaxStreamId = 2
SPECIFICATION Spec
SYMMETRY Symmetry
INVARIANTS
    TypeOK
    OwnershipInv
    SessionAgrees
    SourceLifetime
    DeadNeverDriven
    NoStaleErrorDetail
    UnusableEvicted
PROPERTIES
    NewStreamsOnlyOnUsable
