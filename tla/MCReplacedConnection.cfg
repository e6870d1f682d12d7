CONSTANTS
    key1 = key1
    key2 = key2
    conn1 = conn1
    conn2 = conn2
    call1 = call1
    call2 = call2
    NULL = NULL
    Keys = {key1, key2}
    Conns = {conn1, conn2}
    Calls = {call1, call2}
    Deadlined = {call1, call2}
    MaxPersistent = 1
    MaxStreamId = 1
SPECIFICATION Spec
SYMMETRY Symmetry
INVARIANTS
    NoDanglingConnection
    NoLeakedConnection
