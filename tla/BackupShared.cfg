\* Two connections of one user, every fault.
SPECIFICATION Spec
CONSTANTS
    t1 = t1
    t2 = t2
    u1 = u1
    u2 = u2
    f = f
    g = g
    Conns = {t1, t2}
    Users = {u1}
    Names = {f}
    Contents = {c1}
    KeyedUsers = {u1}
    Serves <- AnyUser
    Like <- Prefix
    Faults <- AllFaults
    NoName = NoName
    Garbage = Garbage
    Empty = Empty
    Torn = Torn
    NoData = NoData
    NoPath = NoPath
    NoReq = NoReq
    MaxPackets = 2
    MaxKeys = 1
    MaxIVs = 1
    MaxRows = 2
SYMMETRY Symmetric
INVARIANT
    TypeOK
    BufferIncomplete
    VersionsContiguous
PROPERTY
    OrphansExplained
