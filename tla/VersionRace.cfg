\* Two connections of one user and no fault.
SPECIFICATION Spec
CONSTANTS
    t1 = t1
    t2 = t2
    u1 = u1
    u2 = u2
    f = f
    g = g
    Conns = {t1, t2}
    Users = {u1}
    Names = {f}
    Contents = {c1}
    KeyedUsers = {u1}
    Serves <- AnyUser
    Like <- Prefix
    Faults = {}
    NoName = NoName
    Garbage = Garbage
    Empty = Empty
    Torn = Torn
    NoData = NoData
    NoPath = NoPath
    NoReq = NoReq
    MaxPackets = 1
    MaxKeys = 1
    MaxIVs = 1
    MaxRows = 2
INVARIANT
    UniqueVersions
