\* One connection of one user, two files and two contents, every fault.
SPECIFICATION Spec
CONSTANTS
    t1 = t1
    t2 = t2
    u1 = u1
    u2 = u2
    f = f
    g = g
    Conns = {t1}
    Users = {u1}
    Names = {f, g}
    Contents = {c1, c2}
    KeyedUsers = {}
    Serves <- OwnUser
    Like <- Exact
    Faults <- AllFaults
    NoName = NoName
    Garbage = Garbage
    Empty = Empty
    Torn = Torn
    NoData = NoData
    NoPath = NoPath
    NoReq = NoReq
    MaxPackets = 2
    MaxKeys = 1
    MaxIVs = 1
    MaxRows = 2
SYMMETRY SymmetricNames
INVARIANT
    UniqueVersions
    NoTornBackup
    ReportedIsStored
    TargetsLatest
PROPERTY
    NoOverwrite
    IsVersionedStore
