\* Two users, each on a connection of its own; no crash and no database error.
SPECIFICATION FairSpec
CONSTANTS
    t1 = t1
    t2 = t2
    u1 = u1
    u2 = u2
    f = f
    g = g
    Conns = {t1, t2}
    Users = {u1, u2}
    Names = {f}
    Contents = {c1}
    KeyedUsers = {u1}
    Serves <- OwnUser
    Like <- Prefix
    Faults = {"disk", "send"}
    NoName = NoName
    Garbage = Garbage
    Empty = Empty
    Torn = Torn
    NoData = NoData
    NoPath = NoPath
    NoReq = NoReq
    MaxPackets = 1
    MaxKeys = 1
    MaxIVs = 1
    MaxRows = 2
PROPERTY
    RequestCompletes
