\* One client on one connection, three uploads of a file that may change, every fault.
SPECIFICATION SessionSpec
CONSTANTS
    t1 = t1
    u1 = u1
    Conns = {t1}
    Line = t1
    Users = {u1}
    Owner = u1
    Names = {f}
    Contents = {c1, c2}
    KeyedUsers = {}
    Serves <- OwnUser
    Like <- Exact
    Faults <- AllFaults
    NoName = NoName
    Garbage = Garbage
    Empty = Empty
    Torn = Torn
    NoData = NoData
    NoPath = NoPath
    NoReq = NoReq
    MaxPackets = 2
    MaxKeys = 1
    MaxIVs = 3
    MaxRows = 3
    MaxAttempts = 3
INVARIANT
    VerifiedWasConfirmed
    NeverMixed
    RefusedOnlyAfterGivingUp
PROPERTY
    UploadAnswered
CHECK_DEADLOCK FALSE
