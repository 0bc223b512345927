SPECIFICATION Spec
CONSTANTS
  t1 = t1
  t2 = t2
  ann = ann
  bob = bob
  k1 = k1
  k2 = k2
  i1 = i1
  i2 = i2
  Conns = {t1, t2}
  Serves <- Together
  Ids = {i1, i2}
  RoundIds = {i2}
  Usernames = {ann}
  BadName = BadName
  PublicKeys = {k1, k2}
  BadKey = BadKey
  Null = Null
  NoReq = NoReq
  Second = 2
  Window = 2
  MaxTime = 3
  MaxKeys = 2
  MaxClients = 2
  Faults <- AllFaults
INVARIANT TypeOK
 
INVARIANT KeyIsCurrent
 
SYMMETRY Symmetry
CHECK_DEADLOCK FALSE
