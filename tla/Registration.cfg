SPECIFICATION FairSpec
CONSTANTS
  t1 = t1
  t2 = t2
  ann = ann
  bob = bob
  k1 = k1
  k2 = k2
  i1 = i1
  i2 = i2
  Conns = {t1, t2}
  Serves <- Apart
  Ids = {i1, i2}
  RoundIds = {}
  Usernames = {ann, bob}
  BadName = BadName
  PublicKeys = {k1}
  BadKey = BadKey
  Null = Null
  NoReq = NoReq
  Second = 1
  Window = 0
  MaxTime = 1
  MaxKeys = 2
  MaxClients = 2
  Faults <- AllFaults
INVARIANT NamesUnique
PROPERTY Answered
CHECK_DEADLOCK FALSE
