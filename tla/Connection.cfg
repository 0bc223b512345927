SPECIFICATION Spec
CONSTANTS
  Uuids <- SomeUuids
  Width <- SmallWidth
  ResponseWidth <- SmallResponseWidth
  KeyLen = 1
  None = None
  Codes <- SomeCodes
  MaxChunk = 1
  MaxRequests = 2
INVARIANT TypeOK
INVARIANT InStep
INVARIANT ClientInStep
INVARIANT IdEchoed
PROPERTY EveryRequestHandled
PROPERTY ThreadEnds
CHECK_DEADLOCK FALSE
