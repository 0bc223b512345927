SPECIFICATION Spec
CONSTANTS
  Uuids <- RoundUuids
  Width <- SmallWidth
  ResponseWidth <- SmallResponseWidth
  KeyLen = 1
  None = None
  Codes <- SomeCodes
  MaxChunk = 0
  MaxRequests = 2
INVARIANT IdPreserved
CHECK_DEADLOCK FALSE
