SPECIFICATION ScanningSpec
CONSTANTS
  Gateway = {g1, g2}
  MaxHeight = 3
  Incoming = {1, 3}
  Own = {2}
  BatchSize = 2
  BufferSize = 1
INVARIANTS
  StoreTypeOK
  ScannedIsStored
  CopiesBounded
PROPERTIES
  StartRecovers
CHECK_DEADLOCK FALSE
