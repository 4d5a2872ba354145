SPECIFICATION MessagingSpec
CONSTANTS
  Node = {v1, v2, r1}
  Validators = {v1, v2}
  Lossy = FALSE
  Slow = TRUE
  Senders = 1
  MaxNonce = 2
  BlockMaxTxs = 1
  MaxHeight = 2
  MaxCrashes = 1
  MaxPoolSize = 2
  Burst = 1
CONSTRAINT OneCrash
ACTION_CONSTRAINT Unhurried
SYMMETRY Symmetry
INVARIANTS
  MessagingTypeOK
  OneLedger
  OnlyDeathStrandsRelays
PROPERTIES
  ImplementsLog
CHECK_DEADLOCK FALSE
