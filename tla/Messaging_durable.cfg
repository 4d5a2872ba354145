SPECIFICATION FairMessagingSpec
CONSTANTS
  Node = {v1, r1}
  Validators = {v1}
  Lossy = TRUE
  Slow = FALSE
  Senders = 2
  MaxNonce = 1
  BlockMaxTxs = 1
  MaxHeight = 2
  MaxCrashes = 0
  MaxPoolSize = 2
  Burst = 1
PROPERTIES
  ImplementsMempool
  
  
CHECK_DEADLOCK FALSE
