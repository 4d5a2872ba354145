SPECIFICATION MempoolSpec
CONSTANTS
  Node = {n1}
  Senders = 2
  MaxNonce = 2
  BlockMaxTxs = 2
  MaxHeight = 2
  MaxCrashes = 1
  MaxPoolSize = 2
  Burst = 1
INVARIANTS
  NoReplay
  WatermarkCovers
  CommittedLeavesPool
PROPERTY FloorNeverFalls
CHECK_DEADLOCK FALSE
