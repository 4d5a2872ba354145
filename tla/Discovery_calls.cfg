SPECIFICATION DiscSpec
CONSTANTS
  Gateway = {g1, g2}
  Bootstrap = {g1, g2}
  Answers = {{g1}}
  Listener = {listen}
  Sender = {send}
  Connection = {k1, k2, k3, k4}
  None = none
  MaxOutages = 2
  MaxCalls = 3
INVARIANTS
  DiscTypeOK
  OneDialIsSafe
PROPERTIES
  ListenRecovers
  ExpiredReturns
CHECK_DEADLOCK FALSE
