SPECIFICATION Spec
CONSTANTS
  N = 4
  Unstable = {1}
  MaxHeight = 1
  MaxRound = 0
  MaxRestarts = 1
INVARIANT RoundAgreement
