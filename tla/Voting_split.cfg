SPECIFICATION Spec
CONSTANTS
  N = 4
  Unstable = {}
  MaxHeight = 1
  MaxRound = 1
  MaxRestarts = 0
INVARIANT Agreement
