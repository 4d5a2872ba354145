SPECIFICATION TimelySpec
CONSTANTS
  N = 4
  Dead = {2}
  Unstable = {}
  MaxHeight = 3
  MaxRound = 1
  MaxRestarts = 0
PROPERTY EveryoneCommits
