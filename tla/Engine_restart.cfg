SPECIFICATION EngineSpec
CONSTANTS
  N = 2
  Dead = {}
  Unstable = {1}
  MaxHeight = 2
  MaxRound = 1
  MaxRestarts = 1
CONSTRAINT FewSetbacks
ACTION_CONSTRAINT NoLateMail
INVARIANTS
  MailOK
  FirstVoteCounts
  EarlyMailIsKept
PROPERTY ImplementsVoting
