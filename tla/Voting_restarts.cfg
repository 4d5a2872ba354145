SPECIFICATION Spec
CONSTANTS
  N = 2
  Unstable = {0, 1}
  MaxHeight = 2
  MaxRound = 1
  MaxRestarts = 1
INVARIANTS
  TypeOK
  PrecommitBacked
  CertifiedChain
  StableAgreement
