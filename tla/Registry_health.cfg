SPECIFICATION FairRegSpec
CONSTANTS
  v1 = v1
  v2 = v2
  r1 = r1
  release = release
  Node = {v1, v2}
  Validators = {v1, v2}
  Relay = {r1}
  RegisterWith <- OneValidator
  Seeded <- SecondHasPeer
  Version = {release, fork}
  NoVersion = none
  Allowed <- OnlyRelease
  MaxFailures = 2
  MaxRestarts = 1
  MaxSlips = 1
INVARIANTS
  RegTypeOK
  MarkedForCause
  Vetted
  ProbedIsKnown
PROPERTIES
  
  SoundIsListed
CHECK_DEADLOCK FALSE
