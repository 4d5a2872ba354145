SPECIFICATION AppSpec
CONSTANTS
  a = a
  b = b
  Identity = {a, b}
  NoIdentity = none
  Torn = torn
  MaxHeight = 1
  MaxSessions = 2
  MaxQuits = 1
  MaxKills = 1
SYMMETRY Alike
INVARIANTS
  AppTypeOK
  ChatsAreOwn
  ChatsMatchWallet
PROPERTIES
  PhraseIsKept
  StoppedStaysSilent
CHECK_DEADLOCK FALSE
