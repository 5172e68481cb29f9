SPECIFICATION FairSpec
CONSTANTS
  Rooms = {r1}
  Commands = {c1}
  SendMaxAttempts = 3
  StaleAfter = 1
INVARIANTS
  SInv
  EncryptionJudged
  CommandsOnce
PROPERTIES
  SyncTroubleNoticed
