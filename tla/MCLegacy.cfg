SPECIFICATION FairSpec
CONSTANTS
  Last = 2
  Retries = 1
  NumCore = 2
  Fresh = 1
  VerifyLimit = 2
  ElapsedLimit = 3
  ClockMod = 6
  SeqMod = 4
INVARIANTS
  TypeOK
  RecoveryTrue
PROPERTY
  EveryScanReturns
