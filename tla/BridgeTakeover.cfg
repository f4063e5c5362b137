SPECIFICATION FairSpec
CONSTANTS
  A = A
  B = B
  ha = ha
  other = other
  X = X
  Y = Y
  Scans = {A, B}
  Homes = {ha}
  Home <- OneHome
  Buses = {X}
  BusOf <- SameBus
  Pauses <- AllPause
  PerBus = TRUE
  Last <- AScansTwo
  Retries <- BRetries
  MaxFaults = 2
  MaxTransit = 1
  Shared = Shared
  NoScan = NoScan
  NoProbe = NoProbe
CHECK_DEADLOCK FALSE
INVARIANTS
  TypeOK
PROPERTIES
  ScansUndisturbed
  NothingHeldAfterReturn
  EarlyEndReported
  EveryScanReturns
