SPECIFICATION Spec
CONSTANTS
  A = A
  B = B
  ha = ha
  other = other
  X = X
  Y = Y
  Scans = {A, B}
  Homes = {ha, other}
  Home <- TwoHomes
  Buses = {X}
  BusOf <- SameBus
  Pauses <- AllPause
  PerBus = TRUE
  Last <- OneAddress
  Retries <- NoRetries
  MaxFaults = 1
  MaxTransit = 1
  Shared = Shared
  NoScan = NoScan
  NoProbe = NoProbe
CHECK_DEADLOCK FALSE
PROPERTY EarlyEndReported
