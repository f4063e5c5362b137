SPECIFICATION Spec
CONSTANTS
  A = A
  B = B
  ha = ha
  other = other
  X = X
  Y = Y
  Scans = {A, B}
  Homes = {ha}
  Home <- OneHome
  Buses = {X, Y}
  BusOf <- TwoBuses
  Pauses <- OnlyAPauses
  PerBus = FALSE
  Last <- OneAddress
  Retries <- NoRetries
  MaxFaults = 0
  MaxTransit = 1
  Shared = Shared
  NoScan = NoScan
  NoProbe = NoProbe
CHECK_DEADLOCK FALSE
PROPERTIES
  ResultsDoNotCollide
  NoProbeOnceCancelled
