SPECIFICATION FairSpec
CONSTANTS
  MaxScans = 2
  Gateways = {g}
  Buses = {X, Y}
  Selectable = {g}
  NoBus = NoBus
  Addresses = {1}
  MaxHistory = 1
  Callers = {stop, unload}
  NoScan = NoScan
INVARIANTS
  TypeOK
  RecordsAgree
  QuietAfterShutdown
PROPERTIES
  OutcomeFinal
  ImplementsSlots
  EverythingEnds
