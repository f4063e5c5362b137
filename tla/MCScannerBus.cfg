SPECIFICATION FairSpec
CONSTANTS
  m = m
  n = n
  Scans = {A, B}
  A = A
  B = B
  Pollers = {m, n}
  Address <- MCAddress
  Ids = {x, y}
  x = x
  y = y
  Slaves = {1}
  Timeouts = {1}
  NormalWait = 2
  Scanner = Scanner
  NoSource = NoSource
  NoScan = NoScan
  NoRequest = NoRequest
  IdleMs = 2
  HardLimitMs = 3
  ClockMod = 6
  LoopGap = 2
INVARIANTS
  TypeOK
  PausedIffLeased
  NoPausedFrameWaiting
  ProbeFrameAccounted
  OneResultPerCall
  LeaseBounded
  LeaseMsgTrue
PROPERTIES
  InFlightLeaseKept
  ImplementsContract
  EverythingEnds
