SPECIFICATION Spec
CONSTANTS
  Buses = {"a", "b"}
  AnyBus = AnyBus
  Unset = Unset
  Names = {"ra", "la", "rb", "lb", "none"}
  Pollers <- MCPollers
  Firmwares <- MCFirmwares
  Documents <- MCDocuments
  Calls <- MCCalls
  Payloads <- MCPayloads
  NoInfo = NoInfo
  NoScan = NoScan
  MaxFlashes = 1
  MaxRestarts = 1
INVARIANTS
  TypeOK
  PausesAsChosen
  GapsFitLease
  NothingRefusedLater
