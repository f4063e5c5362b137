SPECIFICATION Spec
CONSTANTS
  Slaves = {1, 2}
  NumRegs = 3
  NumCore = 2
  Commands <- MCCommands
  Fresh = 1
  PollPause = 1
  Watchdog = 4
PROPERTY FaultBlocksReads
