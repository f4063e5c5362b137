SPECIFICATION Spec
CONSTANTS
  Tasks = {t1, t2}
  Calls = {c1, c2}
  Scans = {s1, s2}
  BigRecords = {}
  MaxRecords = 1
  MaxGen = 3
  MaxRestarts = 2
SYMMETRY Interchangeable
INVARIANTS
  TypeOK
  NoOrphanScan
  HistoryTrue
PROPERTIES
  CallsStayHome
  StaleUnloadHarmless
CHECK_DEADLOCK FALSE
