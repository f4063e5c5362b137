SPECIFICATION Spec
CONSTANTS
  Tasks = {t1, t2}
  Calls = {c1, c2}
  Scans = {s1, s2}
  BigRecords = {s1}
  MaxRecords = 1
  MaxGen = 2
  MaxRestarts = 1
INVARIANT
  EndRemembered
CHECK_DEADLOCK FALSE
