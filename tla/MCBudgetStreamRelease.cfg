SPECIFICATION Spec
CONSTANTS
  t1 = t1
  t2 = t2
  u1 = u1
  Turns <- MCTurns
  StreamTurns = {t1}
  JournalTurns = {}
  Users = {u1}
  UserOf <- MCUserOf
  Estimates = {1}
  Costs = {2}
  Caps = {2}
  MaxCap = 2
  LastDay = 1
  Workers = {w1}
  BatchSize = 1
PROPERTIES
  ReleaseMeansNoRun
CHECK_DEADLOCK FALSE
