SPECIFICATION FairSpec
CONSTANTS
  t1 = t1
  t2 = t2
  u1 = u1
  Turns <- MCTurns
  StreamTurns = {t1}
  JournalTurns = {t2}
  Users = {u1}
  UserOf <- MCUserOf
  Estimates = {2}
  Costs = {1, 3}
  Caps = {3}
  MaxCap = 3
  LastDay = 1
  Workers = {w1, w2}
  BatchSize = 2
INVARIANTS
  TypeOK
  CounterMatchesLedger
  OpenWithinCap
  SpendBounded
PROPERTIES
  ResolvedOnce
  SettledChargesCost
  NothingStranded
CHECK_DEADLOCK FALSE
