CONSTANTS
  p1 = p1
  p2 = p2
  i1 = i1
  i2 = i2
  i3 = i3
  Processes = {p1, p2}
  Invocations = {i1, i2, i3}
  HomeOf <- MCHomeOf
SPECIFICATION CronFairSpec
INVARIANTS CronTypeOK OverlapNeedsPrune
PROPERTIES OncePerDay GuardReleased
