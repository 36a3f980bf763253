CONSTANTS
  None = None
  Runs = {r1}
  MaxLate = 2
  Workers = {w1, w2}
  MaxAttempts = 2
SPECIFICATION FairSpec
INVARIANTS TypeOK
PROPERTIES EveryAttemptTried RunDecided ImplementsOwedWrite
CHECK_DEADLOCK FALSE
