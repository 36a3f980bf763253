CONSTANTS
  k1 = k1
  reply = reply
  marker = marker
  None = None
  Keys = {k1}
  Writes = {reply, marker}
  Markers = {marker}
  KeyOf <- MCKeyOf
  Workers = {w1, w2}
  MaxAttempts = 3
SPECIFICATION FairSpec
INVARIANTS TypeOK
PROPERTIES OneHolder RowProgresses ImplementsOwedWrite
CHECK_DEADLOCK FALSE
