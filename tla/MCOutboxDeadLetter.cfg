CONSTANTS
  k1 = k1
  reply = reply
  marker = marker
  None = None
  Keys = {k1}
  Writes = {reply, marker}
  Markers = {marker}
  KeyOf <- MCKeyOf
  Workers = {w1, w2}
  MaxAttempts = 2
SPECIFICATION Spec
PROPERTY LastAttemptMarksDead
CHECK_DEADLOCK FALSE
