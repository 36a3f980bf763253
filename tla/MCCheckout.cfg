CONSTANTS
  k1 = k1
  q1 = q1
  q2 = q2
  None = None
  Keys = {k1}
  Requests = {q1, q2}
  MaxInvoices = 3
SPECIFICATION FairSpec
INVARIANTS TypeOK CompletedIsBooked OneBookkeeper
PROPERTIES RetryCompletes
