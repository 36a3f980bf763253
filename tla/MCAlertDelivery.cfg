CONSTANTS
  None = None
  Runs = {r1, r2}
  Rules = {"level", "cross"}
  Values = {"low", "high"}
  Fires <- MCFires
  Crossing = {"cross"}
  Channels <- TwoChannels
SPECIFICATION FairSpec
INVARIANTS TypeOK OneDelivery RetiredAfterDelivery
PROPERTY NoSilentAlert
CHECK_DEADLOCK FALSE
